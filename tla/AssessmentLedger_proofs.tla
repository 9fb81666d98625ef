----------------------- MODULE AssessmentLedger_proofs -----------------------
(***************************************************************************)
(* Proofs about AssessmentLedger, for every set of handles, every limit    *)
(* and any number of faults: its types, its inductive invariant and what   *)
(* follows from it for records, calls, publication and recovery, and that  *)
(* the ledger implements PaidAssessment.                                   *)
(***************************************************************************)
EXTENDS AssessmentLedger, TLAPS

USE DEF Attempts, Legs, First, Recovery, NoAttempt, Days

\* What types need to know of control: an admission has a handle, and only a
\* classified Grok response reaches recordOutcome.
Classified(r) == r.kind \in {"accepted", "abstained", "invalid"}
TypeInv ==
    /\ TypeOK
    /\ adm.pc # "idle" => adm.handle \in Handles
    /\ \A h \in Handles : job[h].pc = "outcome" => Classified(job[h].reply)

\* Faults stay within their bound.
LEMMA FaultsBounded ==
    ASSUME faults \in 0 .. MaxFaults, NEW w \in PutResults, Faulty(w)
    PROVE  faults' \in 0 .. MaxFaults
BY LimitAssumption DEF PutResults, Faulty

\* The records that the actions write.
LEMMA RecordTypes ==
    /\ Blank \in AttemptRecords /\ Fresh \in AttemptRecords
    /\ NoReceipt \notin Receipts
    /\ IdleAdm \in Admissions /\ IdleAdm.pc = "idle"
    /\ IdleJob \in Jobs /\ IdleJob.pc = "idle"
    /\ NoAudit \in Audits
<1>1. Blank \in AttemptRecords /\ Fresh \in AttemptRecords
    BY DEF Blank, Fresh, AttemptRecords, Outcomes, Categories
<1>2. NoReceipt \notin Receipts
    BY DEF NoReceipt, Receipts, XReplies, GrokReplies
<1>3. IdleAdm \in Admissions /\ IdleAdm.pc = "idle"
    BY <1>1, LimitAssumption DEF IdleAdm, Admissions, AdmissionSteps
<1>4. IdleJob \in Jobs /\ IdleJob.pc = "idle"
    BY DEF IdleJob, Jobs, JobSteps
<1>5. NoAudit \in Audits
    BY LimitAssumption DEF NoAudit, Audits
<1> QED BY <1>1, <1>2, <1>3, <1>4, <1>5

LEMMA TypeInit == Init => TypeInv
BY RecordTypes, LimitAssumption DEF Init, TypeInv, TypeOK, CompletionSteps, Requests

LEMMA Addresses ==
    ASSUME TypeOK, NEW h \in Handles
    PROVE  /\ Run(h) \in Attempts /\ Run(h)[1] = h
           /\ Current(h) \in Attempts /\ Current(h)[1] = h
           /\ First(h) \in Attempts /\ Recovery(h) \in Attempts
BY DEF TypeOK, Run, Current, Jobs

\* A write of admit keeps the types, whatever becomes of it.
LEMMA TypeAdmitTo ==
    ASSUME TypeInv, adm.handle \in Handles, NEW w, NEW next \in AdmissionSteps, AdmitTo(w, next)
    PROVE  adm' \in Admissions /\ (adm'.pc # "idle" => adm'.handle \in Handles)
BY RecordTypes DEF TypeInv, TypeOK, AdmitTo, Admissions, AdmissionSteps

\* A step of a job that only moves it keeps the types of jobs.
LEMMA TypeMove ==
    ASSUME TypeInv, NEW h \in Handles, NEW next \in JobSteps,
           next = "outcome" => Classified(job[h].reply),
           job' = [job EXCEPT ![h].pc = next]
    PROVE  /\ job' \in [Handles -> Jobs]
           /\ \A k \in Handles : job'[k].pc = "outcome" => Classified(job'[k].reply)
<1> USE DEF TypeInv, TypeOK
<1> DEFINE moved == [job[h] EXCEPT !.pc = next]
<1>0. job[h] \in Jobs
  OBVIOUS
<1>1. moved \in Jobs /\ moved.pc = next /\ moved.reply = job[h].reply
  BY <1>0 DEF Jobs
<1>2. job' = [job EXCEPT ![h] = moved]
  OBVIOUS
<1> HIDE DEF moved
<1>3. job' \in [Handles -> Jobs]
  BY <1>1, <1>2
<1>4. \A k \in Handles : job'[k] = IF k = h THEN moved ELSE job[k]
  BY <1>2
<1> QED BY <1>1, <1>3, <1>4 DEF Classified

\* A write of a job keeps the types when the record and the next step have theirs.
LEMMA TypeSave ==
    ASSUME TypeInv, NEW h \in Handles, NEW record \in AttemptRecords, NEW next \in JobSteps,
           next = "outcome" => Classified(job[h].reply), Save(h, record, next)
    PROVE  TypeInv'
<1> USE DEF TypeInv, TypeOK
<1>1. PICK w \in PutResults :
         /\ saved' = Put(w, saved, [saved EXCEPT ![Run(h)] = record])
         /\ job' = [job EXCEPT ![h].pc = IF w = "ok" THEN next ELSE "fail-storage"]
         /\ Faulty(w)
  BY DEF Save
<1>2. saved' \in [Attempts -> AttemptRecords]
  BY <1>1 DEF Put
<1>3. /\ job' \in [Handles -> Jobs]
      /\ \A k \in Handles : job'[k].pc = "outcome" => Classified(job'[k].reply)
  <2> DEFINE then == IF w = "ok" THEN next ELSE "fail-storage"
  <2>1. then \in JobSteps /\ (then = "outcome" => Classified(job[h].reply))
    BY DEF JobSteps
  <2>2. job' = [job EXCEPT ![h].pc = then]
    BY <1>1
  <2> HIDE DEF then
  <2> QED BY <2>1, <2>2, TypeMove
<1>4. faults' \in 0 .. MaxFaults
  BY <1>1, FaultsBounded
<1> QED BY <1>2, <1>3, <1>4 DEF Save, recovery, world

LEMMA TypeSettle ==
    ASSUME TypeInv, NEW h \in Handles, NEW next \in CompletionSteps, Settle(h, next)
    PROVE  /\ job' \in [Handles -> Jobs]
           /\ \A k \in Handles : job'[k].pc = "outcome" => Classified(job'[k].reply)
           /\ completion' \in [Handles -> [Requests -> CompletionSteps]]
BY RecordTypes DEF TypeInv, TypeOK, Settle, Classified, Requests

LEMMA TypeRecords ==
    ASSUME TypeOK, NEW a \in Attempts
    PROVE  /\ \A x \in {"sent", "verified"} : [saved[a] EXCEPT !.x = x] \in AttemptRecords
           /\ [saved[a] EXCEPT !.grok = TRUE] \in AttemptRecords
           /\ [saved[a] EXCEPT !.linked = TRUE] \in AttemptRecords
           /\ \A f \in {"prepared", "failed"} : [saved[a] EXCEPT !.artifact = f] \in AttemptRecords
           /\ \A c \in Categories : Failure(a, c) \in AttemptRecords
           /\ \A k \in {"accepted", "abstained", "invalid"} : WithOutcome(a, k) \in AttemptRecords
<1> USE DEF TypeOK
<1>0. saved[a] \in AttemptRecords
  OBVIOUS
<1>1. FailureOutcome(a) \in Outcomes
  BY DEF FailureOutcome, Outcomes
<1>2. saved[a].outcome \in Outcomes /\ saved[a].category \in Categories
  BY <1>0 DEF AttemptRecords
<1>3. \A c \in Categories, o \in Outcomes :
         [saved[a] EXCEPT !.category = c, !.outcome = o] \in AttemptRecords
  BY <1>0 DEF AttemptRecords
<1>4. \A c \in Categories : Failure(a, c) \in AttemptRecords
  BY <1>1, <1>2, <1>3 DEF Failure
<1>5. \A k \in {"accepted", "abstained", "invalid"} : WithOutcome(a, k) \in AttemptRecords
  <2>1. \A o \in Outcomes : [saved[a] EXCEPT !.outcome = o] \in AttemptRecords
    BY <1>0 DEF AttemptRecords
  <2> QED BY <2>1 DEF WithOutcome, Outcomes
<1> QED BY <1>0, <1>4, <1>5 DEF AttemptRecords

LEMMA TypeAdmission == TypeInv /\ Admission => TypeInv'
<1> SUFFICES ASSUME TypeInv, Admission PROVE TypeInv'
    OBVIOUS
<1> USE RecordTypes, LimitAssumption DEF TypeInv, TypeOK, ledger, recovery, world
<1>1. ASSUME NEW h \in Handles, RequestAdmission(h) PROVE TypeInv'
  <2>1. adm' \in Admissions /\ adm'.handle = h
    BY <1>1 DEF RequestAdmission, Admissions, AdmissionSteps
  <2> QED BY <1>1, <2>1 DEF RequestAdmission
<1>2. ASSUME NEW h \in Handles, RequestRecovery(h) PROVE TypeInv'
  <2>1. adm' \in Admissions /\ adm'.handle = h
    BY <1>2 DEF RequestRecovery, Admissions, AdmissionSteps
  <2> QED BY <1>2, <2>1 DEF RequestRecovery
<1>3. CASE AdmitAccount
  <2>1. adm' \in Admissions /\ adm'.handle = adm.handle
    BY <1>3 DEF AdmitAccount, Admissions, AdmissionSteps
  <2> QED BY <1>3, <2>1 DEF AdmitAccount
<1>4. CASE AdmitRefuse
  BY <1>4 DEF AdmitRefuse
<1>5. CASE AdmitBudget
  <2>1. PICK w \in PutResults :
           /\ budget' = Put(w, budget, budget \cup {First(adm.handle)})
           /\ day' = Put(w, day, [day EXCEPT ![First(adm.handle)] = adm.day])
           /\ AdmitTo(w, "daily") /\ Faulty(w)
    BY <1>5 DEF AdmitBudget
  <2>2. budget' \subseteq Attempts /\ day' \in [Attempts -> Days]
    BY <1>5, <2>1 DEF Put, AdmitBudget, Admissions
  <2>3. adm' \in Admissions /\ (adm'.pc # "idle" => adm'.handle \in Handles)
    BY <1>5, <2>1, TypeAdmitTo DEF AdmitBudget, AdmissionSteps
  <2> QED BY <1>5, <2>1, <2>2, <2>3, FaultsBounded DEF AdmitBudget
<1>6. CASE AdmitDaily
  <2>1. PICK w \in PutResults :
           /\ daily' = Put(w, daily, [daily EXCEPT ![adm.day] = adm.count + 1])
           /\ AdmitTo(w, "attempt") /\ Faulty(w)
    BY <1>6 DEF AdmitDaily
  <2>2. daily' \in [Days -> Nat]
    BY <2>1 DEF Put, Admissions
  <2>3. adm' \in Admissions /\ (adm'.pc # "idle" => adm'.handle \in Handles)
    BY <1>6, <2>1, TypeAdmitTo DEF AdmitDaily, AdmissionSteps
  <2> QED BY <1>6, <2>1, <2>2, <2>3, FaultsBounded DEF AdmitDaily
<1>7. CASE AdmitAttempt
  <2>1. PICK w \in PutResults :
           /\ saved' = Put(w, saved, [saved EXCEPT ![First(adm.handle)] = Fresh])
           /\ AdmitTo(w, "request") /\ Faulty(w)
    BY <1>7 DEF AdmitAttempt
  <2>2. saved' \in [Attempts -> AttemptRecords]
    BY <2>1 DEF Put
  <2>3. adm' \in Admissions /\ (adm'.pc # "idle" => adm'.handle \in Handles)
    BY <1>7, <2>1, TypeAdmitTo DEF AdmitAttempt, AdmissionSteps
  <2> QED BY <1>7, <2>1, <2>2, <2>3, FaultsBounded DEF AdmitAttempt
<1>8. CASE PutRequest
  <2>1. PICK w \in PutResults : AdmitTo(w, "start") /\ Faulty(w)
    BY <1>8 DEF PutRequest
  <2>2. adm' \in Admissions /\ (adm'.pc # "idle" => adm'.handle \in Handles)
    BY <1>8, <2>1, TypeAdmitTo DEF PutRequest, AdmissionSteps
  <2> QED BY <1>8, <2>1, <2>2, FaultsBounded DEF PutRequest
<1>9. CASE StartAssessment
  <2>1. /\ job' \in [Handles -> Jobs]
        /\ \A k \in Handles : job'[k].pc = "outcome" => Classified(job'[k].reply)
    BY <1>9 DEF StartAssessment, Jobs, JobSteps, Classified, Admissions
  <2> QED BY <1>9, <2>1 DEF StartAssessment
<1>10. CASE WalletChanged
  BY <1>10 DEF WalletChanged
<1> QED BY <1>1, <1>2, <1>3, <1>4, <1>5, <1>6, <1>7, <1>8, <1>9, <1>10 DEF Admission

LEMMA TypeJob == ASSUME TypeInv, NEW h \in Handles, Job(h) PROVE TypeInv'
<1> USE DEF TypeInv, TypeOK
<1>0. Run(h) \in Attempts
  BY Addresses
<1>1. CASE BeforeX(h)
  BY <1>0, <1>1, TypeRecords, TypeSave DEF BeforeX, JobSteps
<1>2. CASE BeforeGrok(h)
  BY <1>0, <1>2, TypeRecords, TypeSave DEF BeforeGrok, JobSteps
<1>3. CASE RefuseDispatch(h)
  BY <1>3, TypeMove DEF RefuseDispatch, JobSteps, ledger, recovery, world
<1>4. ASSUME NEW leg \in Legs, NEW bill \in Nat, NEW reply \in Receipts,
             NEW next \in {"xreceipt", "greceipt"}, Call(h, leg, bill, reply, next)
      PROVE  TypeInv'
  <2>0. PICK r \in Attempts : r = Run(h)
    BY <1>0
  <2>1. calls' \in [Attempts -> [Legs -> Nat]] /\ charge' \in [Attempts -> Nat]
    <3>1. calls[r][leg] + 1 \in Nat /\ charge[r] + bill \in Nat
      BY <1>4
    <3>2. /\ calls' = [calls EXCEPT ![r][leg] = calls[r][leg] + 1]
          /\ charge' = [charge EXCEPT ![r] = charge[r] + bill]
      BY <1>4, <2>0 DEF Call
    <3>3. charge' \in [Attempts -> Nat]
      BY <3>1, <3>2
    <3>4. [calls[r] EXCEPT ![leg] = calls[r][leg] + 1] \in [Legs -> Nat]
      BY <3>1
    <3>5. calls' \in [Attempts -> [Legs -> Nat]]
      BY <3>2, <3>4
    <3> QED BY <3>3, <3>5
  <2>2. /\ job' \in [Handles -> Jobs]
        /\ \A k \in Handles : job'[k].pc = "outcome" => Classified(job'[k].reply)
    <3> DEFINE moved == [job[h] EXCEPT !.pc = next, !.reply = reply]
    <3>1. job[h] \in Jobs
      OBVIOUS
    <3>2. moved \in Jobs /\ moved.pc # "outcome"
      BY <3>1 DEF Jobs, JobSteps
    <3>3. job' = [job EXCEPT ![h] = moved]
      BY <1>4 DEF Call
    <3> HIDE DEF moved
    <3> QED BY <3>2, <3>3
  <2> QED BY <1>4, <2>1, <2>2 DEF Call, ledger, recovery
<1>5. CASE CallX(h)
  BY <1>4, <1>5, ChargeAssumption DEF CallX, Receipts
<1>6. CASE CallGrok(h)
  BY <1>4, <1>6, ChargeAssumption DEF CallGrok, Receipts
<1>7. ASSUME NEW leg \in Legs, NEW next \in {"xverify", "gstamp", "fail"}, RecordReceipt(h, leg, next)
      PROVE  TypeInv'
  <2>1. PICK w \in PutResults :
           /\ receipt' = Put(w, receipt, [receipt EXCEPT ![Run(h)][leg] = job[h].reply])
           /\ job' = [job EXCEPT ![h].pc = IF w = "ok" THEN next ELSE "fail-storage"]
           /\ Faulty(w)
    BY <1>7 DEF RecordReceipt
  <2>2. receipt' \in [Attempts -> [Legs -> Receipts \cup {NoReceipt}]]
    BY <1>0, <2>1 DEF Put, Jobs
  <2>3. /\ job' \in [Handles -> Jobs]
        /\ \A k \in Handles : job'[k].pc = "outcome" => Classified(job'[k].reply)
    BY <2>1, TypeMove DEF JobSteps
  <2>4. faults' \in 0 .. MaxFaults
    BY <2>1, FaultsBounded
  <2> QED BY <1>7, <2>2, <2>3, <2>4 DEF RecordReceipt, recovery, world
<1>8. CASE ReceiptX(h)
  BY <1>7, <1>8 DEF ReceiptX
<1>9. CASE VerifyX(h)
  BY <1>0, <1>9, TypeRecords, TypeSave DEF VerifyX, JobSteps
<1>10. CASE ReceiptGrok(h)
  BY <1>7, <1>10 DEF ReceiptGrok
<1>11. CASE StampGrok(h)
  BY <1>0, <1>11, TypeSave DEF StampGrok, JobSteps, Classified
<1>12. CASE RecordOutcome(h)
  <2>1. PICK w \in PutResults :
           /\ saved' = Put(w, saved, [saved EXCEPT ![Run(h)] = WithOutcome(Run(h), job[h].reply.kind)])
           /\ \E next \in {"persist", "fail-storage", "fail"} : job' = [job EXCEPT ![h].pc = next]
           /\ Faulty(w)
    BY <1>12 DEF RecordOutcome
  <2>2. saved' \in [Attempts -> AttemptRecords]
    BY <1>0, <1>12, <2>1, TypeRecords DEF Put, RecordOutcome, Classified
  <2>3. /\ job' \in [Handles -> Jobs]
        /\ \A k \in Handles : job'[k].pc = "outcome" => Classified(job'[k].reply)
    BY <2>1, TypeMove DEF JobSteps
  <2> QED BY <1>12, <2>1, <2>2, <2>3, FaultsBounded DEF RecordOutcome, recovery, world
<1>13. CASE Persist(h)
  <2>1. PICK w \in PutResults :
           /\ canonical' = Put(w, canonical,
                               [canonical EXCEPT ![h] = IF @ = NoAttempt THEN Run(h) ELSE @])
           /\ job' = [job EXCEPT ![h].pc = IF w = "ok" THEN "link" ELSE "fail-storage"]
           /\ Faulty(w)
    BY <1>13 DEF Persist
  <2>2. canonical' \in [Handles -> Attempts \cup {NoAttempt}]
    BY <1>0, <2>1 DEF Put
  <2>3. /\ job' \in [Handles -> Jobs]
        /\ \A k \in Handles : job'[k].pc = "outcome" => Classified(job'[k].reply)
    BY <2>1, TypeMove DEF JobSteps
  <2> QED BY <1>13, <2>1, <2>2, <2>3, FaultsBounded DEF Persist, recovery, world
<1>14. CASE Link(h)
  <2>1. CASE Settle(h, "reconcile") /\ UNCHANGED <<saved, faults>>
    BY <1>14, <2>1, TypeSettle DEF Link, CompletionSteps, recovery, world
  <2>2. CASE \E w \in PutResults :
                /\ saved' = Put(w, saved, [saved EXCEPT ![Run(h)].linked = TRUE])
                /\ IF w = "ok" THEN Settle(h, "reconcile")
                   ELSE job' = [job EXCEPT ![h].pc = "fail-storage"] /\ UNCHANGED completion
                /\ Faulty(w)
    <3>1. saved' \in [Attempts -> AttemptRecords]
      BY <1>0, <2>2, TypeRecords, ZenonT(60) DEF Put
    <3>2. /\ job' \in [Handles -> Jobs]
          /\ \A k \in Handles : job'[k].pc = "outcome" => Classified(job'[k].reply)
          /\ completion' \in [Handles -> [Requests -> CompletionSteps]]
      BY <2>2, TypeMove, TypeSettle DEF JobSteps, CompletionSteps
    <3> QED BY <1>14, <2>2, <3>1, <3>2, FaultsBounded DEF Link, recovery, world
  <2> QED BY <1>14, <2>1, <2>2 DEF Link
<1>15. CASE JobFailed(h)
  <2>1. saved' \in [Attempts -> AttemptRecords] /\ faults' \in 0 .. MaxFaults
    BY <1>0, <1>15, TypeRecords, FaultsBounded DEF Put, JobFailed, Categories
  <2> QED BY <1>15, <2>1, TypeSettle DEF JobFailed, CompletionSteps, recovery, world
<1> QED BY <1>1, <1>2, <1>3, <1>5, <1>6, <1>8, <1>9, <1>10, <1>11, <1>12, <1>13, <1>14, <1>15 DEF Job

LEMMA TypeComplete ==
    ASSUME TypeInv, NEW h \in Handles, NEW q \in Requests, Complete(h, q)
    PROVE  TypeInv'
<1> USE DEF TypeInv, TypeOK
<1>0. Current(h) \in Attempts
  BY Addresses
<1>1. ASSUME NEW next \in CompletionSteps, Go(h, q, next)
      PROVE  completion' \in [Handles -> [Requests -> CompletionSteps]]
  BY <1>1 DEF Go
<1>2. ASSUME CompletionFrame, completion' \in [Handles -> [Requests -> CompletionSteps]],
             saved' \in [Attempts -> AttemptRecords], faults' \in 0 .. MaxFaults
      PROVE  TypeInv'
  BY <1>2 DEF CompletionFrame, recovery, world
<1>3. CASE Reconcile(h, q)
  <2>1. completion' \in [Handles -> [Requests -> CompletionSteps]]
    BY <1>1, <1>3 DEF Reconcile, CompletionSteps
  <2>2. saved' \in [Attempts -> AttemptRecords] /\ faults' \in 0 .. MaxFaults
    BY <1>0, <1>3, TypeRecords, FaultsBounded DEF Reconcile, Put
  <2> QED BY <1>2, <1>3, <2>1, <2>2 DEF Reconcile
<1>4. CASE PrepareArtifact(h, q)
  <2>1. completion' \in [Handles -> [Requests -> CompletionSteps]]
    BY <1>1, <1>4 DEF PrepareArtifact, CompletionSteps
  <2>2. faults' \in 0 .. MaxFaults
    BY <1>4, FaultsBounded DEF PrepareArtifact
  <2> QED BY <1>2, <1>4, <2>1, <2>2 DEF PrepareArtifact
<1>5. CASE ArtifactPrepared(h, q)
  <2>1. completion' \in [Handles -> [Requests -> CompletionSteps]]
    BY <1>1, <1>5 DEF ArtifactPrepared, CompletionSteps
  <2>2. saved' \in [Attempts -> AttemptRecords] /\ faults' \in 0 .. MaxFaults
    BY <1>0, <1>5, TypeRecords, FaultsBounded DEF ArtifactPrepared, Put
  <2> QED BY <1>2, <1>5, <2>1, <2>2 DEF ArtifactPrepared
<1>6. CASE ArtifactFailed(h, q)
  <2>1. completion' \in [Handles -> [Requests -> CompletionSteps]]
    BY <1>1, <1>6 DEF ArtifactFailed, CompletionSteps
  <2>2. saved' \in [Attempts -> AttemptRecords] /\ faults' \in 0 .. MaxFaults
    BY <1>0, <1>6, TypeRecords, FaultsBounded DEF ArtifactFailed, Put
  <2> QED BY <1>2, <1>6, <2>1, <2>2 DEF ArtifactFailed
<1> QED BY <1>3, <1>4, <1>5, <1>6 DEF Complete

LEMMA TypeLifecycle == TypeInv /\ Lifecycle => TypeInv'
<1> SUFFICES ASSUME TypeInv, Lifecycle PROVE TypeInv'
    OBVIOUS
<1> USE RecordTypes, LimitAssumption DEF TypeInv, TypeOK, ledger, recovery, world
<1>1. ASSUME Exit, faults' \in 0 .. MaxFaults PROVE TypeInv'
  BY <1>1 DEF Exit, Requests, CompletionSteps
<1>2. CASE Crash
  <2>1. Exit /\ faults < MaxFaults /\ faults' = faults + 1
    BY <1>2 DEF Crash
  <2>2. faults' \in 0 .. MaxFaults
    BY <2>1
  <2> QED BY <1>1, <2>1, <2>2
<1>3. CASE Stop
  BY <1>1, <1>3 DEF Stop
<1>4. CASE Start
  BY <1>4 DEF Start
<1>5. CASE Serve
  BY <1>5 DEF Serve
<1>6. ASSUME NEW h \in Handles, RecoverHandle(h) PROVE TypeInv'
  <2>0. Current(h) \in Attempts
    BY Addresses
  <2>1. saved' \in [Attempts -> AttemptRecords]
    BY <1>6, <2>0, TypeRecords, ZenonT(60) DEF RecoverHandle, Put, Categories
  <2>2. faults' \in 0 .. MaxFaults
    BY <1>6, FaultsBounded DEF RecoverHandle
  <2>3. todo' \subseteq Handles /\ phase' \in {"down", "starting", "serving", "operator"}
    BY <1>6 DEF RecoverHandle
  <2> QED BY <1>6, <2>1, <2>2, <2>3 DEF RecoverHandle
<1>7. CASE OperatorBegin
  BY <1>7 DEF OperatorBegin
<1>8. CASE OperatorEnd
  BY <1>8 DEF OperatorEnd
<1>9. CASE ToggleGeneration
  BY <1>9 DEF ToggleGeneration
<1>10. CASE NextDay
  BY <1>10, SMTT(30) DEF NextDay
<1> QED BY <1>2, <1>3, <1>4, <1>5, <1>6, <1>7, <1>8, <1>9, <1>10 DEF Lifecycle

LEMMA TypeStage == ASSUME TypeInv, NEW h \in Handles, Stage(h) PROVE TypeInv'
<1> USE DEF TypeInv, TypeOK
<1>0. First(h) \in Attempts /\ Recovery(h) \in Attempts
  BY Addresses
<1>1. ASSUME NEW w \in PutResults, Staging(w),
             budget' \subseteq Attempts, day' \in [Attempts -> Days], daily' \in [Days -> Nat],
             saved' \in [Attempts -> AttemptRecords], audit' \in Audits,
             link' \subseteq Handles, head' \subseteq Handles
      PROVE  TypeInv'
  <2>1. faults' \in 0 .. MaxFaults
    BY <1>1, FaultsBounded DEF Staging
  <2> QED BY <1>1, <2>1 DEF Staging, StageFrame, world
<1>2. CASE StageAudit(h)
  <2>1. PICK w \in PutResults :
           /\ audit' = Put(w, audit, [handle |-> h, billing |-> charge[First(h)], day |-> today,
                                      before |-> daily[today]])
           /\ Staging(w)
    BY <1>2 DEF StageAudit
  <2>2. charge[First(h)] \in Nat /\ daily[today] \in Nat
    BY <1>0
  <2>3. audit' \in Audits
    BY <2>1, <2>2 DEF Put, Audits
  <2> QED BY <1>1, <1>2, <2>1, <2>3 DEF StageAudit
<1>3. CASE StageLink(h)
  BY <1>1, <1>3 DEF StageLink, Put
<1>4. CASE StageBudget(h)
  <2>1. PICK w \in PutResults :
           /\ budget' = Put(w, budget, budget \cup {Recovery(h)})
           /\ day' = Put(w, day, [day EXCEPT ![Recovery(h)] = audit.day])
           /\ Staging(w)
    BY <1>4 DEF StageBudget
  <2>2. budget' \subseteq Attempts /\ day' \in [Attempts -> Days]
    BY <1>0, <2>1 DEF Put, Audits
  <2> QED BY <1>1, <1>4, <2>1, <2>2 DEF StageBudget, recovery
<1>5. CASE StageDaily(h)
  <2>1. PICK w \in PutResults :
           /\ daily' = Put(w, daily, [daily EXCEPT ![audit.day] = audit.before + 1])
           /\ Staging(w)
    BY <1>5 DEF StageDaily
  <2>2. daily' \in [Days -> Nat]
    BY <2>1 DEF Put, Audits
  <2> QED BY <1>1, <1>5, <2>1, <2>2 DEF StageDaily, recovery
<1>6. CASE StageAttempt(h)
  BY <1>0, <1>1, <1>6, RecordTypes, ZenonT(60) DEF StageAttempt, Put, recovery
<1>7. CASE StageHead(h)
  BY <1>1, <1>7 DEF StageHead, Put
<1> QED BY <1>2, <1>3, <1>4, <1>5, <1>6, <1>7 DEF Stage

LEMMA TypeStep == TypeInv /\ [Next]_vars => TypeInv'
<1> SUFFICES ASSUME TypeInv, [Next]_vars PROVE TypeInv'
    OBVIOUS
<1>1. ASSUME NEW h \in Handles, RequestReuse(h) PROVE TypeInv'
  BY <1>1 DEF RequestReuse, TypeInv, TypeOK, ledger, recovery, world, Requests, CompletionSteps
<1>2. CASE UNCHANGED vars
  BY <1>2 DEF vars, TypeInv, TypeOK, ledger, recovery, world
<1> QED BY <1>1, <1>2, TypeAdmission, TypeJob, TypeComplete, TypeLifecycle, TypeStage DEF Next

\* Every variable stays in its type: no write of the ledger, torn by a crash or
\* not, leaves a record of another shape.
THEOREM TypeCorrect == Spec => []TypeOK
<1>1. TypeInv => TypeOK
  BY DEF TypeInv
<1> QED BY <1>1, TypeInit, TypeStep, PTL DEF Spec

-----------------------------------------------------------------------------
\* An attempt's record, the reservation behind it and the calls it admits to.
RecordOK(a) ==
    /\ ValidRecord(saved[a])
    /\ saved[a].outcome = "none" => saved[a] = Blank
    /\ saved[a].outcome # "none" => a \in budget
    /\ Receipted(a) \subseteq Dispatched(saved[a])
    /\ \A l \in Legs : /\ calls[a][l] \in {0, 1}
                       /\ calls[a][l] = 1 => l \in Dispatched(saved[a])

\* An operator's staging rests on its evidence, and nothing moves beneath it.
StageOK(h) ==
    /\ h \in link \cup head => audit.handle = h
    /\ h \in head => h \in link /\ saved[Recovery(h)].outcome # "none"
    /\ audit.handle = h => Evidence(h)
    /\ audit.handle = h /\ h \notin head =>
          /\ budget \in {{First(h)}, {First(h), Recovery(h)}}
          /\ daily[audit.day] \in {audit.before, audit.before + 1}
    /\ Recovery(h) \in budget => h \in link
    /\ \A l \in Legs : calls[Recovery(h)][l] = 1 => h \in head

\* A handle shows its current attempt or none, and only what was accepted.
CanonicalOK(h) ==
    /\ canonical[h] \in {NoAttempt, Current(h)}
    /\ \A a \in {First(h), Recovery(h)} :
          /\ saved[a].linked => canonical[h] = a
          /\ canonical[h] = a => saved[a].outcome = "accepted"
    /\ \A q \in Requests :
          completion[h][q] \in {"reconcile", "artifact", "prepared"} => canonical[h] # NoAttempt

\* The admission in progress.
AdmissionInv ==
    adm.pc # "idle" =>
        LET h == adm.handle IN
        /\ phase = "serving" /\ NoOpenStaging
        /\ <<h, adm.run>> = Current(h) /\ canonical[h] = NoAttempt /\ job[h].pc = "idle"
        /\ adm.pc \in {"account", "budget", "daily", "attempt"} =>
              /\ adm.run = "first" /\ saved[First(h)].outcome = "none"
              /\ First(h) \in budget <=> adm.pc \in {"daily", "attempt"}
        /\ adm.pc \in {"request", "start"} => saved[Current(h)].outcome = "pending"

\* The steps of a job before the outcome is recorded, and those after a Grok call.
Undecided == {"x", "xcall", "xreceipt", "xverify", "grok", "gcall", "greceipt", "gstamp", "outcome"}
Answered  == {"greceipt", "gstamp", "outcome", "persist"}
JobOK(h) ==
    job[h].pc # "idle" =>
        LET s == saved[Run(h)] IN
        /\ phase = "serving" /\ NoOpenStaging
        /\ Run(h) = Current(h) /\ s.outcome # "none"
        /\ job[h].pc \in Undecided => s.outcome = "pending" /\ canonical[h] = NoAttempt
        /\ job[h].pc = "xcall" => s.x = "sent" /\ ~s.grok /\ calls[Run(h)]["x"] = 0
        /\ job[h].pc = "gcall" => s.grok /\ calls[Run(h)]["grok"] = 0
        /\ job[h].pc \in Answered => calls[Run(h)]["grok"] = 1
        /\ job[h].pc = "persist" => s.outcome = "accepted" /\ canonical[h] = NoAttempt
        /\ job[h].pc = "link" => s.outcome = "accepted" /\ canonical[h] = Run(h)

Inv ==
    /\ TypeInv
    /\ \A a \in Attempts : RecordOK(a)
    /\ \A h \in Handles : StageOK(h) /\ CanonicalOK(h) /\ JobOK(h)
    /\ audit.handle = NoHandle => audit = NoAudit
    /\ AdmissionInv
-----------------------------------------------------------------------------
HIDE DEF Attempts, First, Recovery, NoAttempt, Days

\* Attempts are pairs: a handle's own attempt and its recovery, all different.
LEMMA Pairs ==
    /\ \A h \in Handles : First(h) \in Attempts /\ Recovery(h) \in Attempts
    /\ \A a \in Attempts : a[1] \in Handles /\ (a = First(a[1]) \/ a = Recovery(a[1]))
    /\ \A h, k : First(h) # Recovery(k)
    /\ \A h, k : (First(h) = First(k) \/ Recovery(h) = Recovery(k)) => h = k
    /\ \A h : First(h)[1] = h /\ Recovery(h)[1] = h
    /\ NoAttempt \notin Attempts
BY HandlesAssumption DEF Attempts, First, Recovery, NoAttempt

LEMMA CurrentPairs ==
    ASSUME NEW h
    PROVE  Current(h) = (IF h \in head THEN Recovery(h) ELSE First(h))
BY DEF Current

LEMMA InvInit == Init => Inv
<1> SUFFICES ASSUME Init PROVE Inv
  OBVIOUS
<1>1. TypeInv
  BY TypeInit
<1>2. ASSUME NEW a \in Attempts PROVE RecordOK(a)
  BY DEF Init, RecordOK, ValidRecord, Receipted, Dispatched, Blank
<1>3. ASSUME NEW h \in Handles PROVE StageOK(h) /\ CanonicalOK(h) /\ JobOK(h)
  <2>1. audit.handle # h /\ h \notin link \cup head
    BY HandlesAssumption DEF Init, NoAudit
  <2>2. StageOK(h)
    BY <2>1, Pairs DEF Init, StageOK
  <2>3. CanonicalOK(h)
    BY Pairs DEF Init, CanonicalOK, Blank, Requests
  <2>4. JobOK(h)
    BY DEF Init, JobOK, IdleJob
  <2> QED BY <2>2, <2>3, <2>4
<1> QED BY <1>1, <1>2, <1>3 DEF Init, Inv, AdmissionInv, IdleAdm

\* A step of the job of one handle touches that handle and its attempt alone.
\* If the attempt's record, the job and the handle end well, everything does.
LEMMA JobEffect ==
    ASSUME Inv, TypeInv', NEW h \in Handles, job[h].pc # "idle",
           NEW r \in Attempts, r = Run(h),
           \A a \in Attempts : a # r =>
              saved'[a] = saved[a] /\ receipt'[a] = receipt[a] /\ calls'[a] = calls[a],
           \A k \in Handles : k # h =>
              canonical'[k] = canonical[k] /\ completion'[k] = completion[k] /\ job'[k] = job[k],
           UNCHANGED <<phase, budget, daily, audit, link, head, adm>>,
           RecordOK(r)', saved'[r].outcome # "none", CanonicalOK(h)', JobOK(h)'
    PROVE  Inv'
<1>0. r = Current(h) /\ r \in {First(h), Recovery(h)}
      /\ phase = "serving" /\ NoOpenStaging
  BY Pairs, CurrentPairs DEF Inv, JobOK
<1>1. ASSUME NEW a \in Attempts PROVE RecordOK(a)'
  <2>1. CASE a = r
    BY <2>1
  <2>2. CASE a # r
    BY <2>2 DEF Inv, RecordOK, Receipted
  <2> QED BY <2>1, <2>2
<1>2. ASSUME NEW k \in Handles PROVE StageOK(k)'
  <2>1. audit.handle = k => First(k) # r
    BY <1>0, CurrentPairs, Pairs, HandlesAssumption DEF NoOpenStaging, NoAudit
  <2>2. Evidence(k) => (audit.handle = k => Evidence(k)')
    BY <2>1, Pairs DEF Evidence, Receipted
  <2>3. k \in head => saved'[Recovery(k)].outcome # "none"
    BY Pairs DEF Inv, StageOK
  <2>4. \A l \in Legs : calls'[Recovery(k)][l] = 1 => k \in head
    BY <1>0, CurrentPairs, Pairs DEF Inv, StageOK
  <2> QED BY <2>2, <2>3, <2>4 DEF Inv, StageOK
<1>3. ASSUME NEW k \in Handles PROVE CanonicalOK(k)'
  <2>1. CASE k # h
    <3>1. First(k) # r /\ Recovery(k) # r
      BY <1>0, <2>1, Pairs
    <3> QED BY <2>1, <3>1, Pairs DEF Inv, CanonicalOK, Current
  <2>2. CASE k = h
    BY <2>2
  <2> QED BY <2>1, <2>2
<1>4. ASSUME NEW k \in Handles PROVE JobOK(k)'
  <2>1. CASE k # h
    <3>1. Run(k)' = Run(k) /\ Run(k) \in Attempts /\ Run(k) # r
      BY <2>1, Addresses DEF Run, Inv, TypeInv
    <3> QED BY <2>1, <3>1 DEF Inv, JobOK, NoOpenStaging, Current
  <2>2. CASE k = h
    BY <2>2
  <2> QED BY <2>1, <2>2
<1>5. AdmissionInv'
  <2>1. CASE adm.pc # "idle"
    <3>1. adm.handle \in Handles /\ adm.handle # h
      BY <2>1 DEF Inv, TypeInv, AdmissionInv
    <3>2. First(adm.handle) # r /\ Recovery(adm.handle) # r
      BY <1>0, <3>1, Pairs
    <3>3. saved'[Current(adm.handle)] = saved[Current(adm.handle)]
          /\ saved'[First(adm.handle)] = saved[First(adm.handle)]
      BY <3>1, <3>2, Pairs, CurrentPairs
    <3> QED BY <3>1, <3>3 DEF Inv, AdmissionInv, NoOpenStaging, Current
  <2> QED BY <2>1 DEF AdmissionInv
<1> QED BY <1>1, <1>2, <1>3, <1>4, <1>5 DEF Inv

\* #save of an attempt that stays pending.
LEMMA SaveEffect ==
    ASSUME Inv, TypeInv', NEW h \in Handles, NEW r \in Attempts, r = Run(h),
           job[h].pc \in Undecided,
           NEW record \in AttemptRecords, NEW next \in Undecided \cup {"fail"}, Save(h, record, next),
           ValidRecord(record), record.outcome = "pending",
           Dispatched(saved[r]) \subseteq Dispatched(record),
           next = "xcall" => record.x = "sent" /\ ~record.grok /\ calls[r]["x"] = 0,
           next = "gcall" => record.grok /\ calls[r]["grok"] = 0,
           next \in Answered => calls[r]["grok"] = 1
    PROVE  Inv'
<1>1. PICK w \in PutResults :
         /\ saved' = Put(w, saved, [saved EXCEPT ![r] = record])
         /\ job' = [job EXCEPT ![h].pc = IF w = "ok" THEN next ELSE "fail-storage"]
  BY DEF Save
<1>2. /\ saved \in [Attempts -> AttemptRecords] /\ job \in [Handles -> Jobs]
      /\ r \in {First(h), Recovery(h)}
  BY Pairs, CurrentPairs DEF Inv, TypeInv, TypeOK, JobOK, Undecided
<1>3. UNCHANGED <<phase, budget, daily, receipt, canonical, audit, link, head, adm, completion, calls>>
  BY DEF Save, recovery, world
<1>4. saved[r].outcome = "pending" /\ canonical[h] = NoAttempt /\ r = Current(h) /\ RecordOK(r)
      /\ phase = "serving" /\ NoOpenStaging /\ CanonicalOK(h)
  BY DEF Inv, JobOK, Undecided
<1>5. /\ \A a \in Attempts : a # r => saved'[a] = saved[a]
      /\ saved'[r] \in {saved[r], record} /\ saved'[r].outcome = "pending"
      /\ w = "ok" => saved'[r] = record
  BY <1>1, <1>2, <1>4 DEF Put
<1>6. /\ \A k \in Handles : k # h => job'[k] = job[k]
      /\ job'[h].run = job[h].run
      /\ job'[h].pc = IF w = "ok" THEN next ELSE "fail-storage"
  <2> DEFINE then == IF w = "ok" THEN next ELSE "fail-storage"
  <2>1. job' = [job EXCEPT ![h].pc = then]
    BY <1>1
  <2> HIDE DEF then
  <2>2. /\ \A k \in Handles : k # h => job'[k] = job[k]
        /\ job'[h].run = job[h].run /\ job'[h].pc = then
    BY <1>2, <2>1 DEF Jobs
  <2> QED BY <2>2 DEF then
<1>7. RecordOK(r)'
  BY <1>3, <1>4, <1>5 DEF RecordOK, Receipted
<1>8. CanonicalOK(h)'
  <2>1. \A a \in {First(h), Recovery(h)} : ~saved'[a].linked
    <3>1. ~saved'[r].linked
      BY <1>4, <1>5, <1>7 DEF RecordOK, ValidRecord
    <3>2. \A a \in {First(h), Recovery(h)} : a # r => ~saved'[a].linked
      BY <1>4, <1>5, Pairs DEF CanonicalOK
    <3> QED BY <3>1, <3>2
  <2>2. canonical'[h] = NoAttempt
    BY <1>3, <1>4
  <2> QED BY <1>3, <1>4, <2>1, <2>2, Pairs DEF CanonicalOK, Current
<1>9. JobOK(h)'
  <2>1. Run(h)' = r /\ Current(h)' = r
    BY <1>3, <1>4, <1>6 DEF Run, Current
  <2> QED BY <1>3, <1>4, <1>5, <1>6, <2>1 DEF JobOK, NoOpenStaging, Undecided, Answered
<1> QED BY <1>3, <1>5, <1>6, <1>7, <1>8, <1>9, JobEffect DEF Undecided

LEMMA InvBeforeX == ASSUME Inv, TypeInv', NEW h \in Handles, BeforeX(h) PROVE Inv'
<1> DEFINE r == Run(h)
           record == [saved[r] EXCEPT !.x = "sent"]
<1>1. r \in Attempts /\ saved[r] \in AttemptRecords /\ RecordOK(r)
  BY Addresses DEF Inv, TypeInv, TypeOK
<1>2. saved[r].outcome = "pending" /\ saved[r].x = "no" /\ ~saved[r].grok
  BY DEF BeforeX, MayDispatch
<1>3. /\ record \in AttemptRecords /\ record.outcome = "pending" /\ record.x = "sent" /\ ~record.grok
      /\ record.linked = saved[r].linked /\ record.artifact = saved[r].artifact
  BY <1>1, <1>2 DEF AttemptRecords
<1>4. Save(h, record, "xcall") /\ job[h].pc = "x"
  BY DEF BeforeX
<1>5. calls[r]["x"] = 0
  BY <1>1, <1>2 DEF RecordOK, Dispatched
<1> HIDE DEF r, record
<1>6. ValidRecord(record) /\ Dispatched(saved[r]) \subseteq Dispatched(record)
  BY <1>1, <1>2, <1>3 DEF RecordOK, ValidRecord, Dispatched
<1> QED BY <1>1, <1>3, <1>4, <1>5, <1>6, SaveEffect DEF Undecided, Answered, r

LEMMA InvBeforeGrok == ASSUME Inv, TypeInv', NEW h \in Handles, BeforeGrok(h) PROVE Inv'
<1> DEFINE r == Run(h)
           record == [saved[r] EXCEPT !.grok = TRUE]
<1>1. r \in Attempts /\ saved[r] \in AttemptRecords /\ RecordOK(r)
  BY Addresses DEF Inv, TypeInv, TypeOK
<1>2. saved[r].outcome = "pending" /\ saved[r].x \in {"no", "verified"} /\ ~saved[r].grok
  BY DEF BeforeGrok, MayDispatch
<1>3. /\ record \in AttemptRecords /\ record.outcome = "pending" /\ record.x = saved[r].x /\ record.grok
      /\ record.linked = saved[r].linked /\ record.artifact = saved[r].artifact
  BY <1>1, <1>2 DEF AttemptRecords
<1>4. Save(h, record, "gcall") /\ job[h].pc = "grok"
  BY DEF BeforeGrok
<1>5. calls[r]["grok"] = 0
  BY <1>1, <1>2 DEF RecordOK, Dispatched
<1> HIDE DEF r, record
<1>6. ValidRecord(record) /\ Dispatched(saved[r]) \subseteq Dispatched(record)
  BY <1>1, <1>2, <1>3 DEF RecordOK, ValidRecord, Dispatched
<1> QED BY <1>1, <1>3, <1>4, <1>5, <1>6, SaveEffect DEF Undecided, Answered, r

LEMMA InvVerifyX == ASSUME Inv, TypeInv', NEW h \in Handles, VerifyX(h) PROVE Inv'
<1> DEFINE r == Run(h)
           record == [saved[r] EXCEPT !.x = "verified"]
<1>1. r \in Attempts /\ saved[r] \in AttemptRecords /\ RecordOK(r)
  BY Addresses DEF Inv, TypeInv, TypeOK
<1>2. saved[r].outcome = "pending" /\ saved[r].x = "sent"
  BY DEF VerifyX
<1>3. /\ record \in AttemptRecords /\ record.outcome = "pending" /\ record.x = "verified"
      /\ record.grok = saved[r].grok
      /\ record.linked = saved[r].linked /\ record.artifact = saved[r].artifact
  BY <1>1, <1>2 DEF AttemptRecords
<1>4. Save(h, record, "grok") /\ job[h].pc = "xverify"
  BY DEF VerifyX
<1> HIDE DEF r, record
<1>6. ValidRecord(record) /\ Dispatched(saved[r]) \subseteq Dispatched(record)
  BY <1>1, <1>2, <1>3 DEF RecordOK, ValidRecord, Dispatched
<1> QED BY <1>1, <1>3, <1>4, <1>6, SaveEffect DEF Undecided, Answered, r

LEMMA InvStampGrok == ASSUME Inv, TypeInv', NEW h \in Handles, StampGrok(h) PROVE Inv'
<1> DEFINE r == Run(h)
<1>1. r \in Attempts /\ saved[r] \in AttemptRecords /\ RecordOK(r)
  BY Addresses DEF Inv, TypeInv, TypeOK
<1>2. saved[r].outcome = "pending" /\ calls[r]["grok"] = 1 /\ job[h].pc = "gstamp"
  BY DEF StampGrok, Inv, JobOK, Undecided, Answered
<1>3. \E next \in {"outcome", "fail"} : Save(h, saved[r], next)
  BY DEF StampGrok
<1> HIDE DEF r
<1> QED BY <1>1, <1>2, <1>3, SaveEffect DEF RecordOK, Undecided, r
LEMMA InvRefuseDispatch == ASSUME Inv, TypeInv', NEW h \in Handles, RefuseDispatch(h) PROVE Inv'
<1>0. PICK r \in Attempts : r = Run(h)
  BY Addresses DEF Inv, TypeInv
<1>1. /\ job \in [Handles -> Jobs]
      /\ RecordOK(r) /\ CanonicalOK(h) /\ JobOK(h) /\ job[h].pc # "idle"
  BY <1>0 DEF Inv, TypeInv, TypeOK, RefuseDispatch
<1>2. job' = [job EXCEPT ![h].pc = "fail"]
      /\ UNCHANGED <<phase, budget, daily, receipt, canonical, audit, link, head, adm, completion,
                     saved, calls>>
  BY DEF RefuseDispatch, ledger, recovery, world
<1>3. Run(h)' = r /\ job'[h].pc = "fail" /\ \A k \in Handles : k # h => job'[k] = job[k]
  BY <1>0, <1>1, <1>2 DEF Run, Jobs
<1>4. RecordOK(r)' /\ saved'[r].outcome # "none"
  BY <1>0, <1>1, <1>2 DEF RecordOK, Receipted, JobOK
<1>5. CanonicalOK(h)'
  BY <1>0, <1>1, <1>2 DEF CanonicalOK, Current
<1>6. JobOK(h)'
  BY <1>0, <1>1, <1>2, <1>3 DEF JobOK, NoOpenStaging, Current, Undecided, Answered
<1> QED BY <1>0, <1>1, <1>2, <1>3, <1>4, <1>5, <1>6, JobEffect

\* A provider call, made by a job whose record admits to it.
LEMMA CallEffect ==
    ASSUME Inv, TypeInv', NEW h \in Handles, NEW leg \in Legs, NEW bill, NEW reply \in Receipts,
           job[h].pc = (IF leg = "x" THEN "xcall" ELSE "gcall"),
           Call(h, leg, bill, reply, IF leg = "x" THEN "xreceipt" ELSE "greceipt")
    PROVE  Inv'
<1>0. PICK r \in Attempts : r = Run(h)
  BY Addresses DEF Inv, TypeInv
<1> DEFINE next == IF leg = "x" THEN "xreceipt" ELSE "greceipt"
<1>1. /\ job \in [Handles -> Jobs] /\ calls \in [Attempts -> [Legs -> Nat]]
      /\ RecordOK(r) /\ CanonicalOK(h) /\ JobOK(h) /\ job[h].pc # "idle"
  BY <1>0 DEF Inv, TypeInv, TypeOK
<1>2. /\ calls' = [calls EXCEPT ![r][leg] = @ + 1]
      /\ job' = [job EXCEPT ![h].pc = next, ![h].reply = reply]
      /\ UNCHANGED <<phase, budget, daily, receipt, canonical, audit, link, head, adm, completion, saved>>
  BY <1>0 DEF Call, ledger, recovery
<1>3. /\ Run(h)' = r /\ job'[h].pc = next /\ \A k \in Handles : k # h => job'[k] = job[k]
  BY <1>0, <1>1, <1>2 DEF Run, Jobs
<1>4. /\ calls[r][leg] = 0 /\ leg \in Dispatched(saved[r]) /\ saved[r].outcome = "pending"
      /\ canonical[h] = NoAttempt
  BY <1>0, <1>1 DEF JobOK, Undecided, Dispatched
<1>5. /\ calls'[r] = [calls[r] EXCEPT ![leg] = 1]
      /\ \A a \in Attempts : a # r => calls'[a] = calls[a]
  BY <1>0, <1>1, <1>2, <1>4
<1>6. RecordOK(r)' /\ saved'[r].outcome # "none"
  BY <1>0, <1>1, <1>2, <1>4, <1>5 DEF RecordOK, Receipted
<1>7. CanonicalOK(h)'
  BY <1>0, <1>1, <1>2 DEF CanonicalOK, Current
<1>8. JobOK(h)'
  <2>1. next \in {"xreceipt", "greceipt"} /\ (next = "greceipt" => calls'[r]["grok"] = 1)
    BY <1>0, <1>1, <1>5
  <2> HIDE DEF next
  <2> QED BY <1>0, <1>1, <1>2, <1>3, <1>4, <2>1
          DEF JobOK, NoOpenStaging, Current, Undecided, Answered
<1> QED BY <1>0, <1>1, <1>2, <1>3, <1>5, <1>6, <1>7, <1>8, JobEffect

LEMMA InvCallX == ASSUME Inv, TypeInv', NEW h \in Handles, CallX(h) PROVE Inv'
BY CallEffect DEF CallX, Receipts

LEMMA InvCallGrok == ASSUME Inv, TypeInv', NEW h \in Handles, CallGrok(h) PROVE Inv'
BY CallEffect DEF CallGrok, Receipts

\* A receipt is written for a leg whose dispatch is on record.
LEMMA ReceiptEffect ==
    ASSUME Inv, TypeInv', NEW h \in Handles, NEW leg \in Legs, NEW next,
           \/ job[h].pc = "xreceipt" /\ next \in {"xverify", "fail"}
           \/ job[h].pc = "greceipt" /\ next \in {"gstamp", "fail"},
           RecordReceipt(h, leg, next)
    PROVE  Inv'
<1>0. PICK r \in Attempts : r = Run(h)
  BY Addresses DEF Inv, TypeInv
<1>1. /\ job \in [Handles -> Jobs]
      /\ receipt \in [Attempts -> [Legs -> Receipts \cup {NoReceipt}]]
      /\ RecordOK(r) /\ CanonicalOK(h) /\ JobOK(h) /\ job[h].pc # "idle"
  BY <1>0 DEF Inv, TypeInv, TypeOK
<1>2. PICK w \in PutResults :
         /\ receipt' = Put(w, receipt, [receipt EXCEPT ![r][leg] = job[h].reply])
         /\ job' = [job EXCEPT ![h].pc = IF w = "ok" THEN next ELSE "fail-storage"]
  BY <1>0 DEF RecordReceipt
<1>3. /\ leg \in Dispatched(saved[r])
      /\ UNCHANGED <<phase, budget, daily, saved, canonical, audit, link, head, adm, completion, calls>>
  BY <1>0 DEF RecordReceipt, recovery, world
<1>4. \E then \in {next, "fail-storage"} :
         Run(h)' = r /\ job'[h].pc = then /\ \A k \in Handles : k # h => job'[k] = job[k]
  <2> DEFINE then == IF w = "ok" THEN next ELSE "fail-storage"
  <2>1. job' = [job EXCEPT ![h].pc = then] /\ then \in {next, "fail-storage"}
    BY <1>0, <1>2
  <2> HIDE DEF then
  <2>2. Run(h)' = r /\ job'[h].pc = then /\ \A k \in Handles : k # h => job'[k] = job[k]
    BY <1>0, <1>1, <2>1 DEF Run, Jobs
  <2> QED BY <2>1, <2>2
<1>5. /\ \A a \in Attempts : a # r => receipt'[a] = receipt[a]
      /\ \A l \in Legs : l # leg => receipt'[r][l] = receipt[r][l]
  BY <1>0, <1>1, <1>2 DEF Put
<1>6. RecordOK(r)' /\ saved'[r].outcome # "none"
  BY <1>0, <1>1, <1>3, <1>5 DEF RecordOK, Receipted, JobOK
<1>7. CanonicalOK(h)'
  BY <1>0, <1>1, <1>3 DEF CanonicalOK, Current
<1>8. JobOK(h)'
  BY <1>0, <1>1, <1>3, <1>4 DEF JobOK, NoOpenStaging, Current, Undecided, Answered
<1> QED BY <1>0, <1>1, <1>3, <1>4, <1>5, <1>6, <1>7, <1>8, JobEffect

LEMMA InvReceipt ==
    ASSUME Inv, TypeInv', NEW h \in Handles, ReceiptX(h) \/ ReceiptGrok(h)
    PROVE  Inv'
BY ReceiptEffect DEF ReceiptX, ReceiptGrok
\* What AssessmentOperations.fail does to a record: a pending one is settled by
\* what was dispatched and answered, a terminal one keeps its outcome.
LEMMA FailureRecord ==
    ASSUME NEW a \in Attempts, saved[a] \in AttemptRecords, RecordOK(a), NEW category \in Categories,
           saved[a].outcome # "none"
    PROVE  LET s == Failure(a, category) IN
           /\ s \in AttemptRecords /\ ValidRecord(s) /\ Dispatched(s) = Dispatched(saved[a])
           /\ s.x = saved[a].x /\ s.grok = saved[a].grok
           /\ s.linked = saved[a].linked /\ s.artifact = saved[a].artifact
           /\ s.outcome \notin {"none", "pending"}
           /\ saved[a].outcome # "pending" => s.outcome = saved[a].outcome
           /\ saved[a].category # "none" => s.category = saved[a].category
<1> DEFINE s == Failure(a, category)
<1>1. /\ FailureOutcome(a) \in Outcomes \ {"none", "pending", "accepted", "abstained", "invalid"}
      /\ FailureOutcome(a) = "failed-before-dispatch" => Dispatched(saved[a]) = {}
  BY DEF FailureOutcome, Outcomes
<1>2. PICK c \in Categories, o \in Outcomes \ {"none", "pending"} :
         /\ s = [saved[a] EXCEPT !.category = c, !.outcome = o]
         /\ saved[a].outcome # "pending" => o = saved[a].outcome
         /\ saved[a].outcome = "pending" => o = FailureOutcome(a)
         /\ saved[a].category # "none" => c = saved[a].category
  BY <1>1 DEF Failure, AttemptRecords
<1>3. /\ s \in AttemptRecords /\ s.outcome = o /\ s.category = c
      /\ s.x = saved[a].x /\ s.grok = saved[a].grok
      /\ s.linked = saved[a].linked /\ s.artifact = saved[a].artifact
  BY <1>2 DEF AttemptRecords
<1>4. Dispatched(s) = Dispatched(saved[a])
  BY <1>3 DEF Dispatched
<1>5. ValidRecord(s)
  BY <1>1, <1>2, <1>3, <1>4 DEF RecordOK, ValidRecord
<1> QED BY <1>2, <1>3, <1>4, <1>5

LEMMA InvRecordOutcome == ASSUME Inv, TypeInv', NEW h \in Handles, RecordOutcome(h) PROVE Inv'
<1>0. PICK r \in Attempts : r = Run(h)
  BY Addresses DEF Inv, TypeInv
<1> DEFINE kind == job[h].reply.kind
           record == WithOutcome(r, kind)
<1>1. /\ job \in [Handles -> Jobs] /\ saved \in [Attempts -> AttemptRecords]
      /\ RecordOK(r) /\ CanonicalOK(h) /\ JobOK(h) /\ job[h].pc = "outcome"
      /\ saved[r].outcome = "pending" /\ saved[r].grok /\ canonical[h] = NoAttempt
      /\ kind \in {"accepted", "abstained", "invalid"}
  BY <1>0 DEF Inv, TypeInv, TypeOK, RecordOutcome, JobOK, Undecided, Classified
<1>2. PICK w \in PutResults, next \in {"persist", "fail-storage", "fail"} :
         /\ saved' = Put(w, saved, [saved EXCEPT ![r] = record])
         /\ job' = [job EXCEPT ![h].pc = next]
         /\ next = "persist" => kind = "accepted" /\ w = "ok"
         /\ UNCHANGED <<phase, budget, daily, receipt, canonical, audit, link, head, adm, completion,
                        calls>>
  BY <1>0 DEF RecordOutcome, recovery, world
<1>3. Run(h)' = r /\ job'[h].pc = next /\ \A k \in Handles : k # h => job'[k] = job[k]
  BY <1>0, <1>1, <1>2 DEF Run, Jobs
<1>4. /\ record.outcome = kind /\ record.x = saved[r].x /\ record.grok
      /\ record.linked = saved[r].linked /\ record.artifact = saved[r].artifact
  BY <1>1 DEF WithOutcome, AttemptRecords
<1> HIDE DEF record, kind
<1>5. /\ \A a \in Attempts : a # r => saved'[a] = saved[a]
      /\ saved'[r] \in {saved[r], record} /\ (w = "ok" => saved'[r] = record)
  BY <1>1, <1>2 DEF Put
<1>6. ValidRecord(record) /\ Dispatched(record) = Dispatched(saved[r]) /\ ~record.linked
  BY <1>1, <1>4 DEF RecordOK, ValidRecord, Dispatched
<1>7. RecordOK(r)' /\ saved'[r].outcome # "none"
  BY <1>1, <1>2, <1>4, <1>5, <1>6 DEF RecordOK, Receipted
<1>8. CanonicalOK(h)'
  <2>1. ~saved'[r].linked
    BY <1>1, <1>5, <1>6 DEF RecordOK, ValidRecord
  <2>2. \A a \in {First(h), Recovery(h)} : a # r => ~saved'[a].linked
    BY <1>1, <1>5, Pairs DEF CanonicalOK
  <2>3. \A a \in {First(h), Recovery(h)} : ~saved'[a].linked
    BY <2>1, <2>2
  <2>4. canonical'[h] = NoAttempt
    BY <1>1, <1>2
  <2> QED BY <1>1, <1>2, <2>3, <2>4, Pairs DEF CanonicalOK, Current
<1>9. JobOK(h)'
  BY <1>0, <1>1, <1>2, <1>3, <1>4, <1>5 DEF JobOK, NoOpenStaging, Current, Undecided, Answered
<1> QED BY <1>0, <1>1, <1>2, <1>3, <1>5, <1>7, <1>8, <1>9, JobEffect

LEMMA InvPersist == ASSUME Inv, TypeInv', NEW h \in Handles, Persist(h) PROVE Inv'
<1>0. PICK r \in Attempts : r = Run(h)
  BY Addresses DEF Inv, TypeInv
<1>1. /\ job \in [Handles -> Jobs] /\ canonical \in [Handles -> Attempts \cup {NoAttempt}]
      /\ RecordOK(r) /\ CanonicalOK(h) /\ JobOK(h) /\ job[h].pc = "persist"
      /\ saved[r].outcome = "accepted" /\ canonical[h] = NoAttempt /\ r = Current(h)
  BY <1>0 DEF Inv, TypeInv, TypeOK, Persist, JobOK
<1>2. PICK w \in PutResults, next \in {"link", "fail-storage"} :
         /\ canonical' = Put(w, canonical, [canonical EXCEPT ![h] = r])
         /\ job' = [job EXCEPT ![h].pc = next]
         /\ next = "link" => w = "ok"
         /\ UNCHANGED <<phase, budget, daily, receipt, saved, audit, link, head, adm, completion, calls>>
  BY <1>0, <1>1 DEF Persist, recovery, world
<1>3. Run(h)' = r /\ job'[h].pc = next /\ \A k \in Handles : k # h => job'[k] = job[k]
  BY <1>0, <1>1, <1>2 DEF Run, Jobs
<1>4. /\ \A k \in Handles : k # h => canonical'[k] = canonical[k]
      /\ canonical'[h] \in {NoAttempt, r} /\ (w = "ok" => canonical'[h] = r)
  BY <1>1, <1>2 DEF Put
<1>5. RecordOK(r)' /\ saved'[r].outcome # "none"
  BY <1>1, <1>2 DEF RecordOK, Receipted
<1>6. CanonicalOK(h)'
  BY <1>1, <1>2, <1>4, Pairs DEF CanonicalOK, Current
<1>7. JobOK(h)'
  BY <1>0, <1>1, <1>2, <1>3, <1>4 DEF JobOK, NoOpenStaging, Current, Undecided, Answered
<1> QED BY <1>0, <1>1, <1>2, <1>3, <1>4, <1>5, <1>6, <1>7, JobEffect
\* After the last write of a job: the record only gains what keeps it valid.
LEMMA SettleEffect ==
    ASSUME Inv, TypeInv', NEW h \in Handles, NEW r \in Attempts, r = Run(h), job[h].pc # "idle",
           NEW record \in AttemptRecords, ValidRecord(record), record.outcome \notin {"none", "pending"},
           Dispatched(record) = Dispatched(saved[r]),
           saved[r].outcome = "accepted" => record.outcome = "accepted",
           record.linked => saved[r].linked \/ canonical[h] = r,
           saved' \in {saved, [saved EXCEPT ![r] = record]},
           \/ job' = [job EXCEPT ![h] = IdleJob]
           \/ job' = [job EXCEPT ![h].pc = "fail-storage"],
           \/ completion' = completion
           \/ /\ completion' = [completion EXCEPT ![h]["own"] = "reconcile"]
              /\ canonical[h] # NoAttempt
           \/ completion' = [completion EXCEPT ![h]["own"] = "failed"],
           UNCHANGED <<phase, budget, daily, receipt, canonical, audit, link, head, adm, calls>>
    PROVE  Inv'
<1>1. /\ job \in [Handles -> Jobs] /\ saved \in [Attempts -> AttemptRecords]
      /\ completion \in [Handles -> [Requests -> CompletionSteps]]
      /\ RecordOK(r) /\ CanonicalOK(h) /\ JobOK(h) /\ r \in {First(h), Recovery(h)}
  BY Pairs, CurrentPairs DEF Inv, TypeInv, TypeOK, JobOK
<1>2. /\ \A k \in Handles : k # h => job'[k] = job[k]
      /\ job'[h].pc \in {"idle", "fail-storage"}
      /\ job'[h].pc # "idle" => Run(h)' = r
  BY <1>1 DEF Run, Jobs, IdleJob
<1>3. /\ \A k \in Handles : k # h => completion'[k] = completion[k]
      /\ \A q \in Requests : completion'[h][q] \in {"reconcile", "artifact", "prepared"} =>
            completion[h][q] = completion'[h][q] \/ canonical[h] # NoAttempt
  BY <1>1 DEF Requests
<1>4. /\ \A a \in Attempts : a # r => saved'[a] = saved[a]
      /\ saved'[r] \in {saved[r], record}
  BY <1>1
<1>5. RecordOK(r)' /\ saved'[r].outcome # "none"
  BY <1>1, <1>4 DEF RecordOK, Receipted, JobOK
<1>6. CanonicalOK(h)'
  <2>1. \A a \in {First(h), Recovery(h)} :
           /\ saved'[a].linked => saved[a].linked \/ canonical[h] = a
           /\ saved[a].outcome = "accepted" => saved'[a].outcome = "accepted"
    BY <1>1, <1>4, Pairs
  <2> QED BY <1>1, <1>3, <2>1 DEF CanonicalOK, Current
<1>7. JobOK(h)'
  BY <1>1, <1>2, <1>4 DEF JobOK, NoOpenStaging, Current, Undecided, Answered
<1> QED BY <1>2, <1>3, <1>4, <1>5, <1>6, <1>7, JobEffect

LEMMA InvJobFailed == ASSUME Inv, TypeInv', NEW h \in Handles, JobFailed(h) PROVE Inv'
<1>0. PICK r \in Attempts : r = Run(h)
  BY Addresses DEF Inv, TypeInv
<1>1. /\ saved \in [Attempts -> AttemptRecords] /\ RecordOK(r) /\ saved[r].outcome # "none"
      /\ job[h].pc # "idle"
  BY <1>0 DEF Inv, TypeInv, TypeOK, JobFailed, JobOK
<1>2. PICK category \in Categories :
         /\ saved' \in {saved, [saved EXCEPT ![r] = Failure(r, category)]}
         /\ Settle(h, "failed")
         /\ UNCHANGED <<phase, budget, daily, receipt, canonical, audit, link, head, adm, calls>>
  BY <1>0 DEF JobFailed, Put, Categories, recovery, world
<1> DEFINE record == Failure(r, category)
<1>3. /\ record \in AttemptRecords /\ ValidRecord(record)
      /\ Dispatched(record) = Dispatched(saved[r]) /\ record.linked = saved[r].linked
      /\ record.outcome \notin {"none", "pending"}
      /\ saved[r].outcome = "accepted" => record.outcome = "accepted"
  BY <1>1, FailureRecord
<1> HIDE DEF record
<1>4. saved' \in {saved, [saved EXCEPT ![r] = record]}
  BY <1>2 DEF record
<1> QED BY <1>0, <1>1, <1>2, <1>3, <1>4, SettleEffect DEF Settle

LEMMA InvLink == ASSUME Inv, TypeInv', NEW h \in Handles, Link(h) PROVE Inv'
<1>0. PICK r \in Attempts : r = Run(h)
  BY Addresses DEF Inv, TypeInv
<1> DEFINE record == [saved[r] EXCEPT !.linked = TRUE]
<1>1. /\ saved \in [Attempts -> AttemptRecords] /\ saved[r] \in AttemptRecords
      /\ RecordOK(r) /\ saved[r].outcome = "accepted"
      /\ job[h].pc # "idle" /\ canonical[h] = r
  BY <1>0 DEF Inv, TypeInv, TypeOK, Link, JobOK
<1>2. /\ record \in AttemptRecords /\ record.linked /\ record.outcome = "accepted"
      /\ record.x = saved[r].x /\ record.grok = saved[r].grok
      /\ record.artifact = saved[r].artifact
  BY <1>1 DEF AttemptRecords
<1>3. ValidRecord(record) /\ Dispatched(record) = Dispatched(saved[r])
  BY <1>1, <1>2 DEF RecordOK, ValidRecord, Dispatched
<1>4. /\ saved' \in {saved, [saved EXCEPT ![r] = record]}
      /\ \/ Settle(h, "reconcile")
         \/ job' = [job EXCEPT ![h].pc = "fail-storage"] /\ completion' = completion
      /\ UNCHANGED <<phase, budget, daily, receipt, canonical, audit, link, head, adm, calls>>
  BY <1>0 DEF Link, Put, recovery, world
<1> HIDE DEF record
<1>5. canonical[h] # NoAttempt
  BY <1>1, Pairs
<1> QED BY <1>0, <1>1, <1>2, <1>3, <1>4, <1>5, SettleEffect DEF Settle

LEMMA InvJob == ASSUME Inv, TypeInv', NEW h \in Handles, Job(h) PROVE Inv'
BY InvBeforeX, InvCallX, InvReceipt, InvVerifyX, InvBeforeGrok, InvCallGrok, InvStampGrok,
   InvRefuseDispatch, InvRecordOutcome, InvPersist, InvLink, InvJobFailed DEF Job
-----------------------------------------------------------------------------
\* Outside its job, a handle's current record changes only once its result is
\* published, or before the server serves.
LEMMA CurrentEffect ==
    ASSUME Inv, TypeInv', NEW h \in Handles, NEW r \in Attempts, r = Current(h),
           NEW record \in AttemptRecords, ValidRecord(record),
           saved[r].outcome \in {"pending", "accepted"}, record.outcome # "none",
           record.x = saved[r].x, record.grok = saved[r].grok,
           record.linked => saved[r].linked \/ canonical[h] = r,
           saved[r].outcome = "accepted" => record.outcome = "accepted",
           \/ canonical[h] # NoAttempt /\ record.outcome = saved[r].outcome /\ phase' = phase
           \/ phase = "starting",
           saved' \in {saved, [saved EXCEPT ![r] = record]},
           \A k \in Handles, q \in Requests :
              completion'[k][q] \in {"reconcile", "artifact", "prepared"} =>
                 completion[k][q] \in {"reconcile", "artifact", "prepared"},
           UNCHANGED <<budget, daily, receipt, canonical, audit, link, head, adm, job, calls>>
    PROVE  Inv'
<1>1. /\ saved \in [Attempts -> AttemptRecords] /\ RecordOK(r)
      /\ r \in {First(h), Recovery(h)}
  BY Pairs, CurrentPairs DEF Inv, TypeInv, TypeOK
<1>2. /\ \A a \in Attempts : a # r => saved'[a] = saved[a]
      /\ saved'[r] \in {saved[r], record}
  BY <1>1
<1>3. Dispatched(record) = Dispatched(saved[r])
  BY DEF Dispatched
<1>4. ASSUME NEW a \in Attempts PROVE RecordOK(a)'
  BY <1>1, <1>2, <1>3 DEF Inv, RecordOK, Receipted
<1>5. ASSUME NEW k \in Handles PROVE StageOK(k)'
  <2>1. Evidence(k) => First(k) # r
    BY DEF Evidence
  <2>2. Evidence(k) => Evidence(k)'
    BY <1>2, <2>1, Pairs DEF Evidence, Receipted
  <2>3. saved[Recovery(k)].outcome # "none" => saved'[Recovery(k)].outcome # "none"
    BY <1>2, Pairs
  <2> QED BY <2>2, <2>3 DEF Inv, StageOK
<1>6. ASSUME NEW k \in Handles PROVE CanonicalOK(k)'
  <2>1. \A a \in {First(k), Recovery(k)} :
           /\ saved'[a].linked => saved[a].linked \/ canonical[k] = a
           /\ saved[a].outcome = "accepted" => saved'[a].outcome = "accepted"
    BY <1>1, <1>2, Pairs
  <2> QED BY <2>1 DEF Inv, CanonicalOK, Current
<1>7. ASSUME NEW k \in Handles PROVE JobOK(k)'
  <2>1. CASE phase = "starting"
    BY <2>1 DEF Inv, JobOK
  <2>2. CASE phase # "starting"
    <3>1. Run(k)' = Run(k) /\ Run(k) \in Attempts
      BY Addresses DEF Run, Inv, TypeInv
    <3>2. saved'[Run(k)].outcome = saved[Run(k)].outcome
          /\ saved'[Run(k)].x = saved[Run(k)].x /\ saved'[Run(k)].grok = saved[Run(k)].grok
      BY <1>2, <2>2, <3>1
    <3> QED BY <2>2, <3>1, <3>2 DEF Inv, JobOK, NoOpenStaging, Current
  <2> QED BY <2>1, <2>2
<1>8. AdmissionInv'
  <2>1. CASE adm.pc = "idle" \/ phase = "starting"
    BY <2>1 DEF Inv, AdmissionInv
  <2>2. CASE adm.pc # "idle" /\ phase # "starting"
    <3>1. adm.handle \in Handles /\ adm.handle # h
      BY <2>2 DEF Inv, TypeInv, AdmissionInv
    <3>2. First(adm.handle) # r /\ Current(adm.handle) # r
      BY <1>1, <3>1, Pairs, CurrentPairs
    <3>3. saved'[Current(adm.handle)] = saved[Current(adm.handle)]
          /\ saved'[First(adm.handle)] = saved[First(adm.handle)]
      BY <1>2, <3>1, <3>2, Pairs, CurrentPairs
    <3> QED BY <2>2, <3>1, <3>3 DEF Inv, AdmissionInv, NoOpenStaging, Current
  <2> QED BY <2>1, <2>2
<1> QED BY <1>4, <1>5, <1>6, <1>7, <1>8 DEF Inv

\* A step of #complete that leaves the record alone.
LEMMA GoEffect ==
    ASSUME Inv, TypeInv', NEW h \in Handles, NEW q \in Requests, NEW next \in CompletionSteps,
           completion' = [completion EXCEPT ![h][q] = next],
           next \in {"reconcile", "artifact", "prepared"} => canonical[h] # NoAttempt,
           UNCHANGED <<phase, budget, daily, saved, receipt, canonical, audit, link, head, adm, job, calls>>
    PROVE  Inv'
<1>1. completion \in [Handles -> [Requests -> CompletionSteps]]
  BY DEF Inv, TypeInv, TypeOK
<1>2. ASSUME NEW k \in Handles PROVE CanonicalOK(k)'
  BY <1>1 DEF Inv, CanonicalOK, Current
<1>3. \A a \in Attempts : RecordOK(a)'
  BY DEF Inv, RecordOK, Receipted
<1>4. \A k \in Handles : StageOK(k)'
  BY DEF Inv, StageOK, Evidence, Receipted
<1>5. \A k \in Handles : JobOK(k)'
  BY DEF Inv, JobOK, NoOpenStaging, Current, Run
<1>6. AdmissionInv'
  BY DEF Inv, AdmissionInv, NoOpenStaging, Current
<1> QED BY <1>2, <1>3, <1>4, <1>5, <1>6 DEF Inv
LEMMA InvComplete ==
    ASSUME Inv, TypeInv', NEW h \in Handles, NEW q \in Requests, Complete(h, q)
    PROVE  Inv'
<1>0. PICK r \in Attempts : r = Current(h)
  BY Addresses DEF Inv, TypeInv
<1>1. /\ saved[r] \in AttemptRecords /\ RecordOK(r) /\ CanonicalOK(h)
      /\ completion \in [Handles -> [Requests -> CompletionSteps]]
      /\ r \in {First(h), Recovery(h)}
  BY <1>0, CurrentPairs DEF Inv, TypeInv, TypeOK
<1>2. ASSUME NEW record \in AttemptRecords,
             \/ record = [saved[r] EXCEPT !.linked = TRUE] /\ saved[r].outcome = "accepted"
             \/ \E f \in {"prepared", "failed"} :
                   record = [saved[r] EXCEPT !.artifact = f] /\ saved[r].linked,
             canonical[h] # NoAttempt,
             saved' \in {saved, [saved EXCEPT ![r] = record]},
             NEW next \in CompletionSteps, Go(h, q, next),
             next \in {"reconcile", "artifact", "prepared"} =>
                completion[h][q] \in {"reconcile", "artifact", "prepared"},
             CompletionFrame
      PROVE  Inv'
  <2>1. saved[r].outcome = "accepted"
    BY <1>1, <1>2 DEF RecordOK, ValidRecord
  <2>2. canonical[h] = r
    BY <1>0, <1>1, <1>2 DEF CanonicalOK
  <2>3. /\ record.outcome = saved[r].outcome /\ record.x = saved[r].x /\ record.grok = saved[r].grok
        /\ record.linked
    BY <1>1, <1>2 DEF AttemptRecords
  <2>4. ValidRecord(record)
    BY <1>1, <2>1, <2>3 DEF RecordOK, ValidRecord, Dispatched
  <2>5. \A k \in Handles, p \in Requests :
           completion'[k][p] \in {"reconcile", "artifact", "prepared"} =>
              completion[k][p] \in {"reconcile", "artifact", "prepared"}
    BY <1>1, <1>2 DEF Go
  <2> QED BY <1>0, <1>2, <2>1, <2>2, <2>3, <2>4, <2>5, CurrentEffect
          DEF CompletionFrame, recovery, world
<1>3. ASSUME NEW next \in CompletionSteps, Go(h, q, next),
             next \in {"reconcile", "artifact", "prepared"} => canonical[h] # NoAttempt,
             CompletionFrame, saved' = saved
      PROVE  Inv'
  BY <1>3, GoEffect DEF Go, CompletionFrame, recovery, world
<1>4. completion[h][q] \in {"reconcile", "artifact", "prepared"} => canonical[h] # NoAttempt
  BY <1>1 DEF CanonicalOK
<1>5. CASE Reconcile(h, q)
  <2>1. CASE saved[r].outcome = "accepted" /\ ~saved[r].linked
    <3> DEFINE record == [saved[r] EXCEPT !.linked = TRUE]
    <3>1. record \in AttemptRecords
      BY <1>1 DEF AttemptRecords
    <3>2. /\ saved' \in {saved, [saved EXCEPT ![r] = record]} /\ CompletionFrame
          /\ Go(h, q, "artifact") \/ Go(h, q, "failed")
      BY <1>0, <1>5, <2>1 DEF Reconcile, Put
    <3> QED BY <1>2, <1>4, <1>5, <2>1, <3>1, <3>2 DEF Reconcile, CompletionSteps
  <2>2. CASE ~(saved[r].outcome = "accepted" /\ ~saved[r].linked)
    BY <1>0, <1>3, <1>4, <1>5, <2>2 DEF Reconcile, CompletionSteps
  <2> QED BY <2>1, <2>2
<1>6. CASE PrepareArtifact(h, q)
  BY <1>3, <1>4, <1>6 DEF PrepareArtifact, CompletionSteps
<1>7. ASSUME NEW f \in {"prepared", "failed"}, NEW next \in {"idle", "failed"}, Go(h, q, next),
             saved' \in {saved, [saved EXCEPT ![r].artifact = f]}, saved[r].linked, CompletionFrame
      PROVE  Inv'
  <2> DEFINE record == [saved[r] EXCEPT !.artifact = f]
  <2>1. record \in AttemptRecords
    BY <1>1, <1>7 DEF AttemptRecords
  <2>2. canonical[h] # NoAttempt
    BY <1>1, <1>7, Pairs DEF CanonicalOK
  <2> QED BY <1>2, <1>7, <2>1, <2>2 DEF CompletionSteps
<1>8. CASE ArtifactPrepared(h, q)
  <2>1. CASE saved' = saved
    BY <1>0, <1>3, <1>8, <2>1 DEF ArtifactPrepared, CompletionSteps
  <2>2. CASE saved' # saved
    BY <1>0, <1>7, <1>8, <2>2 DEF ArtifactPrepared, Put
  <2> QED BY <2>1, <2>2
<1>9. CASE ArtifactFailed(h, q)
  <2>1. CASE saved' = saved
    BY <1>0, <1>3, <1>9, <2>1 DEF ArtifactFailed, CompletionSteps
  <2>2. CASE saved' # saved
    BY <1>0, <1>7, <1>9, <2>2 DEF ArtifactFailed, Put
  <2> QED BY <2>1, <2>2
<1> QED BY <1>5, <1>6, <1>8, <1>9 DEF Complete

LEMMA InvReuse == ASSUME Inv, TypeInv', NEW h \in Handles, RequestReuse(h) PROVE Inv'
BY GoEffect DEF RequestReuse, Requests, CompletionSteps, ledger, recovery, world
-----------------------------------------------------------------------------
\* A step of an admission that only moves it.
LEMMA AdmissionMoves ==
    ASSUME Inv, TypeInv', AdmissionInv',
           UNCHANGED <<phase, budget, daily, saved, receipt, canonical, audit, link, head, job,
                       completion, calls>>
    PROVE  Inv'
<1>1. \A a \in Attempts : RecordOK(a)'
  BY DEF Inv, RecordOK, Receipted
<1>2. \A k \in Handles : StageOK(k)' /\ CanonicalOK(k)'
  BY DEF Inv, StageOK, Evidence, Receipted, CanonicalOK, Current
<1>3. \A k \in Handles : JobOK(k)'
  BY DEF Inv, JobOK, NoOpenStaging, Current, Run
<1> QED BY <1>1, <1>2, <1>3 DEF Inv

LEMMA InvRequest ==
    ASSUME Inv, TypeInv', NEW h \in Handles, RequestAdmission(h) \/ RequestRecovery(h)
    PROVE  Inv'
<1>1. CASE RequestAdmission(h)
  <2>1. h \notin head
    BY <1>1, CurrentPairs DEF RequestAdmission, Inv, StageOK
  <2>2. First(h) \notin budget /\ saved[First(h)].outcome = "none" /\ <<h, "first">> = Current(h)
    BY <1>1, <2>1, CurrentPairs DEF RequestAdmission, First
  <2>3. adm'.pc = "account" /\ adm'.handle = h /\ adm'.run = "first"
    BY <1>1 DEF RequestAdmission
  <2>4. AdmissionInv'
    BY <1>1, <2>2, <2>3 DEF RequestAdmission, AdmissionInv, NoOpenStaging, Current, ledger, recovery
  <2> QED BY <1>1, <2>4, AdmissionMoves DEF RequestAdmission, ledger, recovery, world
<1>2. CASE RequestRecovery(h)
  <2>1. h \in head /\ saved[Recovery(h)] = Fresh /\ NoOpenStaging
    BY <1>2 DEF RequestRecovery, Staged, NoOpenStaging, Inv, StageOK
  <2>2. saved[Current(h)].outcome = "pending" /\ <<h, "recovery">> = Current(h)
    BY <2>1, CurrentPairs DEF Fresh, Blank, Recovery
  <2>3. adm'.pc = "request" /\ adm'.handle = h /\ adm'.run = "recovery"
    BY <1>2 DEF RequestRecovery, IdleAdm
  <2>4. AdmissionInv'
    BY <1>2, <2>1, <2>2, <2>3
       DEF RequestRecovery, AdmissionInv, NoOpenStaging, Current, ledger, recovery
  <2> QED BY <1>2, <2>4, AdmissionMoves DEF RequestRecovery, ledger, recovery, world
<1> QED BY <1>1, <1>2

LEMMA InvAdmitMoves ==
    ASSUME Inv, TypeInv', AdmitAccount \/ AdmitRefuse \/ PutRequest \/ WalletChanged
    PROVE  Inv'
<1>1. adm \in Admissions
  BY DEF Inv, TypeInv, TypeOK
<1>2. \/ adm' = IdleAdm
      \/ adm'.pc = "budget" /\ adm.pc = "account" /\ adm'.handle = adm.handle /\ adm'.run = adm.run
      \/ adm'.pc = "start" /\ adm.pc = "request" /\ adm'.handle = adm.handle /\ adm'.run = adm.run
  BY <1>1 DEF AdmitAccount, AdmitRefuse, PutRequest, WalletChanged, AdmitTo, Admissions
<1>3. UNCHANGED <<phase, budget, daily, saved, receipt, canonical, audit, link, head, job,
                  completion, calls>>
  BY DEF AdmitAccount, AdmitRefuse, PutRequest, WalletChanged, ledger, recovery, world
<1>4. AdmissionInv'
  BY <1>2, <1>3, RecordTypes DEF Inv, AdmissionInv, NoOpenStaging, Current
<1> QED BY <1>3, <1>4, AdmissionMoves
\* The first three writes of admit: nothing but the reservation, the counter and
\* the attempt of the admitted handle, which no staging and no job refers to.
LEMMA AdmitEffect ==
    ASSUME Inv, TypeInv', AdmissionInv', adm.pc # "idle", NEW f \in Attempts, f = First(adm.handle),
           adm.pc \in {"budget", "daily", "attempt"},
           budget \subseteq budget', budget' \subseteq budget \cup {f},
           daily' = daily \/ adm.pc = "daily",
           saved' \in {saved, [saved EXCEPT ![f] = Fresh]}, saved' = saved \/ f \in budget,
           UNCHANGED <<phase, receipt, canonical, audit, link, head, job, completion, calls>>
    PROVE  Inv'
<1> DEFINE g == adm.handle
<1>1. /\ saved \in [Attempts -> AttemptRecords] /\ g \in Handles /\ RecordOK(f)
      /\ NoOpenStaging /\ saved[f] = Blank /\ job[g].pc = "idle" /\ canonical[g] = NoAttempt
      /\ phase = "serving"
  BY DEF Inv, TypeInv, TypeOK, AdmissionInv, RecordOK
<1>2. /\ \A a \in Attempts : a # f => saved'[a] = saved[a]
      /\ saved'[f] \in {Blank, Fresh} /\ (saved'[f] = Fresh => saved' = saved \/ f \in budget)
  BY <1>1
<1>3. Blank # Fresh /\ ~Fresh.linked /\ ~Blank.linked /\ ValidRecord(Fresh)
      /\ Dispatched(Fresh) = {} /\ Dispatched(Blank) = {} /\ Fresh.outcome = "pending"
      /\ Blank.outcome = "none"
  BY DEF Blank, Fresh, ValidRecord, Dispatched
<1> HIDE DEF g
<1>4. ASSUME NEW a \in Attempts PROVE RecordOK(a)'
  <2>1. CASE a = f
    BY <1>1, <1>2, <1>3, <2>1 DEF RecordOK, Receipted
  <2>2. CASE a # f
    BY <1>2, <2>2 DEF Inv, RecordOK, Receipted
  <2> QED BY <2>1, <2>2
<1>5. ASSUME NEW k \in Handles PROVE StageOK(k)'
  <2>1. audit.handle = k => k \in head
    BY <1>1, HandlesAssumption DEF NoOpenStaging, NoAudit
  <2>2. Evidence(k) => First(k) # f
    BY <1>1, <1>3 DEF Evidence
  <2>3. Evidence(k) => Evidence(k)'
    BY <1>2, <2>2, Pairs DEF Evidence, Receipted
  <2>4. saved'[Recovery(k)] = saved[Recovery(k)] /\ (Recovery(k) \in budget' => Recovery(k) \in budget)
    BY <1>2, Pairs
  <2> QED BY <2>1, <2>3, <2>4 DEF Inv, StageOK
<1>6. ASSUME NEW k \in Handles PROVE CanonicalOK(k)'
  <2>1. \A a \in {First(k), Recovery(k)} :
           /\ saved'[a].linked => saved[a].linked
           /\ saved[a].outcome = "accepted" => saved'[a].outcome = "accepted"
    BY <1>1, <1>2, <1>3, Pairs
  <2> QED BY <2>1 DEF Inv, CanonicalOK, Current
<1>7. ASSUME NEW k \in Handles PROVE JobOK(k)'
  <2>1. job[k].pc # "idle" => Run(k) \in Attempts /\ Run(k) # f
    BY <1>1, <1>3, Addresses DEF Inv, TypeInv, JobOK
  <2>2. Run(k)' = Run(k)
    BY DEF Run
  <2> QED BY <1>2, <2>1, <2>2 DEF Inv, JobOK, NoOpenStaging, Current
<1> QED BY <1>4, <1>5, <1>6, <1>7 DEF Inv

LEMMA InvAdmitWrites ==
    ASSUME Inv, TypeInv', AdmitBudget \/ AdmitDaily \/ AdmitAttempt
    PROVE  Inv'
<1>1. /\ adm \in Admissions /\ adm.handle \in Handles /\ adm.run = "first"
      /\ saved[First(adm.handle)].outcome = "none" /\ adm.pc \in {"budget", "daily", "attempt"}
      /\ saved \in [Attempts -> AttemptRecords]
  BY DEF Inv, TypeInv, TypeOK, AdmissionInv, AdmitBudget, AdmitDaily, AdmitAttempt
<1>2. PICK f \in Attempts : f = First(adm.handle)
  BY <1>1, Pairs
<1>3. f = Current(adm.handle)
  BY <1>1, <1>2 DEF Inv, AdmissionInv, First
<1>4. Fresh.outcome = "pending"
  BY DEF Fresh, Blank
<1>5. CASE AdmitBudget
  <2>1. PICK w \in PutResults :
           /\ budget' = Put(w, budget, budget \cup {f}) /\ AdmitTo(w, "daily") /\ Faulty(w)
           /\ UNCHANGED <<phase, daily, saved, receipt, canonical, audit, link, head, job, completion, calls>>
    BY <1>2, <1>5 DEF AdmitBudget, recovery, world
  <2>2. \/ adm' = IdleAdm
        \/ w = "ok" /\ adm'.pc = "daily" /\ adm'.handle = adm.handle /\ adm'.run = "first"
    BY <1>1, <2>1 DEF AdmitTo, Admissions
  <2>3. AdmissionInv'
    BY <1>1, <1>2, <2>1, <2>2, RecordTypes DEF Inv, AdmissionInv, NoOpenStaging, Current, Put
  <2> QED BY <1>1, <1>2, <1>5, <2>1, <2>3, AdmitEffect DEF AdmitBudget, Put
<1>6. CASE AdmitDaily
  <2>1. PICK w \in PutResults :
           /\ AdmitTo(w, "attempt") /\ Faulty(w)
           /\ UNCHANGED <<phase, budget, saved, receipt, canonical, audit, link, head, job, completion, calls>>
    BY <1>6 DEF AdmitDaily, recovery, world
  <2>2. \/ adm' = IdleAdm
        \/ adm'.pc = "attempt" /\ adm'.handle = adm.handle /\ adm'.run = "first"
    BY <1>1, <2>1 DEF AdmitTo, Admissions
  <2>3. AdmissionInv'
    BY <1>1, <1>2, <1>6, <2>1, <2>2, RecordTypes
       DEF Inv, AdmissionInv, NoOpenStaging, Current, AdmitDaily
  <2> QED BY <1>1, <1>2, <1>6, <2>1, <2>3, AdmitEffect DEF AdmitDaily
<1>7. CASE AdmitAttempt
  <2>1. PICK w \in PutResults :
           /\ saved' = Put(w, saved, [saved EXCEPT ![f] = Fresh]) /\ AdmitTo(w, "request") /\ Faulty(w)
           /\ UNCHANGED <<phase, budget, daily, receipt, canonical, audit, link, head, job, completion, calls>>
    BY <1>2, <1>7 DEF AdmitAttempt, recovery, world
  <2>2. \/ adm' = IdleAdm
        \/ /\ adm'.pc = "request" /\ adm'.handle = adm.handle /\ adm'.run = "first"
           /\ saved'[f] = Fresh
    BY <1>1, <2>1 DEF AdmitTo, Admissions, Put
  <2>3. AdmissionInv'
    BY <1>1, <1>2, <1>3, <1>4, <1>7, <2>1, <2>2, RecordTypes
       DEF Inv, AdmissionInv, NoOpenStaging, Current
  <2>4. f \in budget /\ adm.pc = "attempt"
    BY <1>2, <1>7 DEF Inv, AdmissionInv, AdmitAttempt
  <2>5. saved' \in {saved, [saved EXCEPT ![f] = Fresh]}
    BY <2>1 DEF Put
  <2> QED BY <1>1, <1>2, <2>1, <2>3, <2>4, <2>5, AdmitEffect
<1> QED BY <1>5, <1>6, <1>7

LEMMA InvStart == ASSUME Inv, TypeInv', StartAssessment PROVE Inv'
<1>1. /\ adm \in Admissions /\ adm.handle \in Handles /\ job \in [Handles -> Jobs]
      /\ phase = "serving" /\ NoOpenStaging /\ <<adm.handle, adm.run>> = Current(adm.handle)
      /\ canonical[adm.handle] = NoAttempt /\ saved[Current(adm.handle)].outcome = "pending"
  BY DEF Inv, TypeInv, TypeOK, AdmissionInv, StartAssessment
<1>2. PICK g \in Handles : g = adm.handle
  BY <1>1
<1>3. /\ \A k \in Handles : k # g => job'[k] = job[k]
      /\ job'[g].pc \in {"x", "grok"} /\ Run(g)' = Current(g)
      /\ adm' = IdleAdm
      /\ UNCHANGED <<phase, budget, daily, saved, receipt, canonical, audit, link, head, completion, calls>>
  BY <1>1, <1>2 DEF StartAssessment, IdleJob, Run, ledger, recovery, world
<1>4. \A a \in Attempts : RecordOK(a)'
  BY <1>3 DEF Inv, RecordOK, Receipted
<1>5. \A k \in Handles : StageOK(k)' /\ CanonicalOK(k)'
  BY <1>3 DEF Inv, StageOK, Evidence, Receipted, CanonicalOK, Current
<1>6. ASSUME NEW k \in Handles PROVE JobOK(k)'
  <2>1. CASE k = g
    BY <1>1, <1>2, <1>3, <2>1 DEF JobOK, NoOpenStaging, Current, Undecided, Answered
  <2>2. CASE k # g
    BY <1>3, <2>2 DEF Inv, JobOK, NoOpenStaging, Current, Run
  <2> QED BY <2>1, <2>2
<1>7. AdmissionInv'
  BY <1>3, RecordTypes DEF AdmissionInv
<1> QED BY <1>3, <1>4, <1>5, <1>6, <1>7 DEF Inv

LEMMA InvAdmission == ASSUME Inv, TypeInv', Admission PROVE Inv'
BY InvRequest, InvAdmitMoves, InvAdmitWrites, InvStart DEF Admission
-----------------------------------------------------------------------------
\* Nothing of an admission or a job outlives its process, and outside a serving
\* process there is none.
LEMMA IdleEffect ==
    ASSUME Inv, TypeInv', adm'.pc = "idle", \A h \in Handles : job'[h].pc = "idle",
           \A k \in Handles, q \in Requests : completion'[k][q] \in {"idle", completion[k][q]},
           UNCHANGED <<budget, daily, saved, receipt, canonical, audit, link, head, calls>>
    PROVE  Inv'
<1>1. \A a \in Attempts : RecordOK(a)'
  BY DEF Inv, RecordOK, Receipted
<1>2. \A k \in Handles : StageOK(k)'
  BY DEF Inv, StageOK, Evidence, Receipted
<1>3. ASSUME NEW k \in Handles PROVE CanonicalOK(k)'
  BY DEF Inv, CanonicalOK, Current
<1>4. \A k \in Handles : JobOK(k)'
  BY DEF JobOK
<1>5. AdmissionInv'
  BY DEF AdmissionInv
<1> QED BY <1>1, <1>2, <1>3, <1>4, <1>5 DEF Inv

LEMMA IdleOutside ==
    ASSUME Inv, phase # "serving"
    PROVE  adm.pc = "idle" /\ \A h \in Handles : job[h].pc = "idle"
BY DEF Inv, AdmissionInv, JobOK

LEMMA InvLifecycle == ASSUME Inv, TypeInv', Lifecycle PROVE Inv'
<1>1. CASE Crash \/ Stop
  <2>1. /\ adm' = IdleAdm /\ job' = [h \in Handles |-> IdleJob]
        /\ completion' = [h \in Handles |-> [q \in Requests |-> "idle"]]
        /\ UNCHANGED <<budget, daily, saved, receipt, canonical, audit, link, head, calls>>
    BY <1>1 DEF Crash, Stop, Exit, ledger, recovery, world
  <2> QED BY <2>1, RecordTypes, IdleEffect
<1>2. CASE Start \/ Serve \/ OperatorBegin \/ OperatorEnd
  <2>1. /\ phase # "serving"
        /\ UNCHANGED <<adm, job, completion, budget, daily, saved, receipt, canonical, audit, link,
                       head, calls>>
    BY <1>2 DEF Start, Serve, OperatorBegin, OperatorEnd, ledger, recovery, world
  <2> QED BY <2>1, IdleOutside, IdleEffect
<1>3. CASE ToggleGeneration \/ NextDay
  <2>1. UNCHANGED <<phase, adm, job, completion, budget, daily, saved, receipt, canonical, audit, link,
                    head, calls>>
    BY <1>3 DEF ToggleGeneration, NextDay, ledger, recovery, world
  <2>2. AdmissionInv'
    BY <2>1 DEF Inv, AdmissionInv, NoOpenStaging, Current
  <2> QED BY <2>1, <2>2, AdmissionMoves
<1>4. ASSUME NEW h \in Handles, RecoverHandle(h) PROVE Inv'
  <2>0. PICK r \in Attempts : r = Current(h)
    BY Addresses DEF Inv, TypeInv
  <2>1. /\ saved \in [Attempts -> AttemptRecords] /\ RecordOK(r) /\ phase = "starting"
        /\ UNCHANGED <<adm, job, completion, budget, daily, receipt, canonical, audit, link, head, calls>>
    BY <1>4 DEF Inv, TypeInv, TypeOK, RecoverHandle, recovery, world
  <2>2. CASE Interrupted(h)
    <3> DEFINE record == Failure(r, "interrupted")
    <3>1. saved[r].outcome \in {"pending", "accepted"}
      BY <2>0, <2>2 DEF Interrupted
    <3>2. /\ record \in AttemptRecords /\ ValidRecord(record) /\ record.outcome # "none"
          /\ record.x = saved[r].x /\ record.grok = saved[r].grok
          /\ record.linked = saved[r].linked
          /\ saved[r].outcome = "accepted" => record.outcome = "accepted"
      BY <2>1, <3>1, FailureRecord DEF Categories
    <3>3. saved' \in {saved, [saved EXCEPT ![r] = record]}
      BY <1>4, <2>0, <2>2 DEF RecoverHandle, Put
    <3> HIDE DEF record
    <3> QED BY <2>0, <2>1, <3>1, <3>2, <3>3, CurrentEffect
  <2>3. CASE ~Interrupted(h)
    <3>1. saved' = saved
      BY <1>4, <2>3 DEF RecoverHandle
    <3> QED BY <2>1, <3>1, IdleOutside, IdleEffect
  <2> QED BY <2>2, <2>3
<1> QED BY <1>1, <1>2, <1>3, <1>4 DEF Lifecycle
-----------------------------------------------------------------------------
\* The operator's command runs alone; it adds to the staging of one handle.
LEMMA StageEffect ==
    ASSUME Inv, TypeInv', NEW h \in Handles, NEW r \in Attempts, r = Recovery(h),
           Evidence(h), canonical[h] = NoAttempt, phase = "operator", audit' = audit \/ audit = NoAudit,
           \A k \in Handles : k # h => audit'.handle # k,
           audit'.handle = NoHandle => audit' = NoAudit,
           budget \subseteq budget', budget' \subseteq budget \cup {r},
           link \subseteq link', link' \subseteq link \cup {h},
           head \subseteq head', head' \subseteq head \cup {h},
           saved' \in {saved, [saved EXCEPT ![r] = Fresh]},
           saved' # saved => saved[r].outcome = "none" /\ r \in budget,
           StageOK(h)',
           UNCHANGED <<receipt, canonical, adm, job, completion, calls>>
    PROVE  Inv'
<1>1. /\ saved \in [Attempts -> AttemptRecords] /\ RecordOK(r) /\ CanonicalOK(h)
      /\ adm.pc = "idle" /\ \A k \in Handles : job[k].pc = "idle"
  BY IdleOutside DEF Inv, TypeInv, TypeOK
<1>2. /\ Fresh.outcome = "pending" /\ ~Fresh.linked /\ ValidRecord(Fresh) /\ Dispatched(Fresh) = {}
      /\ Dispatched(Blank) = {}
  BY DEF Blank, Fresh, ValidRecord, Dispatched
<1>3. /\ \A a \in Attempts : a # r => saved'[a] = saved[a]
      /\ saved'[r] = saved[r] \/ (saved'[r] = Fresh /\ saved[r] = Blank /\ r \in budget)
  BY <1>1 DEF RecordOK
<1>4. ASSUME NEW a \in Attempts PROVE RecordOK(a)'
  <2>1. CASE a = r
    BY <1>1, <1>2, <1>3, <2>1 DEF RecordOK, Receipted
  <2>2. CASE a # r
    BY <1>3, <2>2 DEF Inv, RecordOK, Receipted
  <2> QED BY <2>1, <2>2
<1>5. ASSUME NEW k \in Handles PROVE StageOK(k)'
  <2>1. CASE k # h
    <3>1. audit'.handle # k /\ audit.handle # k
      BY <2>1, HandlesAssumption DEF NoAudit
    <3>2. k \notin link \cup head /\ k \notin link' \cup head' /\ Recovery(k) \notin budget
      BY <2>1, <3>1 DEF Inv, StageOK
    <3>3. Recovery(k) \notin budget'
      BY <2>1, <3>2, Pairs
    <3> QED BY <3>1, <3>2, <3>3 DEF Inv, StageOK
  <2>2. CASE k = h
    BY <2>2
  <2> QED BY <2>1, <2>2
<1>6. ASSUME NEW k \in Handles PROVE CanonicalOK(k)'
  <2>1. \A a \in {First(k), Recovery(k)} :
           /\ saved'[a].linked => saved[a].linked
           /\ saved[a].outcome = "accepted" => saved'[a].outcome = "accepted"
    BY <1>2, <1>3, Pairs DEF Blank
  <2>2. canonical[k] \in {NoAttempt, Current(k)'}
    BY DEF Inv, CanonicalOK, Current
  <2> QED BY <2>1, <2>2 DEF Inv, CanonicalOK
<1> QED BY <1>1, <1>4, <1>5, <1>6 DEF Inv, JobOK, AdmissionInv
LEMMA InvStageAudit == ASSUME Inv, TypeInv', NEW h \in Handles, StageAudit(h) PROVE Inv'
<1>0. PICK r \in Attempts : r = Recovery(h)
  BY Pairs
<1>1. PICK w \in PutResults :
         /\ audit' = Put(w, audit, [handle |-> h, billing |-> charge[First(h)], day |-> today,
                                    before |-> daily[today]])
         /\ UNCHANGED <<budget, daily, saved, link, head, receipt, canonical, adm, job, completion, calls>>
  BY DEF StageAudit, Staging, StageFrame, world
<1>2. /\ Evidence(h) /\ audit = NoAudit /\ budget = {First(h)} /\ phase = "operator"
      /\ today \in Days /\ daily \in [Days -> Nat] /\ StageOK(h) /\ CanonicalOK(h)
  BY DEF StageAudit, Reviewable, Inv, TypeInv, TypeOK
<1>3. /\ audit' = NoAudit \/ (audit'.handle = h /\ daily[audit'.day] = audit'.before)
      /\ NoAudit.handle = NoHandle /\ h # NoHandle
      /\ \A k \in Handles : k # h => audit'.handle # k
  BY <1>1, <1>2, HandlesAssumption DEF Put, NoAudit
<1>4. h \notin link \cup head /\ r \notin budget
  BY <1>0, <1>2, <1>3, Pairs DEF StageOK
<1>5. canonical[h] = NoAttempt
  BY <1>2, <1>4, Pairs, CurrentPairs DEF CanonicalOK, Evidence
<1>6. Evidence(h)'
  BY <1>1, <1>2 DEF Evidence, Receipted
<1>7. StageOK(h)'
  BY <1>0, <1>1, <1>2, <1>3, <1>4, <1>6 DEF StageOK
<1> QED BY <1>0, <1>1, <1>2, <1>3, <1>5, <1>7, StageEffect

\* The other four writes go on with the audit of an earlier step.
LEMMA StageResumes ==
    ASSUME Inv, NEW h \in Handles, Resuming(h)
    PROVE  /\ Evidence(h) /\ canonical[h] = NoAttempt /\ phase = "operator"
           /\ audit.handle = h /\ h \notin head /\ StageOK(h) /\ h # NoHandle
           /\ daily[audit.day] \in {audit.before, audit.before + 1}
           /\ audit.day \in Days /\ audit.before \in Nat /\ daily \in [Days -> Nat]
BY Pairs, CurrentPairs, HandlesAssumption
   DEF Resuming, Inv, StageOK, CanonicalOK, Evidence, TypeInv, TypeOK, Audits

LEMMA InvStageLink == ASSUME Inv, TypeInv', NEW h \in Handles, StageLink(h) PROVE Inv'
<1>0. PICK r \in Attempts : r = Recovery(h)
  BY Pairs
<1>1. /\ link' \in {link, link \cup {h}} /\ Resuming(h)
      /\ UNCHANGED <<budget, daily, saved, audit, head, receipt, canonical, adm, job, completion, calls>>
  BY DEF StageLink, Put, Staging, StageFrame, world
<1>2. Evidence(h)'
  BY <1>1, StageResumes DEF Evidence, Receipted
<1>3. StageOK(h)'
  BY <1>1, <1>2, StageResumes DEF StageOK
<1> QED BY <1>0, <1>1, <1>3, StageResumes, StageEffect

LEMMA InvStageBudget == ASSUME Inv, TypeInv', NEW h \in Handles, StageBudget(h) PROVE Inv'
<1>0. PICK r \in Attempts : r = Recovery(h)
  BY Pairs
<1>1. /\ budget' \in {budget, budget \cup {r}} /\ Resuming(h) /\ h \in link /\ budget = {First(h)}
      /\ UNCHANGED <<daily, saved, audit, link, head, receipt, canonical, adm, job, completion, calls>>
  BY <1>0 DEF StageBudget, Put, Staging, StageFrame, recovery, world
<1>2. Evidence(h)'
  BY <1>1, StageResumes DEF Evidence, Receipted
<1>3. StageOK(h)'
  <2>1. budget' \in {{First(h)}, {First(h), Recovery(h)}}
    BY <1>0, <1>1
  <2> QED BY <1>1, <1>2, <2>1, StageResumes DEF StageOK
<1> QED BY <1>0, <1>1, <1>3, StageResumes, StageEffect

LEMMA InvStageDaily == ASSUME Inv, TypeInv', NEW h \in Handles, StageDaily(h) PROVE Inv'
<1>0. PICK r \in Attempts : r = Recovery(h)
  BY Pairs
<1>1. /\ daily' \in {daily, [daily EXCEPT ![audit.day] = audit.before + 1]} /\ Resuming(h)
      /\ UNCHANGED <<budget, saved, audit, link, head, receipt, canonical, adm, job, completion, calls>>
  BY DEF StageDaily, Put, Staging, StageFrame, recovery, world
<1>2. Evidence(h)'
  BY <1>1, StageResumes DEF Evidence, Receipted
<1>3. daily'[audit.day] \in {audit.before, audit.before + 1}
  BY <1>1, StageResumes
<1>4. StageOK(h)'
  BY <1>1, <1>2, <1>3, StageResumes DEF StageOK
<1> QED BY <1>0, <1>1, <1>4, StageResumes, StageEffect

LEMMA InvStageAttempt == ASSUME Inv, TypeInv', NEW h \in Handles, StageAttempt(h) PROVE Inv'
<1>0. PICK r \in Attempts : r = Recovery(h)
  BY Pairs
<1>1. /\ saved' \in {saved, [saved EXCEPT ![r] = Fresh]} /\ Resuming(h)
      /\ r \in budget /\ saved[r].outcome = "none" /\ saved \in [Attempts -> AttemptRecords]
      /\ UNCHANGED <<budget, daily, audit, link, head, receipt, canonical, adm, job, completion, calls>>
  BY <1>0 DEF StageAttempt, Appended, Put, Staging, StageFrame, recovery, world, Inv, TypeInv, TypeOK
<1>2. Evidence(h)'
  <2>1. saved'[First(h)] = saved[First(h)]
    BY <1>0, <1>1, Pairs
  <2> QED BY <1>1, <2>1, StageResumes DEF Evidence, Receipted
<1>3. StageOK(h)'
  BY <1>1, <1>2, StageResumes DEF StageOK
<1> QED BY <1>0, <1>1, <1>3, StageResumes, StageEffect

LEMMA InvStageHead == ASSUME Inv, TypeInv', NEW h \in Handles, StageHead(h) PROVE Inv'
<1>0. PICK r \in Attempts : r = Recovery(h)
  BY Pairs
<1>1. /\ head' \in {head, head \cup {h}} /\ Resuming(h)
      /\ h \in link /\ saved[Recovery(h)].outcome # "none"
      /\ UNCHANGED <<budget, daily, saved, audit, link, receipt, canonical, adm, job, completion, calls>>
  BY DEF StageHead, Appended, Put, Staging, StageFrame, world, Fresh, Blank
<1>2. Evidence(h)'
  BY <1>1, StageResumes DEF Evidence, Receipted
<1>3. StageOK(h)'
  BY <1>1, <1>2, StageResumes DEF StageOK
<1> QED BY <1>0, <1>1, <1>3, StageResumes, StageEffect

LEMMA InvStep == Inv /\ [Next]_vars => Inv'
<1> SUFFICES ASSUME Inv, [Next]_vars PROVE Inv'
  OBVIOUS
<1>1. TypeInv'
  BY TypeStep DEF Inv
<1>2. ASSUME NEW h \in Handles, Stage(h) PROVE Inv'
  BY <1>1, <1>2, InvStageAudit, InvStageLink, InvStageBudget, InvStageDaily, InvStageAttempt,
     InvStageHead DEF Stage
<1>3. CASE UNCHANGED vars
  <2>1. UNCHANGED <<phase, budget, daily, saved, receipt, canonical, audit, link, head, job,
                    completion, calls, adm>>
    BY <1>3 DEF vars, ledger, recovery, world
  <2>2. AdmissionInv'
    BY <2>1 DEF Inv, AdmissionInv, NoOpenStaging, Current
  <2> QED BY <1>1, <2>1, <2>2, AdmissionMoves
<1> QED BY <1>1, <1>2, <1>3, InvAdmission, InvJob, InvReuse, InvComplete, InvLifecycle DEF Next
LEMMA Invariance == Spec => []Inv
BY InvInit, InvStep, PTL DEF Spec
-----------------------------------------------------------------------------
\* No sequence of admissions, calls, crashes, failed writes and recoveries leaves
\* a record on disk that the ledger's validators reject.
THEOREM RecordsAlwaysReadBack == Spec => []RecordsReadBack
<1>1. Inv => RecordsReadBack
  <2> SUFFICES ASSUME Inv PROVE RecordsReadBack
    OBVIOUS
  <2>1. ASSUME NEW h \in Handles, Recovery(h) \in budget PROVE First(h) \in budget
    BY <2>1 DEF Inv, StageOK, Evidence
  <2> QED BY <2>1 DEF Inv, RecordOK, RecordsReadBack
<1> QED BY <1>1, Invariance, PTL

\* Whoever reads only the disk knows of every provider call ever made.
THEOREM CallsAlwaysOnRecord == Spec => []CallsOnRecord
<1>1. Inv => CallsOnRecord
  <2> SUFFICES ASSUME Inv, NEW a \in Attempts, NEW l \in Legs, calls[a][l] > 0
               PROVE  a \in budget /\ l \in Dispatched(saved[a])
    BY DEF CallsOnRecord
  <2>1. RecordOK(a) /\ calls[a][l] = 1
    BY DEF Inv, RecordOK
  <2>2. saved[a].outcome # "none"
    BY <2>1 DEF RecordOK, Blank, Dispatched
  <2> QED BY <2>1, <2>2 DEF RecordOK
<1> QED BY <1>1, Invariance, PTL

\* No leg of an attempt is ever called twice, and a handle costs at most one
\* Grok response, its recovery included.
THEOREM NeverTwice == Spec => []OneCallPerLeg
<1>1. Inv => OneCallPerLeg
  <2> SUFFICES ASSUME Inv PROVE OneCallPerLeg
    OBVIOUS
  <2>1. ASSUME NEW a \in Attempts, NEW l \in Legs PROVE calls[a][l] \in {0, 1}
    BY DEF Inv, RecordOK
  <2>2. ASSUME NEW h \in Handles
        PROVE  calls[First(h)]["grok"] = 0 \/ calls[Recovery(h)]["grok"] = 0
    <3>1. calls[Recovery(h)]["grok"] = 1 => ~saved[First(h)].grok
      BY DEF Inv, StageOK, Evidence
    <3>2. calls[First(h)]["grok"] = 1 => saved[First(h)].grok
      BY Pairs DEF Inv, RecordOK, Dispatched
    <3> QED BY <2>1, <3>1, <3>2, Pairs
  <2> QED BY <2>1, <2>2, Pairs DEF OneCallPerLeg
<1> QED BY <1>1, Invariance, PTL

\* The ledger's reference to a result and the published result agree.
THEOREM ReferencesAgree == Spec => []LinkedIsCanonical
<1>1. Inv => LinkedIsCanonical
  BY Pairs DEF Inv, CanonicalOK, LinkedIsCanonical
<1> QED BY <1>1, Invariance, PTL

\* A recovery repeats a lookup only after the provider's refusal and without a
\* Grok call before it.
THEOREM RetriesAreJustified == Spec => []RetryNeedsRejection
<1>1. Inv => RetryNeedsRejection
  <2> SUFFICES ASSUME Inv, NEW h \in Handles, NEW l \in Legs, calls[Recovery(h)][l] > 0
               PROVE  /\ h \in head /\ audit.handle = h
                      /\ receipt[First(h)]["x"].kind = "http402" /\ calls[First(h)]["grok"] = 0
    BY DEF RetryNeedsRejection
  <2>1. h \in head /\ audit.handle = h /\ Evidence(h)
    BY Pairs DEF Inv, RecordOK, StageOK
  <2>2. calls[First(h)]["grok"] = 1 => saved[First(h)].grok
    BY Pairs DEF Inv, RecordOK, Dispatched
  <2> QED BY <2>1, <2>2, Pairs DEF Inv, RecordOK, Evidence
<1> QED BY <1>1, Invariance, PTL

\* A staging that was interrupted after any of its writes can be finished.
THEOREM StagingAlwaysFinishes == Spec => []StagingCanFinish
<1>1. Inv => StagingCanFinish
  BY DEF Inv, StageOK, StagingCanFinish
<1> QED BY <1>1, Invariance, PTL
-----------------------------------------------------------------------------
\* What one step may do to the reservations, the calls and the publications,
\* and to the outcomes of attempts: one alternative for each kind of step.
Decided(a) == saved[a].outcome \notin {"none", "pending"}
OutcomesKept == \A a \in Attempts : Decided(a) => saved'[a].outcome = saved[a].outcome
Quiet == OutcomesKept /\ UNCHANGED <<budget, calls, canonical>>
Reserves(a) ==
    /\ OutcomesKept /\ UNCHANGED <<calls, canonical>>
    /\ budget' \in {budget, budget \cup {a}} /\ a \notin budget
    /\ a[2] = "recovery" => First(a[1]) \in budget /\ calls[First(a[1])]["grok"] = 0
Calls(a, l) ==
    /\ OutcomesKept /\ UNCHANGED <<budget, canonical>>
    /\ calls' = [calls EXCEPT ![a][l] = @ + 1] /\ calls[a][l] = 0 /\ calls[a]["grok"] = 0
    /\ a \in budget /\ ~Decided(a) /\ canonical[a[1]] = NoAttempt
    /\ a[2] = "first" => Recovery(a[1]) \notin budget
Publishes(a) ==
    /\ OutcomesKept /\ UNCHANGED <<budget, calls>>
    /\ canonical' \in {canonical, [canonical EXCEPT ![a[1]] = a]}
    /\ canonical[a[1]] = NoAttempt /\ calls[a]["grok"] = 1
StepKind == Quiet \/ \E a \in Attempts : Reserves(a) \/ Publishes(a) \/ \E l \in Legs : Calls(a, l)

\* A write at one attempt that is undecided, or keeps its outcome.
LEMMA KeepsOutcomes ==
    ASSUME TypeInv, NEW r \in Attempts, NEW record,
           saved' \in {saved, [saved EXCEPT ![r] = record]},
           ~Decided(r) \/ record.outcome = saved[r].outcome
    PROVE  OutcomesKept
BY DEF TypeInv, TypeOK, OutcomesKept, Decided

LEMMA FailureKeeps ==
    ASSUME Inv, NEW r \in Attempts, NEW category \in Categories, saved[r].outcome # "none",
           saved' \in {saved, [saved EXCEPT ![r] = Failure(r, category)]}
    PROVE  OutcomesKept
<1>1. saved[r] \in AttemptRecords /\ RecordOK(r)
  BY DEF Inv, TypeInv, TypeOK
<1>2. ~Decided(r) \/ Failure(r, category).outcome = saved[r].outcome
  BY <1>1, FailureRecord DEF Decided
<1> DEFINE record == Failure(r, category)
<1> HIDE DEF record
<1>3. saved' \in {saved, [saved EXCEPT ![r] = record]}
  BY DEF record
<1>4. ~Decided(r) \/ record.outcome = saved[r].outcome
  BY <1>2 DEF record
<1> QED BY <1>3, <1>4, KeepsOutcomes DEF Inv

LEMMA AdmissionKind == ASSUME Inv, Admission PROVE StepKind
<1>1. CASE AdmitBudget
  <2>0. PICK f \in Attempts : f = First(adm.handle)
    BY <1>1, Pairs DEF Inv, TypeInv, AdmitBudget
  <2>1. f \notin budget
    BY <1>1, <2>0 DEF Inv, AdmissionInv, AdmitBudget
  <2>2. /\ budget' \in {budget, budget \cup {f}}
        /\ UNCHANGED <<saved, calls, canonical>>
    BY <1>1, <2>0 DEF AdmitBudget, Put, world
  <2>3. f[2] # "recovery"
    BY <2>0 DEF First
  <2> QED BY <2>1, <2>2, <2>3 DEF StepKind, Reserves, OutcomesKept
<1>2. CASE AdmitAttempt
  <2>0. PICK f \in Attempts : f = First(adm.handle)
    BY <1>2, Pairs DEF Inv, TypeInv, AdmitAttempt
  <2>1. ~Decided(f)
    BY <1>2, <2>0 DEF Inv, AdmissionInv, AdmitAttempt, Decided
  <2>2. /\ saved' \in {saved, [saved EXCEPT ![f] = Fresh]}
        /\ UNCHANGED <<budget, calls, canonical>>
    BY <1>2, <2>0 DEF AdmitAttempt, Put, world
  <2> QED BY <2>1, <2>2, KeepsOutcomes DEF StepKind, Quiet, Inv
<1>3. CASE ~AdmitBudget /\ ~AdmitAttempt
  <2>1. UNCHANGED <<budget, saved, calls, canonical>>
    BY <1>3 DEF Admission, RequestAdmission, RequestRecovery, AdmitAccount, AdmitRefuse, AdmitDaily,
                PutRequest, StartAssessment, WalletChanged, ledger, world
  <2> QED BY <2>1 DEF StepKind, Quiet, OutcomesKept
<1> QED BY <1>1, <1>2, <1>3

LEMMA JobKind == ASSUME Inv, NEW h \in Handles, Job(h) PROVE StepKind
<1>0. PICK r \in Attempts : r = Run(h)
  BY Addresses DEF Inv, TypeInv
<1>1. /\ saved[r] \in AttemptRecords /\ RecordOK(r) /\ JobOK(h) /\ job[h].pc # "idle"
      /\ saved[r].outcome # "none" /\ r = Current(h) /\ NoOpenStaging
  BY <1>0 DEF Inv, TypeInv, TypeOK, JobOK, Job, BeforeX, CallX, ReceiptX, VerifyX, BeforeGrok, CallGrok,
              ReceiptGrok, StampGrok, RefuseDispatch, RecordOutcome, Persist, Link, JobFailed
<1>2. CASE BeforeX(h) \/ VerifyX(h) \/ BeforeGrok(h) \/ StampGrok(h)
  <2>1. PICK record, next : Save(h, record, next)
    BY <1>2 DEF BeforeX, VerifyX, BeforeGrok, StampGrok
  <2>2. /\ saved' \in {saved, [saved EXCEPT ![r] = record]}
        /\ UNCHANGED <<budget, calls, canonical>>
    BY <1>0, <2>1 DEF Save, Put, world
  <2>3. ~Decided(r)
    BY <1>0, <1>1, <1>2 DEF Decided, JobOK, Undecided, BeforeX, VerifyX, BeforeGrok, StampGrok
  <2> QED BY <2>2, <2>3, KeepsOutcomes DEF StepKind, Quiet, Inv
<1>3. CASE RecordOutcome(h)
  <2>1. PICK record : /\ saved' \in {saved, [saved EXCEPT ![r] = record]}
                      /\ UNCHANGED <<budget, calls, canonical>>
    BY <1>0, <1>3 DEF RecordOutcome, Put, world
  <2>2. ~Decided(r)
    BY <1>0, <1>3 DEF RecordOutcome, Decided
  <2> QED BY <2>1, <2>2, KeepsOutcomes DEF StepKind, Quiet, Inv
<1>4. CASE Link(h)
  <2> DEFINE record == [saved[r] EXCEPT !.linked = TRUE]
  <2>1. /\ saved' \in {saved, [saved EXCEPT ![r] = record]}
        /\ UNCHANGED <<budget, calls, canonical>>
    BY <1>0, <1>4 DEF Link, Put, world
  <2>2. record.outcome = saved[r].outcome
    BY <1>1 DEF AttemptRecords
  <2> HIDE DEF record
  <2> QED BY <2>1, <2>2, KeepsOutcomes DEF StepKind, Quiet, Inv
<1>5. CASE JobFailed(h)
  <2>1. PICK category \in Categories :
           /\ saved' \in {saved, [saved EXCEPT ![r] = Failure(r, category)]}
           /\ UNCHANGED <<budget, calls, canonical>>
    BY <1>0, <1>5 DEF JobFailed, Put, Categories, world
  <2> QED BY <1>1, <2>1, FailureKeeps DEF StepKind, Quiet
<1>6. CASE RefuseDispatch(h) \/ ReceiptX(h) \/ ReceiptGrok(h)
  <2>1. UNCHANGED <<budget, saved, calls, canonical>>
    BY <1>6 DEF RefuseDispatch, ReceiptX, ReceiptGrok, RecordReceipt, ledger, world
  <2> QED BY <2>1 DEF StepKind, Quiet, OutcomesKept
<1>7. ASSUME NEW l \in Legs, NEW bill, NEW reply, NEW next, Call(h, l, bill, reply, next),
             job[h].pc = (IF l = "x" THEN "xcall" ELSE "gcall")
      PROVE  StepKind
  <2>1. /\ calls' = [calls EXCEPT ![r][l] = @ + 1] /\ UNCHANGED <<budget, canonical, saved>>
    BY <1>0, <1>7 DEF Call, ledger
  <2>2. ~Decided(r) /\ r \in budget /\ canonical[h] = NoAttempt /\ calls[r][l] = 0
    BY <1>0, <1>1, <1>7 DEF JobOK, Undecided, Decided, RecordOK
  <2>3. calls[r]["grok"] = 0
    BY <1>0, <1>1, <1>7, <2>2 DEF JobOK, RecordOK, Dispatched
  <2>4. r[1] = h
    BY <1>0, Addresses DEF Inv, TypeInv
  <2>5. r[2] = "first" => Recovery(h) \notin budget
    <3>1. Recovery(h) \in budget => audit.handle = h /\ h \in head
      BY <1>1, HandlesAssumption DEF Inv, StageOK, NoOpenStaging, NoAudit
    <3>2. h \in head => r = Recovery(h)
      BY <1>1, CurrentPairs
    <3> QED BY <3>1, <3>2 DEF Recovery
  <2> QED BY <2>1, <2>2, <2>3, <2>4, <2>5 DEF StepKind, Calls, OutcomesKept
<1>8. CASE CallX(h)
  BY <1>7, <1>8 DEF CallX
<1>9. CASE CallGrok(h)
  BY <1>7, <1>9 DEF CallGrok
<1>10. CASE Persist(h)
  <2>1. canonical[h] = NoAttempt /\ calls[r]["grok"] = 1
    BY <1>0, <1>1, <1>10 DEF JobOK, Answered, Persist
  <2>2. /\ canonical' \in {canonical, [canonical EXCEPT ![h] = r]}
        /\ UNCHANGED <<budget, calls, saved>>
    BY <1>0, <1>10, <2>1 DEF Persist, Put, world
  <2>3. r[1] = h
    BY <1>0, Addresses DEF Inv, TypeInv
  <2> QED BY <2>1, <2>2, <2>3 DEF StepKind, Publishes, OutcomesKept
<1> QED BY <1>2, <1>3, <1>4, <1>5, <1>6, <1>8, <1>9, <1>10 DEF Job
LEMMA CompleteKind ==
    ASSUME Inv, NEW h \in Handles, NEW q \in Requests, Complete(h, q)
    PROVE  StepKind
<1>0. PICK r \in Attempts : r = Current(h)
  BY Addresses DEF Inv, TypeInv
<1>1. saved[r] \in AttemptRecords
  BY DEF Inv, TypeInv, TypeOK
<1>2. UNCHANGED <<budget, calls, canonical>>
  BY DEF Complete, Reconcile, PrepareArtifact, ArtifactPrepared, ArtifactFailed, CompletionFrame, world
<1>3. PICK record \in {[saved[r] EXCEPT !.linked = TRUE], [saved[r] EXCEPT !.artifact = "prepared"],
                       [saved[r] EXCEPT !.artifact = "failed"]} :
         saved' \in {saved, [saved EXCEPT ![r] = record]}
  <2>1. \/ saved' \in {saved, [saved EXCEPT ![r] = [saved[r] EXCEPT !.linked = TRUE]]}
        \/ saved' \in {saved, [saved EXCEPT ![r] = [saved[r] EXCEPT !.artifact = "prepared"]]}
        \/ saved' \in {saved, [saved EXCEPT ![r] = [saved[r] EXCEPT !.artifact = "failed"]]}
    BY <1>0 DEF Complete, Reconcile, PrepareArtifact, ArtifactPrepared, ArtifactFailed, Put
  <2> QED BY <2>1, Zenon
<1>4. record.outcome = saved[r].outcome
  BY <1>1 DEF AttemptRecords
<1> QED BY <1>2, <1>3, <1>4, KeepsOutcomes DEF StepKind, Quiet, Inv

LEMMA LifecycleKind == ASSUME Inv, Lifecycle PROVE StepKind
<1>1. ASSUME NEW h \in Handles, RecoverHandle(h) PROVE StepKind
  <2>0. PICK r \in Attempts : r = Current(h)
    BY Addresses DEF Inv, TypeInv
  <2>1. UNCHANGED <<budget, calls, canonical>>
    BY <1>1 DEF RecoverHandle, world
  <2>2. CASE saved' = saved
    BY <2>1, <2>2 DEF StepKind, Quiet, OutcomesKept
  <2>3. CASE saved' # saved
    <3>1. Interrupted(h)
      BY <1>1, <2>3 DEF RecoverHandle
    <3>2. saved[r].outcome # "none"
      BY <2>0, <3>1 DEF Interrupted
    <3>3. saved' \in {saved, [saved EXCEPT ![r] = Failure(r, "interrupted")]}
      BY <1>1, <2>0, <3>1 DEF RecoverHandle, Put
    <3> QED BY <2>1, <3>2, <3>3, FailureKeeps DEF StepKind, Quiet, Categories
  <2> QED BY <2>2, <2>3
<1>2. CASE ~(\E h \in Handles : RecoverHandle(h))
  <2>1. UNCHANGED <<budget, saved, calls, canonical>>
    BY <1>2 DEF Lifecycle, Crash, Stop, Exit, Start, Serve, OperatorBegin, OperatorEnd,
                ToggleGeneration, NextDay, ledger, world
  <2> QED BY <2>1 DEF StepKind, Quiet, OutcomesKept
<1> QED BY <1>1, <1>2

LEMMA StageKind == ASSUME Inv, NEW h \in Handles, Stage(h) PROVE StepKind
<1>0. PICK r \in Attempts : r = Recovery(h)
  BY Pairs
<1>1. CASE StageBudget(h)
  <2>1. /\ r[1] = h /\ budget = {First(h)} /\ r \notin budget /\ Evidence(h)
        /\ budget' \in {budget, budget \cup {r}} /\ UNCHANGED <<saved, calls, canonical>>
    BY <1>0, <1>1, Pairs DEF StageBudget, Resuming, Put, Staging, StageFrame, world
  <2>2. calls[First(h)]["grok"] = 0
    BY <2>1, Pairs DEF Inv, RecordOK, Evidence, Dispatched
  <2> QED BY <2>1, <2>2 DEF StepKind, Reserves, OutcomesKept
<1>2. CASE StageAttempt(h)
  <2>1. ~Decided(r)
    BY <1>0, <1>2 DEF StageAttempt, Decided
  <2>2. /\ saved' \in {saved, [saved EXCEPT ![r] = Fresh]}
        /\ UNCHANGED <<budget, calls, canonical>>
    BY <1>0, <1>2 DEF StageAttempt, Put, Staging, StageFrame, world
  <2> QED BY <2>1, <2>2, KeepsOutcomes DEF StepKind, Quiet, Inv
<1>3. CASE ~StageBudget(h) /\ ~StageAttempt(h)
  <2>1. UNCHANGED <<budget, saved, calls, canonical>>
    BY <1>3 DEF Stage, StageAudit, StageLink, StageDaily, StageHead, Staging, StageFrame, world
  <2> QED BY <2>1 DEF StepKind, Quiet, OutcomesKept
<1> QED BY <1>1, <1>2, <1>3

LEMMA EveryStep == Inv /\ [Next]_vars => StepKind
<1> SUFFICES ASSUME Inv, [Next]_vars PROVE StepKind
  OBVIOUS
<1>1. ASSUME NEW h \in Handles, RequestReuse(h) PROVE StepKind
  BY <1>1 DEF RequestReuse, StepKind, Quiet, OutcomesKept, ledger, world
<1>2. CASE UNCHANGED vars
  BY <1>2 DEF vars, StepKind, Quiet, OutcomesKept, ledger, world
<1> QED BY <1>1, <1>2, AdmissionKind, JobKind, CompleteKind, LifecycleKind, StageKind DEF Next

\* A terminal outcome is final, and its attempt never dispatches again.
THEOREM OutcomesFinal == Spec => TerminalOutcomeFinal
<1>1. Inv /\ [Next]_vars =>
         \A a \in Attempts : saved[a].outcome \notin {"none", "pending"} =>
            saved'[a].outcome = saved[a].outcome /\ calls'[a] = calls[a]
  <2> SUFFICES ASSUME Inv, StepKind, NEW a \in Attempts, Decided(a)
               PROVE  saved'[a].outcome = saved[a].outcome /\ calls'[a] = calls[a]
    BY EveryStep DEF Decided
  <2>1. OutcomesKept
    BY DEF StepKind, Quiet, Reserves, Publishes, Calls
  <2>2. calls'[a] = calls[a]
    BY DEF StepKind, Quiet, Reserves, Publishes, Calls, Inv, TypeInv, TypeOK
  <2> QED BY <2>1, <2>2 DEF OutcomesKept
<1> QED BY <1>1, Invariance, PTL DEF Spec, TerminalOutcomeFinal
-----------------------------------------------------------------------------
\* The calls of the abstract specification, and how a call of the ledger maps.
Called == {c \in Attempts \X Legs : calls[c[1]][c[2]] > 0}

LEMMA PromiseNames ==
    /\ Promise!Attempts = Attempts /\ Promise!Legs = Legs /\ Promise!NoAttempt = NoAttempt
    /\ \A h : /\ Promise!Twin(First(h)) = Recovery(h) /\ Promise!Twin(Recovery(h)) = First(h)
              /\ First(h)[2] = "first" /\ Recovery(h)[2] = "recovery"
BY DEF Promise!Attempts, Promise!Legs, Promise!NoAttempt, Promise!Twin, Attempts, NoAttempt, First, Recovery

LEMMA CallsMap ==
    ASSUME TypeInv, NEW a \in Attempts, NEW l \in Legs, calls' = [calls EXCEPT ![a][l] = @ + 1]
    PROVE  Called' = Called \cup {<<a, l>>}
<1>1. calls \in [Attempts -> [Legs -> Nat]]
  BY DEF TypeInv, TypeOK
<1>2. ASSUME NEW b \in Attempts, NEW m \in Legs
      PROVE  calls'[b][m] > 0 <=> (calls[b][m] > 0 \/ (b = a /\ m = l))
  <2>1. calls[b][m] \in Nat /\ calls[a][l] \in Nat
    BY <1>1
  <2>2. calls'[b][m] = IF b = a /\ m = l THEN calls[a][l] + 1 ELSE calls[b][m]
    BY <1>1
  <2> QED BY <2>1, <2>2
<1> QED BY <1>2 DEF Called

LEMMA NotCalled ==
    ASSUME TypeInv, NEW a \in Attempts, NEW l \in Legs
    PROVE  <<a, l>> \in Called <=> calls[a][l] # 0
BY DEF Called, TypeInv, TypeOK

LEMMA PromiseStep == Inv /\ StepKind => [Promise!Next]_<<budget, Called, canonical>>
<1> SUFFICES ASSUME Inv, StepKind PROVE [Promise!Next]_<<budget, Called, canonical>>
  OBVIOUS
<1>0. TypeInv
  BY DEF Inv
<1>1. calls' = calls => Called' = Called
  BY DEF Called
<1>6. ASSUME NEW a \in Attempts PROVE <<a, "grok">> \in Called <=> calls[a]["grok"] # 0
  <2>1. "grok" \in Legs
    OBVIOUS
  <2> QED BY <1>0, <2>1, NotCalled
<1>2. CASE Quiet
  BY <1>1, <1>2 DEF Quiet
<1>3. ASSUME NEW a \in Attempts, Reserves(a) PROVE [Promise!Next]_<<budget, Called, canonical>>
  <2>1. a = First(a[1]) \/ a = Recovery(a[1])
    BY Pairs
  <2>2. a[2] = "recovery" => Promise!Twin(a) \in budget /\ <<Promise!Twin(a), "grok">> \notin Called
    <3> SUFFICES ASSUME a[2] = "recovery"
                 PROVE  Promise!Twin(a) \in budget /\ <<Promise!Twin(a), "grok">> \notin Called
      OBVIOUS
    <3>1. Promise!Twin(a) = First(a[1]) /\ First(a[1]) \in Attempts
      BY <2>1, Pairs, PromiseNames
    <3>2. First(a[1]) \in budget /\ calls[First(a[1])]["grok"] = 0
      BY <1>3 DEF Reserves
    <3> QED BY <1>6, <3>1, <3>2
  <2>3. budget' = budget \/ Promise!Grant(a)
    BY <1>1, <1>3, <2>2 DEF Reserves, Promise!Grant, Called
  <2> QED BY <1>1, <1>3, <2>3, PromiseNames DEF Reserves, Promise!Next
<1>4. ASSUME NEW a \in Attempts, Publishes(a) PROVE [Promise!Next]_<<budget, Called, canonical>>
  <2>1. <<a, "grok">> \in Called
    BY <1>4, <1>6 DEF Publishes
  <2>2. canonical' = canonical \/ Promise!Publish(a)
    BY <1>1, <1>4, <2>1, PromiseNames DEF Publishes, Promise!Publish, Called
  <2> QED BY <1>1, <1>4, <2>2, PromiseNames DEF Publishes, Promise!Next
<1>5. ASSUME NEW a \in Attempts, NEW l \in Legs, Calls(a, l)
      PROVE  [Promise!Next]_<<budget, Called, canonical>>
  <2>1. a = First(a[1]) \/ a = Recovery(a[1])
    BY Pairs
  <2>2. <<a, l>> \notin Called /\ <<a, "grok">> \notin Called /\ Called' = Called \cup {<<a, l>>}
    BY <1>0, <1>5, NotCalled, CallsMap DEF Calls
  <2>3. Promise!Twin(a) \in budget => a[2] = "recovery"
    BY <1>5, <2>1, PromiseNames DEF Calls
  <2>4. Promise!Call(a, l)
    BY <1>5, <2>2, <2>3, PromiseNames DEF Calls, Promise!Call, Called
  <2> QED BY <2>4, PromiseNames DEF Promise!Next
<1> QED BY <1>2, <1>3, <1>4, <1>5 DEF StepKind

\* The ledger, with its files, crashes and recoveries, implements the promise.
THEOREM LedgerKeepsPromise == Spec => KeepsPromise
<1>1. Init => Promise!Init
  BY DEF Init, Promise!Init, Promise!Attempts, Promise!Legs, Promise!NoAttempt, Attempts, NoAttempt
<1>2. Inv /\ [Next]_vars => [Promise!Next]_Promise!vars
  BY EveryStep, PromiseStep DEF Promise!vars, Called
<1> QED BY <1>1, <1>2, Invariance, PTL DEF Spec, KeepsPromise, Promise!Spec
=============================================================================
