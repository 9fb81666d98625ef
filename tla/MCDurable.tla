------------------------------ MODULE MCDurable ------------------------------
(***************************************************************************)
(* What the processes of the open mint keep in PostgreSQL, for TLC: a      *)
(* behaviour is of the reservations and signatures of authorizations       *)
(* ("issuance") or of the paid runs of assessments ("assessment").  They   *)
(* share no state.                                                         *)
(***************************************************************************)
EXTENDS DurableIssuance, TLC

CONSTANTS
    q1, q2, c1, c2, h1, NoHandle, NoTx, NoRun
CONSTANTS
    Handles, Runs, MaxTotal, MaxDaily, MaxActive, MaxQueued, MaxExposure,
    Reservation, Charges, MaxWriters, MaxDay            \* of DurableAssessment

VARIABLE part    \* which of them this behaviour is of
VARIABLES
    db, generating, today, live, lock, tx, indoubt, run, calls, spent

CallSymmetry == Permutations(Calls)

Paid == INSTANCE DurableAssessment WITH
    MaxEpoch <- MaxWriters, enabled <- generating

PaidVars ==
    <<db, generating, today, live, lock, tx, indoubt, run, calls, spent>>

All == <<part, vars, PaidVars>>

PackInit ==
    /\ part \in {"issuance", "assessment"}
    /\ Init
    /\ Paid!Init

PackNext ==
    \/ part = "issuance" /\ Next /\ UNCHANGED <<part, PaidVars>>
    \/ part = "assessment" /\ Paid!Next /\ UNCHANGED <<part, vars>>

PackSpec == PackInit /\ [][PackNext]_All

(* What providers charged, whether or not a receipt could be recorded, was  *)
(* reserved by a paid attempt before (repository.ts, assessmentWorker.ts).  *)
SpentAsReserved == spent <= Reservation * Cardinality(Paid!Reserved)

(* Money is spent at most once per leg, behind a fence that is durable; an  *)
(* outcome agrees with its evidence, is recorded by the run that claimed    *)
(* the attempt and never interrupts an accepted one; an answer is durable   *)
(* before it is given; and nothing is charged beyond what was reserved      *)
(* (repository.ts, assessmentWorker.ts).                                    *)
SpentOnce ==
    part = "assessment" =>
        /\ Paid!OneCallPerLeg /\ Paid!TerminalMatchesEvidence
        /\ Paid!AcceptedIsNotInterrupted /\ Paid!ClosedByClaimer
        /\ Paid!AnswersAreDurable /\ Paid!NothingLeftRunning
        /\ SpentAsReserved

ASSUME DurableAssumption == Paid!PolicyAssumption
==============================================================================
