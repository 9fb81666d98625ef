----------------------------- MODULE MCLiveness ------------------------------
(***************************************************************************)
(* What must end, for TLC, each under the fairness its module justifies.   *)
(* A behaviour is of the assessment ledger: one handle with its recovery   *)
(* ("ledger"); of the durable assessments: one run with every fault        *)
(* ("durable"); of the mint site: two calls of one browser for one request *)
(* ("issuance"); of the read queue ("queue"); or of a projection with one  *)
(* poller ("projection").  They share no state.                            *)
(***************************************************************************)
EXTENDS AssessmentLedger, TLC

CONSTANTS
    h1, r1, NoTx, NoRun, w1, s1, c1, c2, c3, c4, ours, Nothing, AnyCode

VARIABLE part    \* which of them this behaviour is of
VARIABLES
    db, enabled, durableToday, live, lock, tx, indoubt, run, durableCalls,
    spent
VARIABLES
    time, authorizer, paused, usedNonces, revokedNonces, provenance, clock,
    session, checking, request, issuance, nextNonce, call, queue, released,
    siteFaults
VARIABLES
    queues, active, burst, spaced, queueCall
VARIABLES
    chain, final, reorgs, deep, proj, promoted, mint, own, health, poll, pass,
    witness, failures, reader, shown

CallerLanes ==
    [c \in {c1, c2, c3, c4} |-> IF c = c4 THEN "background" ELSE "action"]

Durable == INSTANCE DurableAssessment WITH
    Handles <- {h1}, Runs <- {r1}, MaxTotal <- 1, MaxDaily <- 1,
    MaxActive <- 1, MaxQueued <- 1, MaxExposure <- 2, Reservation <- 2,
    Charges <- {1}, MaxEpoch <- 2, MaxDay <- 0, today <- durableToday,
    calls <- durableCalls
Site == INSTANCE MintIssuance WITH
    Handles <- {h1}, Wallets <- {w1}, Keys <- {ours}, ServiceKey <- ours,
    Sessions <- {s1}, Codes <- {c1}, Calls <- {c2, c3}, Scopes <- {AnyCode},
    Window <- 1, MinWindow <- 0, ContractWindow <- 1, RequestLife <- 2,
    ProofLife <- 2, SessionLife <- 9, Skew <- 0, Operators <- {},
    MaxTime <- 2, MaxGeneration <- 1, MaxFaults <- 1, faults <- siteFaults
Queue == INSTANCE PulseQueue WITH
    Callers <- {c1, c2, c3, c4}, Lane <- CallerLanes, Sends <- {c1},
    MaxActive <- 2, MaxBurst <- 2, Limit <- 3, call <- queueCall
Projection == INSTANCE ChainProjection WITH
    Coordinators <- {c1}, Rollback <- 2, Batch <- 2, MaxHeight <- 3,
    MaxReorgs <- 1, MaxFailures <- 1, MaxStops <- 1, Reads <- FALSE,
    DeepReorg <- FALSE

DurableVars ==
    <<db, enabled, durableToday, live, lock, tx, indoubt, run, durableCalls,
      spent>>
SiteVars ==
    <<time, authorizer, paused, usedNonces, revokedNonces, provenance, clock,
      session, checking, request, issuance, nextNonce, call, queue, released,
      siteFaults>>
QueueVars ==
    <<queues, active, burst, spaced, queueCall>>
ProjectionVars ==
    <<chain, final, reorgs, deep, proj, promoted, mint, own, health, poll,
      pass, witness, failures, reader, shown>>

All == <<part, vars, DurableVars, SiteVars, QueueVars, ProjectionVars>>

PackInit ==
    /\ part \in {"ledger", "durable", "issuance", "queue", "projection"}
    /\ Init
    /\ Durable!Init
    /\ Site!Init
    /\ Queue!Init
    /\ Projection!Init

PackNext ==
    \/ part = "ledger" /\ Next /\ UNCHANGED <<part, DurableVars, SiteVars, QueueVars, ProjectionVars>>
    \/ part = "durable" /\ Durable!Next /\ UNCHANGED <<part, vars, SiteVars, QueueVars, ProjectionVars>>
    \/ part = "issuance" /\ Site!Next /\ UNCHANGED <<part, vars, DurableVars, QueueVars, ProjectionVars>>
    \/ part = "queue" /\ Queue!Next /\ UNCHANGED <<part, vars, DurableVars, SiteVars, ProjectionVars>>
    \/ part = "projection" /\ Projection!Next /\ UNCHANGED <<part, vars, DurableVars, SiteVars, QueueVars>>

PackSpec == PackInit /\ [][PackNext]_All

(* The fairness of every part.  Where a module's fair actions are enabled   *)
(* in its initial state, they are only fair in behaviours of that part.     *)
PackFairness ==
    /\ Fairness /\ Durable!Fairness /\ Site!Fairness /\ Queue!Fairness
    /\ WF_ProjectionVars(part = "projection" /\ Projection!PassStep(c1))
LiveSpec == PackSpec /\ PackFairness

(* What is at work in each part, and what it has to come to.                *)
AtWork ==
    \/ part = "ledger" /\ (phase = "starting" \/ job[h1].pc # "idle")
    \/ part = "durable" /\ run[r1].pc # "idle"
    \/ part = "issuance" /\ call[c2].pc # "idle"
    \/ part = "queue" /\ queueCall[c4].at = "queued"
Over ==
    \/ part = "ledger" /\ phase # "starting" /\ job[h1].pc = "idle"
    \/ part = "durable" /\ Durable!Over(r1)
    \/ part = "issuance" /\ call[c2].pc = "idle"
    \/ part = "queue" /\ queueCall[c4].at # "queued"

(* What was started ends.  Start-up serves or stops and an assessment       *)
(* settles (onlineIntegration.ts), a run ends by its deadline               *)
(* (assessmentWorker.ts), an authorization is answered (service.ts), and    *)
(* no background call starves (pulse-sepolia.mjs).                          *)
WorkEnds == AtWork ~> Over

(* What was paid for is prepared for minting, unless something failed, a    *)
(* projection catches up with a chain that has stopped changing, and what   *)
(* the durable runs spend stays within the exposure of the policy all along *)
(* (onlineIntegration.ts, projection.ts, repository.ts).                    *)
PromisesAreKept ==
    /\ AcceptedIsPrepared
    /\ [](part = "durable" => Durable!SpentWithinExposure)
    /\ part = "projection" => Projection!CatchesUp

ASSUME Queue!QueueAssumption
==============================================================================
