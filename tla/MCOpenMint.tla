----------------------------- MODULE MCOpenMint ------------------------------
(***************************************************************************)
(* What surrounds the open mint's ledger and its issuance, for TLC: a      *)
(* behaviour is of the contract ("contract"), of the database connection   *)
(* with the lock on the one writer ("writer"), of wallet submissions from  *)
(* two tabs ("wallet"), of a paid effect behind the admission gate         *)
(* ("gate"), or of the projection of the chain that pages read: one        *)
(* coordinator and its readers ("reads"), one on a longer chain ("chain"), *)
(* or two at once ("replicas").  They share no state.                      *)
(***************************************************************************)
EXTENDS OpenSignatures, TLC

CONSTANTS
    h1, h2, w1, w2, n1, n2, k1, k2, o1, o2, t1, t2, t3, NoOwner, r1, x1, x2,
    x3, c1
CONSTANTS
    Owners, Transactions, OwnerOf,                       \* of ExclusiveWriter
    Requests, Tabs, PageOf, MaxAttempts, MaxNonce, MaxLies, MaxReloads,
    Tokens, Executions, TokenOf, Paid, Ttl, GateTime, MaxEpoch

VARIABLE part    \* which of them this behaviour is of
VARIABLES
    epoch, holder, row, session, link, client, known, failure, closing, queue,
    tx, durable
VARIABLES
    plan, dispatch, fresh, expired, tab, stored, prompts, sent, lies, pending,
    mined, reloads
VARIABLES
    now, reviewed, halted, healthy, gateEpoch, fence, permit, run, called
VARIABLES
    chain, final, reorgs, deep, proj, promoted, mint, own, health, poll, pass,
    witness, failures, reader, shown

TabSymmetry == Permutations({t1, t2})

TwoOwners == (x1 :> o1) @@ (x2 :> o1) @@ (x3 :> o2)
OnePage == (t1 :> r1) @@ (t2 :> r1)
TwoTokens == (x1 :> k1) @@ (x2 :> k1) @@ (x3 :> k2)

Writer == INSTANCE ExclusiveWriter WITH Work <- Transactions
Wallet == INSTANCE WalletSubmission
Gate == INSTANCE AdmissionGate WITH MaxTime <- GateTime, epoch <- gateEpoch
Page == INSTANCE ChainProjection WITH
    Coordinators <- {c1}, Rollback <- 1, Batch <- 2, MaxHeight <- 2,
    MaxReorgs <- 2, MaxFailures <- 0, MaxStops <- 1, Reads <- TRUE,
    DeepReorg <- TRUE
Tall == INSTANCE ChainProjection WITH
    Coordinators <- {c1}, Rollback <- 2, Batch <- 2, MaxHeight <- 3,
    MaxReorgs <- 1, MaxFailures <- 1, MaxStops <- 0, Reads <- FALSE,
    DeepReorg <- TRUE
Twins == INSTANCE ChainProjection WITH
    Coordinators <- {t1, t2}, Rollback <- 1, Batch <- 2, MaxHeight <- 2,
    MaxReorgs <- 1, MaxFailures <- 0, MaxStops <- 0, Reads <- FALSE,
    DeepReorg <- TRUE

WriterVars ==
    <<epoch, holder, row, session, link, client, known, failure, closing,
      queue, tx, durable>>
WalletVars ==
    <<plan, dispatch, fresh, expired, tab, stored, prompts, sent, lies,
      pending, mined, reloads>>
GateVars ==
    <<now, reviewed, halted, healthy, gateEpoch, fence, permit, run, called>>
PageVars ==
    <<chain, final, reorgs, deep, proj, promoted, mint, own, health, poll,
      pass, witness, failures, reader, shown>>

All == <<part, vars, WriterVars, WalletVars, GateVars, PageVars>>

PackInit ==
    /\ part \in {"contract", "writer", "wallet", "gate", "reads", "chain", "replicas"}
    /\ Init
    /\ Writer!Init
    /\ Wallet!Init
    /\ Gate!Init
    /\ \/ part \notin {"chain", "replicas"} /\ Page!Init
       \/ part = "chain" /\ Tall!Init
       \/ part = "replicas" /\ Twins!Init

PackNext ==
    \/ part = "contract" /\ Next /\ UNCHANGED <<part, WriterVars, WalletVars, GateVars, PageVars>>
    \/ part = "writer" /\ Writer!Next /\ UNCHANGED <<part, vars, WalletVars, GateVars, PageVars>>
    \/ part = "wallet" /\ Wallet!Next /\ UNCHANGED <<part, vars, WriterVars, GateVars, PageVars>>
    \/ part = "gate" /\ Gate!Next /\ UNCHANGED <<part, vars, WriterVars, WalletVars, PageVars>>
    \/ part = "reads" /\ Page!Next /\ UNCHANGED <<part, vars, WriterVars, WalletVars, GateVars>>
    \/ part = "chain" /\ Tall!Next /\ UNCHANGED <<part, vars, WriterVars, WalletVars, GateVars>>
    \/ part = "replicas" /\ Twins!Next /\ UNCHANGED <<part, vars, WriterVars, WalletVars, GateVars>>

PackSpec == PackInit /\ [][PackNext]_All

(* What leaves the service leaves once and is answered truly: what the      *)
(* writer reports committed is durable and what it reports rejected never   *)
(* becomes so; a wallet is asked again only after a rejection, with the     *)
(* same nonce; and a paid effect happens at most once, and whoever is told  *)
(* that nothing was started is told the truth, then and ever after          *)
(* (writer.ts, walletSubmissions.ts, admission.ts).                         *)
EffectsHold ==
    /\ part = "writer" => Writer!AnswersAreTrue /\ Writer!NotDisplaced
    /\ part = "wallet" =>
          /\ Wallet!SentOncePerRejection /\ Wallet!OneNoncePerRequest
          /\ Wallet!RejectedIsUnsent /\ Wallet!TabRemembers
    /\ part = "gate" => Gate!CalledOnce /\ Gate!HonestRefusal /\ Gate!OneExecutionPerPermit

(* The tables are those of the projected chain; what a page is shown is one *)
(* observed chain, and confirmed only when it stays; what is promoted is    *)
(* never taken back, and after a safety halt nothing is written             *)
(* (coordinator.ts, postgres.ts, artwork.ts).                               *)
ProjectionHolds ==
    /\ [](part \in {"reads", "chain", "replicas"} =>
              /\ Page!TablesMatchChain /\ Page!PromotedWasFinal
              /\ Page!AnswersAreObserved /\ Page!ConfirmedStays
              /\ part = "reads" => Page!NoLateAuthority)
    /\ Page!PromotedGrows /\ Page!HaltIsFinal

(* A fenced-off writer writes nothing behind its successor; a report of a   *)
(* wallet stands; and a paid call is made, and its result given out, under  *)
(* a review that is current then (writer.ts, walletSubmissions.ts,          *)
(* admission.ts).                                                           *)
NothingBehindAFence ==
    /\ Writer!NothingAfterSuccessor /\ Wallet!ReportsStand
    /\ Gate!CurrentAtCall /\ Gate!ResultsReviewed

ASSUME PackAssumption ==
    /\ Gate!GateAssumption /\ Writer!OwnerAssumption /\ Wallet!WalletAssumption
ASSUME Page!ProjectionAssumption /\ Tall!ProjectionAssumption /\ Twins!ProjectionAssumption
==============================================================================
