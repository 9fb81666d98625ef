-------------------------- MODULE MCPulseOperation ---------------------------
(***************************************************************************)
(* Operating the Sepolia test site, for TLC.  A behaviour is of the        *)
(* command-line operators: two run directories of one wallet with crashes  *)
(* and forgetful nodes ("journal"), or configurations beside the admin     *)
(* page ("configure"); of the admin page: competing intents, on a chain    *)
(* that reorganizes ("reorgs") or not ("competing"), configurations among  *)
(* mints ("policy"), or reports through crashes and lost answers           *)
(* ("reports"); or of the relay: two observing passes ("observe"),         *)
(* receipts ahead of them ("receipts"), restarts over contradicted         *)
(* finality ("restart"), or the owner index ("owners").  They share no     *)
(* state.                                                                  *)
(***************************************************************************)
EXTENDS PulseOperator, TLC

CONSTANTS
    p1, p2, p3, a, b, None

VARIABLE part    \* which of them this behaviour is of
VARIABLES
    cliChain, cliReorgs, cliPool, cliDisk, cliLock, cliFile, cliProc
VARIABLES
    adminChain, branch, rows, reviews, checkpoint, adminFile, job, page,
    asked, rejected, broadcast
VARIABLES
    relayChain, final, rewritten, relayReorgs, snapshot, history, error,
    early, tried, start, observer, fast, blocked, halted, owners, scan,
    ownersHalted, store, storeOwners, saved, haltFile

ProcSymmetry == Permutations({p1, p2})

Cli == INSTANCE PulseOperator WITH
    Procs <- {p3}, Journals <- {"rc2"}, Lists <- {a, b}, FirstList <- a,
    MaxNonce <- 4, MaxCost <- 2, Budget <- 6, MaxReorgs <- 0,
    Uses <- {"web", "lost", "drop"}, chain <- cliChain, reorgs <- cliReorgs,
    pool <- cliPool, disk <- cliDisk, lock <- cliLock, file <- cliFile,
    proc <- cliProc
Admin == INSTANCE PulseAdmin WITH
    Lists <- {a, b}, FirstList <- a, MaxIntents <- 3, MaxRows <- 2,
    MaxReviews <- 1, MaxHead <- 3, MaxReorgs <- 1, Uses <- {"late", "tab"},
    chain <- adminChain, file <- adminFile
Competing == INSTANCE PulseAdmin WITH
    Lists <- {a, b}, FirstList <- a, MaxIntents <- 3, MaxRows <- 2,
    MaxReviews <- 1, MaxHead <- 3, MaxReorgs <- 0, Uses <- {"late", "tab"},
    chain <- adminChain, file <- adminFile
Policies == INSTANCE PulseAdmin WITH
    Lists <- {a, b}, FirstList <- a, MaxIntents <- 2, MaxRows <- 2,
    MaxReviews <- 1, MaxHead <- 3, MaxReorgs <- 0,
    Uses <- {"configure", "elsewhere", "mint", "deadline", "late"},
    chain <- adminChain, file <- adminFile
Reports == INSTANCE PulseAdmin WITH
    Lists <- {a, b}, FirstList <- a, MaxIntents <- 2, MaxRows <- 2,
    MaxReviews <- 1, MaxHead <- 2, MaxReorgs <- 0,
    Uses <- {"configure", "late", "tab", "crash", "lost", "typo"},
    chain <- adminChain, file <- adminFile
Relay == INSTANCE PulseRelay WITH
    MaxHeight <- 2, MaxReorgs <- 1, UseStore <- TRUE, Uses <- {"fast", "gap"},
    chain <- relayChain, reorgs <- relayReorgs
Receipts == INSTANCE PulseRelay WITH
    MaxHeight <- 3, MaxReorgs <- 1, UseStore <- TRUE, Uses <- {"receipt"},
    chain <- relayChain, reorgs <- relayReorgs
Restarts == INSTANCE PulseRelay WITH
    MaxHeight <- 2, MaxReorgs <- 0, UseStore <- TRUE,
    Uses <- {"rewrite", "restart"}, chain <- relayChain, reorgs <- relayReorgs
Owned == INSTANCE PulseRelay WITH
    MaxHeight <- 2, MaxReorgs <- 1, UseStore <- FALSE, Uses <- {"owner"},
    chain <- relayChain, reorgs <- relayReorgs

CliVars ==
    <<cliChain, cliReorgs, cliPool, cliDisk, cliLock, cliFile, cliProc>>
AdminVars ==
    <<adminChain, branch, rows, reviews, checkpoint, adminFile, job, page,
      asked, rejected, broadcast>>
RelayVars ==
    <<relayChain, final, rewritten, relayReorgs, snapshot, history, error,
      early, tried, start, observer, fast, blocked, halted, owners, scan,
      ownersHalted, store, storeOwners, saved, haltFile>>

All == <<part, vars, CliVars, AdminVars, RelayVars>>

PackInit ==
    /\ part \in {"journal", "configure", "reorgs", "competing", "policy", "reports", "observe", "receipts", "restart", "owners"}
    /\ Init
    /\ Cli!Init
    /\ Admin!Init
    /\ Relay!Init

PackNext ==
    \/ part = "journal" /\ Next /\ UNCHANGED <<part, CliVars, AdminVars, RelayVars>>
    \/ part = "configure" /\ Cli!Next /\ UNCHANGED <<part, vars, AdminVars, RelayVars>>
    \/ part = "reorgs" /\ Admin!Next /\ UNCHANGED <<part, vars, CliVars, RelayVars>>
    \/ part = "competing" /\ Competing!Next /\ UNCHANGED <<part, vars, CliVars, RelayVars>>
    \/ part = "policy" /\ Policies!Next /\ UNCHANGED <<part, vars, CliVars, RelayVars>>
    \/ part = "reports" /\ Reports!Next /\ UNCHANGED <<part, vars, CliVars, RelayVars>>
    \/ part = "observe" /\ Relay!Next /\ UNCHANGED <<part, vars, CliVars, AdminVars>>
    \/ part = "receipts" /\ Receipts!Next /\ UNCHANGED <<part, vars, CliVars, AdminVars>>
    \/ part = "restart" /\ Restarts!Next /\ UNCHANGED <<part, vars, CliVars, AdminVars>>
    \/ part = "owners" /\ Owned!Next /\ UNCHANGED <<part, vars, CliVars, AdminVars>>

PackSpec == PackInit /\ [][PackNext]_All

(* Whatever a node knows of a journal is a row on disk, one transaction per *)
(* step, in its place, within the budget and as recorded; a configuration   *)
(* replaces the policy it was reviewed against and takes no claimed slot;   *)
(* no request is stranded and the journal knows what a wallet may still     *)
(* execute (pulse-sepolia.mjs, pulse-sepolia-admin-web-service.mjs).        *)
OperationHolds ==
    /\ part = "journal" => SignedIsDurable /\ OneTransactionPerStep /\ PlannedPlace /\ BudgetHolds
    /\ part = "configure" =>
          /\ Cli!SignedIsDurable /\ Cli!OneTransactionPerStep
          /\ Cli!AppliesAsRecorded /\ Cli!BudgetHolds
    /\ part = "reorgs" => Admin!NoneStranded
    /\ part = "competing" => Competing!NoneStranded /\ Competing!ExecutableIsRemembered
    /\ part = "policy" =>
          /\ Policies!ReplacesWhatWasReviewed /\ Policies!ClaimedSlotStays
          /\ Policies!NoneStranded /\ Policies!ExecutableIsRemembered
    /\ part = "reports" => Reports!ExecutableIsRemembered

(* An observation has the works of the history it names, what is shown as   *)
(* minted is final, a halt answers contradicted finality and nothing less,  *)
(* and owners are those of the chain (pulse-sepolia-site.mjs,               *)
(* pulse-sepolia-ownership.mjs).                                            *)
RelayHolds ==
    /\ part = "observe" => Relay!ViewIsTheChain /\ Relay!HaltIsGenuine
    /\ part = "receipts" => Receipts!ShownAsMintedIsFinal
    /\ part = "restart" => Restarts!ShownAsMintedIsFinal /\ Restarts!HaltIsGenuine
    /\ part = "owners" => Owned!OwnersAreTheChain

(* No signed row is lost or replaced; nothing is prepared or settled over a *)
(* settled transaction that left the chain, the allowlist file only moves   *)
(* forward, and what was reported is not abandoned; finalized works stay    *)
(* in the database, and a halt survives a restart.                          *)
OperationMoves ==
    /\ RowsStand /\ Cli!RowsStand
    /\ [][part = "reorgs" => Admin!SettlesOverSettled]_AdminVars
    /\ Reports!FilesMoveForward /\ Reports!ReportedIsNotAbandoned
    /\ Restarts!FinalizedIsKept /\ Restarts!HaltSurvives

ASSUME Cli!OperatorAssumption /\ Admin!AdminAssumption
==============================================================================
