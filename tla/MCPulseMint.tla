----------------------------- MODULE MCPulseMint -----------------------------
(***************************************************************************)
(* Minting at the Sepolia test site, for TLC.  A behaviour is of the site: *)
(* two handles with failing writes and crashes ("faults"), or two wallets  *)
(* that contend for one handle across reorganizations and changing         *)
(* sessions ("contended"); of the page: failing storage, a lossy network   *)
(* and reloads ("storage"), late answers and another tab ("lock"), the     *)
(* same with reorganizations ("reorg"), or the mints of two handles that   *)
(* are in progress at once after a return from the back/forward cache      *)
(* ("overlap"); of the read queue ("queue"); or of two read lanes over two *)
(* sources ("lanes").  They share no state.                                *)
(***************************************************************************)
EXTENDS PulseSite, TLC

CONSTANTS
    h1, h2, h3, w1, w2, c1, c2, c3, c4, c5

VARIABLE part    \* which of them this behaviour is of
VARIABLES
    otherHead, otherFinal, otherMined, otherAttempts, otherReleased, otherMem,
    otherDisk, otherSite, otherLock, otherRecord, otherJob, otherSends
VARIABLES
    row, pageChain, over, sent, proof, stored, cache, revealRef, doc, timer,
    stray, polls, recovery, flows, mine, seen, displaced
VARIABLES
    queues, active, burst, spaced, call
VARIABLES
    agrees, valid, cooling, flight, conflict, pass, lane, started, kept

HandleSymmetry == Permutations({h1, h2})

CallerLanes ==
    [c \in {c1, c2, c3, c4, c5} |-> IF c \in {c4, c5} THEN "background" ELSE "action"]

Contended == INSTANCE PulseSite WITH
    Handles <- {h3}, Wallets <- {w1, w2}, MaxAttempts <- 3, MaxBlock <- 6,
    Window <- 2, FreeDeadline <- 4, MaxRequests <- 1,
    Faults <- {"reorg", "session"}, head <- otherHead, final <- otherFinal,
    mined <- otherMined, attempts <- otherAttempts, released <- otherReleased,
    mem <- otherMem, disk <- otherDisk, site <- otherSite, lock <- otherLock,
    record <- otherRecord, job <- otherJob, sends <- otherSends
Page == INSTANCE PulseBrowser WITH
    Handles <- {h3}, Wallets <- {w1}, MaxIds <- 2, MaxPolls <- 1, MaxFlows <- 1,
    Faults <- {"storage", "network", "reload", "return", "switch"}, chain <- pageChain
Tabs == INSTANCE PulseBrowser WITH
    Handles <- {h3}, Wallets <- {w1}, MaxIds <- 2, MaxPolls <- 2, MaxFlows <- 1,
    Faults <- {"elsewhere"}, chain <- pageChain
Reorganized == INSTANCE PulseBrowser WITH
    Handles <- {h3}, Wallets <- {w1}, MaxIds <- 2, MaxPolls <- 1, MaxFlows <- 1,
    Faults <- {"elsewhere", "reorg"}, chain <- pageChain
Overlap == INSTANCE PulseBrowser WITH
    Handles <- {h1, h2}, Wallets <- {w1}, MaxIds <- 2, MaxPolls <- 1, MaxFlows <- 2,
    Faults <- {"return"}, chain <- pageChain
Queue == INSTANCE PulseQueue WITH
    Callers <- {c1, c2, c3, c4, c5}, Lane <- CallerLanes, Sends <- {c1},
    MaxActive <- 2, MaxBurst <- 4, Limit <- 4
Recovering == INSTANCE PulseReads WITH
    Lanes <- {h1, h2}, Answers <- {"value", "gone", "conflict"}

ContendedVars ==
    <<otherHead, otherFinal, otherMined, otherAttempts, otherReleased,
      otherMem, otherDisk, otherSite, otherLock, otherRecord, otherJob,
      otherSends>>
PageVars ==
    <<row, pageChain, over, sent, proof, stored, cache, revealRef, doc, timer,
      stray, polls, recovery, flows, mine, seen, displaced>>
QueueVars ==
    <<queues, active, burst, spaced, call>>
RecoveringVars ==
    <<agrees, valid, cooling, flight, conflict, pass, lane, started, kept>>

\* Of two mints at once: no receipt fails or is final, no deadline passes, and no
\* recovery is asked.
Short ==
    /\ recovery = Overlap!NoRecovery /\ over = {}
    /\ \A i \in {1, 2} : pageChain[i] \in {"none", "confirming"}

All == <<part, vars, ContendedVars, PageVars, QueueVars, RecoveringVars>>

PackInit ==
    /\ part \in {"faults", "contended", "storage", "lock", "reorg", "overlap", "queue", "lanes"}
    /\ Init
    /\ Contended!Init
    /\ \/ part \notin {"lock", "reorg", "overlap"} /\ Page!Init
       \/ part = "lock" /\ Tabs!Init
       \/ part = "reorg" /\ Reorganized!Init
       \/ part = "overlap" /\ Overlap!Init
    /\ Queue!Init
    /\ Recovering!Init
    /\ part \notin {"lanes"} => agrees = [s \in Recovering!Both |-> TRUE]

PackNext ==
    \/ part = "faults" /\ Next /\ UNCHANGED <<part, ContendedVars, PageVars, QueueVars, RecoveringVars>>
    \/ part = "contended" /\ Contended!Next /\ UNCHANGED <<part, vars, PageVars, QueueVars, RecoveringVars>>
    \/ part = "storage" /\ Page!Next /\ UNCHANGED <<part, vars, ContendedVars, QueueVars, RecoveringVars>>
    \/ part = "lock" /\ Tabs!Next /\ UNCHANGED <<part, vars, ContendedVars, QueueVars, RecoveringVars>>
    \/ part = "reorg" /\ Reorganized!Next
       /\ UNCHANGED <<part, vars, ContendedVars, QueueVars, RecoveringVars>>
    \/ part = "overlap" /\ Overlap!Next /\ Short'
       /\ UNCHANGED <<part, vars, ContendedVars, QueueVars, RecoveringVars>>
    \/ part = "queue" /\ Queue!Next /\ UNCHANGED <<part, vars, ContendedVars, PageVars, RecoveringVars>>
    \/ part = "lanes" /\ Recovering!Next /\ UNCHANGED <<part, vars, ContendedVars, PageVars, QueueVars>>

PackSpec == PackInit /\ [][PackNext]_All

(* Nothing is minted twice or resent when wallets contend; the page opens   *)
(* no second submission over one it cannot account for, finds what it sent  *)
(* after a reload, unless the mint of another handle dropped the reference, *)
(* and asks a wallet for nothing twice; a signed transaction is handed over *)
(* once, the queue is what waits, and no lane keeps what came late          *)
(* (pulse-sepolia.mjs, pulse-sepolia-client.mjs,                            *)
(* pulse-sepolia-recovery.mjs).                                             *)
PagesHold ==
    /\ part = "contended" => Contended!OneLiveAttempt /\ Contended!ExpiredNeverMints /\ Contended!SentOnce
    /\ part = "storage" => Page!LockHeld /\ Page!SentIsRemembered /\ Page!NeverResent
    /\ part = "lock" => Tabs!LockHeld /\ Tabs!NeverResent
    /\ part = "reorg" => Reorganized!LockHeld /\ Reorganized!NeverResent
    /\ part = "overlap" => Overlap!LockHeld /\ Overlap!SentIsRemembered /\ Overlap!NeverResent
    /\ part = "queue" => Queue!SentOncePerCall /\ Queue!QueueIsTheWaiting
    /\ part = "lanes" => Recovering!NoOverlap /\ Recovering!LateNeverCommits

(* No read returns a value once contradictory evidence is latched, and none *)
(* starts at a source of another deployment (pulse-sepolia-rpc.mjs).        *)
ReadsMove == Recovering!NothingAfterConflict /\ Recovering!ReadsTheExpected

ASSUME Queue!QueueAssumption
==============================================================================
