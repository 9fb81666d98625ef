--------------------------- MODULE ChainProjection ---------------------------
(***************************************************************************)
(* The projection of the mint contract in PostgreSQL (openMint/projection/ *)
(* postgres.ts), the passes that observe the chain and apply what they saw *)
(* (observer.ts, coordinator.ts), the poller that runs them (poller.ts),   *)
(* and a reader.                                                           *)
(*                                                                         *)
(* A chain is the sequence of what its blocks do to one token; the hash of *)
(* a block is the chain up to it, so two blocks are the same one exactly   *)
(* when their whole histories agree.  Block 1 is the deployment block.     *)
(* Blocks after the finalized one may be replaced; a chain that replaces a *)
(* finalized block is the fault the projection halts for.                  *)
(*                                                                         *)
(* Left out: decoding and the agreement of the two RPC sources (an         *)
(* observation is one consistent view or fails), pages of the gallery, and *)
(* the availability of artifacts.  Evidence expires when it likes.         *)
(***************************************************************************)
EXTENDS Integers, Sequences, FiniteSets, SequencesExt

CONSTANTS
    Coordinators,
    Rollback,       \* policy.rollbackBlocks
    Batch,          \* MAX_BATCH_BLOCKS
    MaxHeight,      \* bound of the model: blocks
    MaxReorgs,      \* bound of the model: reorganisations
    MaxFailures,    \* bound of the model: failed passes
    MaxStops,       \* bound of the model: coordinators that are stopped
    Reads,          \* bound of the model: whether anything is read
    DeepReorg       \* whether a finalized block may be replaced once

\* Something can be rolled back, and a pass reads more than one block.
ProjectionAssumption ==
    /\ Rollback \in Nat \ {0} /\ Batch \in Nat \ {0, 1}
    /\ {MaxHeight, MaxReorgs, MaxFailures, MaxStops} \subseteq Nat /\ {Reads, DeepReorg} \subseteq BOOLEAN

VARIABLES
    chain, final, reorgs, deep,
    proj,       \* canonical projection_blocks
    promoted,   \* promoted_number and promoted_hash, as a chain
    mint,       \* projection_mints: the block of the mint, 0 if there is none
    own,        \* projection_ownership: sequence of [owner, start, end], 0 for an open end
    health,     \* "available", "unknown", "safety-halted"
    poll,       \* [Coordinators -> state of the poller]
    pass,       \* [Coordinators -> the pass in progress]
    witness,    \* [Coordinators -> evidence that grants reads, or NoEvidence]
    failures,
    reader,     \* the read in progress
    shown       \* the last answer a reader was given
world == <<chain, final, reorgs, deep>>
store == <<proj, promoted, mint, own, health>>
vars == <<world, store, poll, pass, witness, failures, reader, shown>>

Contents == {"none", "mint", "move"}
Owner(content) == IF content = "mint" THEN "minter" ELSE "buyer"
NoEvidence == [head |-> <<>>, from |-> 0, end |-> 0, halt |-> FALSE, promote |-> 0, cursor |-> <<>>, valid |-> FALSE]
NoPass == [pc |-> "idle", withdrawn |-> FALSE, cursor |-> <<>>, seen |-> NoEvidence]
NoAnswer == [state |-> "unknown", owner |-> "nobody", head |-> <<>>, promoted |-> <<>>]
NoRead == [pc |-> "idle", c |-> "none", granted |-> FALSE, seen |-> NoEvidence, answer |-> NoAnswer]
Upto(s, n) == SubSeq(s, 1, n)
Least(S) == CHOOSE x \in S : \A y \in S : x <= y
Greatest(S) == CHOOSE x \in S : \A y \in S : x >= y

Init ==
    /\ chain = <<"none">> /\ final = 0 /\ reorgs = 0 /\ deep = FALSE
    /\ proj = <<>> /\ promoted = <<>> /\ mint = 0 /\ own = <<>> /\ health = "unknown"
    /\ poll = [c \in Coordinators |-> "waiting"] /\ pass = [c \in Coordinators |-> NoPass]
    /\ witness = [c \in Coordinators |-> NoEvidence]
    /\ failures = 0 /\ reader = NoRead /\ shown = NoAnswer

-----------------------------------------------------------------------------
\* The chain.

Minted(s) == "mint" \in Range(s)
Extends(s, x) == (x = "mint" => ~Minted(s)) /\ (x = "move" => Minted(s))
Grow ==
    /\ Len(chain) < MaxHeight
    /\ \E x \in Contents : Extends(chain, x) /\ chain' = Append(chain, x)
    /\ UNCHANGED <<final, reorgs, deep, store, poll, pass, witness, failures, reader, shown>>
Finalize ==
    /\ final < Len(chain) /\ final' = final + 1
    /\ UNCHANGED <<chain, reorgs, deep, store, poll, pass, witness, failures, reader, shown>>
\* Another block n, and nothing after it yet.
Reorganize(n) ==
    /\ reorgs < MaxReorgs /\ reorgs' = reorgs + 1 /\ n \in 2..Len(chain)
    /\ n > final \/ (DeepReorg /\ ~deep)
    /\ deep' = (deep \/ n <= final)
    /\ \E x \in Contents \ {chain[n]} : Extends(Upto(chain, n - 1), x) /\ chain' = Append(Upto(chain, n - 1), x)
    /\ final' = IF n <= final THEN n - 1 ELSE final
    /\ UNCHANGED <<store, poll, pass, witness, failures, reader, shown>>

-----------------------------------------------------------------------------
\* A pass: read the cursor, observe, apply, publish the witness.

\* A new generation: no witness, and no read that captured one is believed.
Withdraw(c) ==
    /\ witness' = [witness EXCEPT ![c] = NoEvidence]
    /\ reader' = IF reader.c = c THEN [reader EXCEPT !.granted = FALSE] ELSE reader

Halted == health = "safety-halted"
Cursor == <<proj, promoted>>
Start(c) ==
    /\ poll[c] = "waiting" /\ pass[c].pc = "idle"
    /\ Withdraw(c)
    /\ IF Halted
       THEN poll' = [poll EXCEPT ![c] = "ended"] /\ UNCHANGED pass
       ELSE /\ poll' = [poll EXCEPT ![c] = "running"]
            /\ pass' = [pass EXCEPT ![c] = [NoPass EXCEPT !.pc = "observe", !.cursor = Cursor]]
    /\ UNCHANGED <<world, store, failures, shown>>

\* What two agreeing sources show.
From(ancestor, saved) == ancestor + (IF ancestor = Len(saved) THEN 0 ELSE 1)
Ancestors(saved) ==
    {n \in 1..Len(saved) : n >= Len(saved) - Rollback /\ Upto(saved, n) = Upto(chain, n)}
Promotable(end) == Least({final, end})
Evidence(c) ==
    LET saved == pass[c].cursor[1]
        pinned == pass[c].cursor[2]
        halt == \/ pinned # Upto(chain, Len(pinned))
                \/ saved # <<>> /\ Ancestors(saved) = {}
        from == IF saved = <<>> THEN 1 ELSE From(Greatest(Ancestors(saved)), saved)
        end == Least({from + Batch - 1, Len(chain)}) IN
    IF halt THEN [NoEvidence EXCEPT !.head = chain, !.halt = TRUE, !.cursor = pass[c].cursor, !.valid = TRUE]
    ELSE [head |-> chain, from |-> from, end |-> end, halt |-> FALSE,
          promote |-> Promotable(end), cursor |-> pass[c].cursor, valid |-> TRUE]
Observe(c) ==
    /\ pass[c].pc = "observe"
    /\ Len(pass[c].cursor[1]) <= Len(chain) /\ Len(pass[c].cursor[2]) <= final
    /\ pass' = [pass EXCEPT ![c].pc = "apply", ![c].seen = Evidence(c)]
    /\ UNCHANGED <<world, store, poll, witness, failures, reader, shown>>

\* The rows of mints and owners after block n was added.
WithBlock(rows, n, x) ==
    CASE x = "none" -> rows
      [] x = "mint" -> [mint |-> n, own |-> Append(rows.own, [owner |-> Owner(x), start |-> n, end |-> 0])]
      [] x = "move" -> [rows EXCEPT !.own = Append([rows.own EXCEPT ![Len(rows.own)].end = n],
                                                   [owner |-> Owner(x), start |-> n, end |-> 0])]
BadRolledBack(n) ==         \* slip: an owner whose end is undone stays closed
    [mint |-> IF mint > n THEN 0 ELSE mint, own |-> SelectSeq(own, LAMBDA o : o.start <= n)]
\* The rows with everything above block n undone.
RolledBack(n) ==
    LET kept == SelectSeq(own, LAMBDA o : o.start <= n) IN
    [mint |-> IF mint > n THEN 0 ELSE mint,
     own |-> [i \in DOMAIN kept |-> IF kept[i].end > n THEN [kept[i] EXCEPT !.end = 0] ELSE kept[i]]]
Replaced(e) == {n \in e.from..e.end : n <= Len(proj) /\ Upto(proj, n) # Upto(e.head, n)}
Reversible(n) == n > Len(promoted) /\ Len(proj) - n + 1 <= Rollback
Halt == health' = "safety-halted" /\ UNCHANGED <<proj, promoted, mint, own>>
Promote(n) == IF n >= 1 THEN promoted' = Upto(proj', n) ELSE UNCHANGED promoted
\* append() and promote() in the transaction that checked the cursor and the evidence.
AppendBatch(e) ==
    LET R == Replaced(e)
        base == IF R # {} THEN Least(R) - 1 ELSE Len(proj)
        rows == IF R # {} THEN RolledBack(base) ELSE [mint |-> mint, own |-> own]
        added == [i \in 1..(IF e.end > base THEN e.end - base ELSE 0) |-> base + i]
        next == FoldLeft(LAMBDA r, n : WithBlock(r, n, e.head[n]), rows, added) IN
    /\ proj' = IF e.end > base THEN Upto(e.head, e.end) ELSE proj
    /\ mint' = next.mint /\ own' = next.own
    /\ health' = "available"
    /\ Promote(e.promote)
Applicable(e) == e.valid /\ e.cursor = Cursor
Effect(e) ==
    IF e.halt \/ \E n \in Replaced(e) : ~Reversible(Least(Replaced(e))) THEN Halt ELSE AppendBatch(e)
Apply(c) ==
    LET e == pass[c].seen IN
    /\ pass[c].pc = "apply" /\ ~pass[c].withdrawn /\ Applicable(e)
    /\ IF Halted THEN UNCHANGED store ELSE Effect(e)
    /\ pass' = [pass EXCEPT ![c].pc = IF health' = "safety-halted" THEN "halted" ELSE "publish"]
    /\ UNCHANGED <<world, poll, witness, failures, reader, shown>>

CurrentPass(c) == ~pass[c].withdrawn
BadWait(c) == UNCHANGED poll     \* slip: no timer is set after a failed pass
Wait(c) == IF poll[c] = "running" THEN poll' = [poll EXCEPT ![c] = "waiting"] ELSE UNCHANGED poll
Publish(c) ==
    /\ pass[c].pc = "publish"
    /\ witness' = IF CurrentPass(c) THEN [witness EXCEPT ![c] = pass[c].seen] ELSE witness
    /\ Wait(c) /\ pass' = [pass EXCEPT ![c] = NoPass]
    /\ UNCHANGED <<world, store, failures, reader, shown>>
\* finish(): the poller ends for good.
EndHalted(c) ==
    /\ pass[c].pc = "halted" /\ pass' = [pass EXCEPT ![c] = NoPass]
    /\ poll' = [poll EXCEPT ![c] = "ended"]
    /\ IF poll[c] = "ended" THEN UNCHANGED <<witness, reader>> ELSE Withdraw(c)
    /\ UNCHANGED <<world, store, failures, shown>>
\* Any failure of a pass marks the saved state as unknown.
Unavailable(c) ==
    /\ health' = IF Halted THEN health ELSE "unknown"
    /\ Wait(c) /\ pass' = [pass EXCEPT ![c] = NoPass]
    /\ UNCHANGED <<world, proj, promoted, mint, own, witness, reader, shown>>
Fail(c) ==
    /\ pass[c].pc \in {"observe", "apply"}
    /\ failures < MaxFailures /\ failures' = failures + 1 /\ Unavailable(c)
Refused(c) ==
    /\ pass[c].pc = "apply" /\ (pass[c].withdrawn \/ ~Applicable(pass[c].seen))
    /\ UNCHANGED failures /\ Unavailable(c)
\* stop(), a drain, or the deadline of a pass that hangs.
Stop(c) ==
    /\ Cardinality({d \in Coordinators : poll[d] = "ended"}) < MaxStops
    /\ poll[c] # "ended" /\ poll' = [poll EXCEPT ![c] = "ended"]
    /\ pass' = [pass EXCEPT ![c].withdrawn = pass[c].pc # "idle"] /\ Withdraw(c)
    /\ UNCHANGED <<world, store, failures, shown>>
\* The evidence of a witness outlives its validity.
Expire(c) ==
    /\ Reads /\ witness[c].valid /\ witness' = [witness EXCEPT ![c].valid = FALSE]
    /\ UNCHANGED <<world, store, poll, pass, failures, reader, shown>>

-----------------------------------------------------------------------------
\* lookup(): the witness is captured, checked in the transaction, and checked again.

OwnerAt(n) ==
    LET at == {i \in DOMAIN own : own[i].start <= n /\ (own[i].end = 0 \/ own[i].end > n)} IN
    IF at = {} THEN "nobody" ELSE own[CHOOSE i \in at : TRUE].owner
Fresh(e) ==
    /\ e.valid /\ ~e.halt /\ e.end = Len(e.head) /\ health = "available"
    /\ proj = e.head
    /\ promoted = IF e.promote >= 1 THEN Upto(e.head, e.promote) ELSE e.cursor[2]
Capture(c) ==
    /\ Reads /\ reader.pc = "idle" /\ witness[c] # NoEvidence
    /\ reader' = [NoRead EXCEPT !.pc = "read", !.c = c, !.granted = TRUE, !.seen = witness[c]]
    /\ UNCHANGED <<world, store, poll, pass, witness, failures, shown>>
Read ==
    /\ reader.pc = "read"
    /\ reader' = [reader EXCEPT !.pc = "answer",
          !.answer = IF ~Fresh(reader.seen) \/ mint = 0 THEN NoAnswer
                     ELSE [state |-> IF mint > Len(promoted) THEN "confirming" ELSE "confirmed",
                           owner |-> OwnerAt(IF mint > Len(promoted) THEN Len(proj) ELSE Len(promoted)),
                           head |-> reader.seen.head, promoted |-> promoted]]
    /\ UNCHANGED <<world, store, poll, pass, witness, failures, shown>>
StillGranted == reader.granted
Answer ==
    /\ reader.pc = "answer" /\ reader' = NoRead
    /\ shown' = IF StillGranted THEN reader.answer ELSE NoAnswer
    /\ UNCHANGED <<world, store, poll, pass, witness, failures>>

-----------------------------------------------------------------------------
PassStep(c) == Start(c) \/ Observe(c) \/ Apply(c) \/ Publish(c) \/ EndHalted(c) \/ Refused(c)
Next ==
    \/ Grow \/ Finalize \/ \E n \in 2..MaxHeight : Reorganize(n)
    \/ \E c \in Coordinators : PassStep(c) \/ Fail(c) \/ Stop(c) \/ Expire(c) \/ Capture(c)
    \/ Read \/ Answer
Spec == Init /\ [][Next]_vars
\* The poller's timer starts passes, and RPC and database answer.
Fairness == \A c \in Coordinators : WF_vars(PassStep(c))

-----------------------------------------------------------------------------
\* The tables a chain has, by definition.
MintIn(s) == IF Minted(s) THEN CHOOSE n \in DOMAIN s : s[n] = "mint" ELSE 0
OwnerIn(s) ==
    LET E == {n \in DOMAIN s : s[n] # "none"} IN IF E = {} THEN "nobody" ELSE Owner(s[Greatest(E)])

(* Mints and owners are those of the projected chain at every height, after *)
(* any sequence of batches and rollbacks (postgres.ts, #append, #events).   *)
TablesMatchChain ==
    /\ mint = MintIn(proj)
    /\ \A n \in 1..Len(proj) : OwnerAt(n) = OwnerIn(Upto(proj, n))

(* What was promoted is never taken back: every later projection extends it *)
(* or the projection halts (postgres.ts, #append, #promote).                *)
PromotedGrows == [][IsPrefix(promoted, promoted') /\ IsPrefix(promoted', proj')]_vars

(* Only finalized blocks are promoted.                                      *)
PromotedWasFinal == ~deep => IsPrefix(promoted, Upto(chain, final))

(* After a safety halt nothing is written.                                  *)
HaltIsFinal == [][health = "safety-halted" => UNCHANGED store]_vars

(* An answer is the truth of one observed chain: the owner at its head, or  *)
(* at the finalized block for a mint that is final; never a mixture of two  *)
(* observations or of tables that moved since.                              *)
AnswersAreObserved ==
    shown.state # "unknown" =>
        LET s == IF shown.state = "confirmed" THEN shown.promoted ELSE shown.head IN
        shown.owner = OwnerIn(s) /\ IsPrefix(shown.promoted, shown.head) /\ Minted(s)

(* A mint that was shown as confirmed stays on the chain.                   *)
ConfirmedStays == shown.state = "confirmed" /\ ~deep => IsPrefix(shown.promoted, chain)

(* When the poller has ended nothing grants a read, though its last pass    *)
(* may still complete (poller.ts, finish; coordinator.ts, withdraw).        *)
NoLateAuthority == \A c \in Coordinators : poll[c] = "ended" => witness[c] = NoEvidence

(* A projection that is neither stopped nor halted catches up with a chain  *)
(* that has stopped changing, unless the chain is shorter.                  *)
CatchesUp ==
    <>[](\/ proj = chain \/ health = "safety-halted" \/ Len(chain) < Len(proj)
         \/ \A c \in Coordinators : poll[c] = "ended")
=============================================================================
