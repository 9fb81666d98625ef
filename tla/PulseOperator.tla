---------------------------- MODULE PulseOperator ---------------------------
(***************************************************************************)
(* The command-line operators of the Sepolia rehearsals: a journal of      *)
(* signed transactions per run directory (scripts/pulse-sepolia.mjs and    *)
(* scripts/pulse-sepolia-admin.mjs).  The exact signed bytes are durable   *)
(* before delivery, and a step is never signed again.  Both directories    *)
(* sign with one wallet, which the admin page uses as well.                *)
(*                                                                         *)
(* A command loads the journal under operation.lock, works on its copy and *)
(* saves it after every change; the copy is lost when the process dies.    *)
(* A transaction is named by its journal, step and nonce; fees are a cost  *)
(* in 1..MaxCost.                                                          *)
(***************************************************************************)
EXTENDS Naturals, Sequences, FiniteSets, FiniteSetsExt

CONSTANTS
    Procs,          \* operator processes
    Journals,       \* run directories: a subset of {"rc1", "rc2"}
    Lists, FirstList,
    MaxNonce,       \* bound on the chain: one transaction of the wallet per block
    MaxCost, Budget,\* worst-case exposure of a step, and of a journal
    MaxReorgs,
    Uses            \* what happens: "web", "crash", "lost", "drop"

ASSUME OperatorAssumption == /\ FirstList \in Lists
                             /\ {MaxNonce, MaxCost, Budget, MaxReorgs} \subseteq Nat

VARIABLES
    chain,          \* the wallet's transactions: [tx, post]; position is nonce + 1
    reorgs,
    pool,           \* transactions nodes know and have not included
    disk,           \* journal.json: [rows, ops]
    lock,           \* operation.lock
    file,           \* free-config.json: [root, rev]
    proc            \* process -> [at, j, cmd, step, mem]

vars == <<chain, reorgs, pool, disk, lock, file, proc>>
network == <<chain, reorgs, pool>>

Web == "web"
NoTx == [j |-> Web, step |-> [kind |-> "web", n |-> 0], nonce |-> 0, root |-> FirstList]
Empty == [rows |-> {}, ops |-> {}]
Off == [at |-> "off", j |-> Web, cmd |-> [kind |-> Web, root |-> FirstList], step |-> NoTx.step, mem |-> Empty]

-----------------------------------------------------------------------------
(* The chain.                                                              *)

(* Each journal deploys a collection of its own; post is what all of them  *)
(* hold after a block.                                                     *)
Genesis == [deployed |-> FALSE, paused |-> TRUE, rev |-> 0, root |-> FirstList]
PolicyAfter(j, k) == IF k = 0 THEN Genesis ELSE chain[k].post[j]
Latest == Len(chain)
Policy(j) == PolicyAfter(j, Latest)
Held == [j \in Journals |-> Policy(j)]

Works(kind, p) == \/ kind = "renderer"
                  \/ kind = "collection"
                  \/ kind = "configure" /\ p.deployed /\ p.paused
                  \/ kind = "pause" /\ p.deployed /\ ~p.paused
                  \/ kind = "unpause" /\ p.deployed /\ p.paused

After(kind, root, p) ==
    IF ~Works(kind, p) THEN p
    ELSE CASE kind = "renderer" -> p
           [] kind = "collection" -> [p EXCEPT !.deployed = TRUE, !.rev = 1]
           [] kind = "configure" -> [p EXCEPT !.root = root, !.rev = @ + 1]
           [] OTHER -> [p EXCEPT !.paused = (kind = "pause")]

Include(tx) == /\ tx \in pool /\ tx.nonce = Latest /\ Latest < MaxNonce
               /\ chain' = Append(chain, [tx |-> tx, 
                                        post |-> [Held EXCEPT ![tx.j] = After(tx.step.kind, tx.root, @)]])
               /\ pool' = pool \ {tx}
               /\ UNCHANGED <<reorgs, disk, lock, file, proc>>

(* The admin page uses the same wallet.                                    *)
WebSends(kind, root) ==
    /\ "web" \in Uses /\ Latest < MaxNonce
    /\ kind \in {"configure", "pause", "unpause"} /\ Works(kind, Policy("rc2"))
    /\ (kind = "configure") => (root # Policy("rc2").root)
    /\ (kind # "configure") => (root = FirstList)
    /\ chain' = Append(chain, [tx |-> [NoTx EXCEPT !.nonce = Latest],
                               post |-> [Held EXCEPT !["rc2"] = After(kind, root, @)]])
    /\ file' = IF kind = "configure" THEN [root |-> root, rev |-> Policy("rc2").rev + 1] ELSE file
    /\ UNCHANGED <<reorgs, pool, disk, lock, proc>>

Drop == /\ "drop" \in Uses
        /\ \E tx \in pool : pool' = pool \ {tx}
        /\ UNCHANGED <<chain, reorgs, disk, lock, file, proc>>

Reorganize == /\ reorgs < MaxReorgs /\ chain # <<>>
              /\ reorgs' = reorgs + 1
              /\ chain' = SubSeq(chain, 1, Latest - 1)
              /\ pool' = pool \cup {tx \in {chain[Latest].tx} : tx.j # Web}
              /\ UNCHANGED <<disk, lock, file, proc>>

-----------------------------------------------------------------------------
(* The journal.                                                            *)

RowOf(mem, step) == {r \in mem.rows : r.step = step}
Finished(r) == r.status \in {"included", "reverted"}
Exposure(mem) == MapThenSumSet(LAMBDA r : r.cost, mem.rows)

Saved(p, mem) == /\ proc' = [proc EXCEPT ![p].mem = mem]
                 /\ disk' = [disk EXCEPT ![proc[p].j] = mem]

Exit(p) == /\ proc' = [proc EXCEPT ![p] = Off]
           /\ lock' = [lock EXCEPT ![proc[p].j] = FALSE]

Free(j) == ~lock[j]

(* A command takes the lock and loads the journal.                         *)
Start(p, j, kind, root) ==
    /\ proc[p] = Off /\ Free(j)
    /\ (j = "rc1") => (kind \in {"deploy", "unpause"})
    /\ (kind # "configure") => (root = FirstList)
    /\ (kind # "deploy") => \E r \in disk[j].rows : r.step.kind = "collection" /\ r.status = "included"
    /\ lock' = [lock EXCEPT ![j] = TRUE]
    /\ proc' = [proc EXCEPT ![p] = [at |-> "plan", j |-> j, cmd |-> [kind |-> kind, root |-> root],
                                    step |-> NoTx.step, mem |-> disk[j]]]
    /\ UNCHANGED <<network, disk, file>>

(* The process dies and its lock stays; somebody inspects and removes it.  *)
Crash(p) == /\ "crash" \in Uses /\ proc[p] # Off
            /\ proc' = [proc EXCEPT ![p] = Off]
            /\ UNCHANGED <<network, disk, lock, file>>
RemoveLock(j) == /\ lock[j] /\ \A p \in Procs : proc[p].j # j
                 /\ lock' = [lock EXCEPT ![j] = FALSE]
                 /\ UNCHANGED <<network, disk, file, proc>>

-----------------------------------------------------------------------------
(* Which step a command works on.                                          *)

ToStep(p, step) == proc' = [proc EXCEPT ![p].at = "step", ![p].step = step]

Step(kind, n) == [kind |-> kind, n |-> n]

(* deploy: renderer (RC1 only), then collection, each confirmed again.     *)
PlanDeploy(p) ==
    /\ proc[p].at = "plan" /\ proc[p].cmd.kind = "deploy"
    /\ ToStep(p, Step(IF proc[p].j = "rc1" THEN "renderer" ELSE "collection", 0))
    /\ UNCHANGED <<network, disk, lock, file>>

(* An unfinished step of the same kind is resumed.                         *)
Resumed(mem, kind) == {r.step : r \in {r \in mem.rows : r.step.kind = kind /\ ~Finished(r)}}

(* pause, unpause.  RC1 unpauses once, under a fixed name.                 *)
PlanPause(p) ==
    LET mem == proc[p].mem
        kind == proc[p].cmd.kind
        pending == Resumed(mem, kind)
    IN  /\ proc[p].at = "plan" /\ kind \in {"pause", "unpause"}
        /\ IF proc[p].j = "rc1" THEN ToStep(p, Step(kind, 0)) /\ UNCHANGED lock
           ELSE IF pending # {} THEN (\E s \in pending : ToStep(p, s)) /\ UNCHANGED lock
           ELSE IF Policy("rc2").paused = (kind = "pause") THEN Exit(p)
           ELSE ToStep(p, Step(kind, Cardinality(mem.rows) + 1)) /\ UNCHANGED lock
        /\ UNCHANGED <<network, disk, file>>

(* The allowlist of the present policy must be at hand.                    *)
KnowsPolicy(mem) == LET now == Policy("rc2") IN
    \/ now.rev = 1
    \/ file = [root |-> now.root, rev |-> now.rev]
    \/ \E op \in mem.ops : op.root = now.root /\ op.rev = now.rev

Open(mem) == {op \in mem.ops : \A r \in RowOf(mem, op.step) : ~Finished(r)}

(* configure: an operation already recorded is resumed exactly, ...        *)
ResumeConfigure(p) ==
    /\ proc[p].at = "plan" /\ proc[p].cmd.kind = "configure" /\ KnowsPolicy(proc[p].mem)
    /\ \E op \in Open(proc[p].mem) :
         /\ op.root = proc[p].cmd.root /\ Policy("rc2").rev \in {op.rev - 1, op.rev}
         /\ ToStep(p, op.step)
    /\ UNCHANGED <<network, disk, lock, file>>

(* ... otherwise the next revision is recorded before anything is signed;  *)
(* an operation already recorded under its name is kept.                   *)
PlanConfigure(p) ==
    LET mem == proc[p].mem
        now == Policy("rc2")
        root == proc[p].cmd.root
        step == Step("configure", now.rev + 1)
        ops == IF \E op \in mem.ops : op.step = step THEN mem.ops
               ELSE mem.ops \cup {[step |-> step, root |-> root, rev |-> now.rev + 1]}
    IN  /\ proc[p].at = "plan" /\ proc[p].cmd.kind = "configure" /\ KnowsPolicy(mem)
        /\ Open(mem) = {} /\ root # now.root /\ now.paused
        /\ proc' = [proc EXCEPT ![p].at = "step", ![p].step = step, ![p].mem.ops = ops]
        /\ disk' = [disk EXCEPT ![proc[p].j].ops = ops]
        /\ UNCHANGED <<network, lock, file>>

AlreadyConfigured(p) ==
    /\ proc[p].at = "plan" /\ proc[p].cmd.kind = "configure" /\ KnowsPolicy(proc[p].mem)
    /\ Open(proc[p].mem) = {} /\ proc[p].cmd.root = Policy("rc2").root
    /\ file' = [root |-> Policy("rc2").root, rev |-> Policy("rc2").rev]
    /\ Exit(p)
    /\ UNCHANGED <<network, disk>>

-----------------------------------------------------------------------------
(* sendStep, sendAdminStep.                                                *)

RootOf(p) == IF proc[p].step.kind = "configure" THEN proc[p].cmd.root ELSE FirstList

PlannedNonce(j, kind) == CASE kind = "renderer" -> 0
                           [] kind = "collection" -> IF j = "rc1" THEN 1 ELSE 0
                           [] OTHER -> Latest

(* slip: a step whose nonce was taken is signed again *)
BadUnsigned(mem, step) == \A r \in RowOf(mem, step) : r.nonce < Latest /\ ~Finished(r)
Unsigned(mem, step) == RowOf(mem, step) = {}

(* RC2 signs nothing while another row is unfinished.                      *)
OthersFinished(p) ==
    (proc[p].j = "rc2") => \A r \in proc[p].mem.rows : r.step = proc[p].step \/ Finished(r)

WithinBudget(mem, cost) == Exposure(mem) + cost <= Budget

InItsPlace(j, kind) == Latest = PlannedNonce(j, kind)

(* The nonce is the wallet's next one; a node that knows of a pending      *)
(* transaction refuses, but it need not know.  Signed, saved, not sent.    *)
Sign(p, cost) ==
    LET j == proc[p].j
        mem == proc[p].mem
        step == proc[p].step
        row == [step |-> step, nonce |-> Latest, root |-> RootOf(p), cost |-> cost, status |-> "signed"]
    IN  /\ proc[p].at = "step" /\ Unsigned(mem, step)
        /\ OthersFinished(p) /\ InItsPlace(j, step.kind) /\ WithinBudget(mem, cost)
        /\ Saved(p, [mem EXCEPT !.rows = (@ \ RowOf(mem, step)) \cup {row}])
        /\ UNCHANGED <<network, lock, file>>

Raw(p, r) == [j |-> proc[p].j, step |-> r.step, nonce |-> r.nonce, root |-> r.root]
Receipt(p, r) == \E k \in 1..Latest : chain[k].tx = Raw(p, r)
Succeeded(p, r) ==
    \E k \in 1..Latest : chain[k].tx = Raw(p, r) /\ Works(r.step.kind, PolicyAfter(proc[p].j, k - 1))

(* The request of the row is the one asked for; RC2 does not go on from a  *)
(* reverted row.                                                           *)
Usable(p, r) == /\ r.root = RootOf(p)
                /\ (proc[p].j = "rc2") => (r.status # "reverted")

(* The last look before an RC2 configuration leaves.                       *)
StillApplies(p, r) == (proc[p].j = "rc2" /\ r.step.kind = "configure") =>
    (Policy("rc2").paused /\ \E op \in proc[p].mem.ops : op.step = r.step /\ Policy("rc2").rev + 1 = op.rev)

Marked(p, r, status) == [proc[p].mem EXCEPT !.rows = (@ \ {r}) \cup {[r EXCEPT !.status = status]}]

(* Whatever the row says, the same bytes may be sent again.                *)
Deliverable(r) == TRUE

(* No receipt and no node knows it: delivered at its own nonce or not at   *)
(* all.  RC2 saves that delivery is unknown first.  The reply may be lost. *)
Deliver(p) ==
    /\ proc[p].at = "step"
    /\ \E r \in RowOf(proc[p].mem, proc[p].step) :
         /\ Usable(p, r) /\ ~Receipt(p, r) /\ Raw(p, r) \notin pool /\ Deliverable(r)
         /\ r.nonce = Latest /\ StillApplies(p, r)
         /\ \/ pool' = pool \cup {Raw(p, r)}
            \/ "lost" \in Uses /\ pool' = pool
         /\ LET mem == IF proc[p].j = "rc2" THEN Marked(p, r, "delivery-unknown") ELSE proc[p].mem
            IN  /\ disk' = [disk EXCEPT ![proc[p].j] = mem]
                /\ \/ proc' = [proc EXCEPT ![p].mem = mem]
                   \/ "lost" \in Uses /\ proc' = [proc EXCEPT ![p] = Off]
    /\ lock' = IF proc'[p] = Off THEN [lock EXCEPT ![proc[p].j] = FALSE] ELSE lock
    /\ UNCHANGED <<chain, reorgs, file>>

(* The receipt is looked up on every run, whatever the row says.           *)
Confirm(p) ==
    /\ proc[p].at = "step"
    /\ \E r \in RowOf(proc[p].mem, proc[p].step) :
         /\ Usable(p, r) /\ Receipt(p, r)
         /\ LET mem == Marked(p, r, IF Succeeded(p, r) THEN "included" ELSE "reverted")
            IN  /\ disk' = [disk EXCEPT ![proc[p].j] = mem]
                /\ IF Succeeded(p, r)
                   THEN /\ proc' = [proc EXCEPT ![p].mem = mem,
                                ![p].at = IF r.step.kind = "renderer" THEN "step"
                                          ELSE IF r.step.kind = "configure" THEN "publish" ELSE "end",
                                ![p].step = IF r.step.kind = "renderer" THEN Step("collection", 0) ELSE @]
                        /\ UNCHANGED lock
                   ELSE proc' = [proc EXCEPT ![p] = Off] /\ lock' = [lock EXCEPT ![proc[p].j] = FALSE]
    /\ UNCHANGED <<network, file>>

(* Still pending after the wait, or a check that refuses.                  *)
GiveUp(p) == /\ proc[p].at \in {"plan", "step"}
             /\ Exit(p)
             /\ UNCHANGED <<network, disk, file>>

(* After a configuration the policy must be the one that was sent.         *)
Publish(p) ==
    /\ proc[p].at = "publish"
    /\ \E op \in {op \in proc[p].mem.ops : op.step = proc[p].step} :
         file' = IF Policy("rc2").root = op.root /\ Policy("rc2").rev = op.rev THEN [root |-> op.root, rev |-> op.rev] ELSE file
    /\ Exit(p)
    /\ UNCHANGED <<network, disk>>

End(p) == /\ proc[p].at = "end"
          /\ Exit(p)
          /\ UNCHANGED <<network, disk, file>>

Init == /\ chain = <<>> /\ reorgs = 0 /\ pool = {}
        /\ disk = [j \in Journals |-> Empty] /\ lock = [j \in Journals |-> FALSE]
        /\ file = [root |-> FirstList, rev |-> 1]
        /\ proc = [p \in Procs |-> Off]

Kinds == {"deploy", "configure", "pause", "unpause"}

Next == \/ \E tx \in pool : Include(tx)
        \/ \E kind \in Kinds, root \in Lists : WebSends(kind, root)
        \/ Drop \/ Reorganize
        \/ \E j \in Journals : RemoveLock(j)
        \/ \E p \in Procs :
              \/ \E j \in Journals, kind \in Kinds, root \in Lists : Start(p, j, kind, root)
              \/ PlanDeploy(p) \/ PlanPause(p)
              \/ ResumeConfigure(p) \/ PlanConfigure(p) \/ AlreadyConfigured(p)
              \/ \E cost \in 1..MaxCost : Sign(p, cost)
              \/ Deliver(p) \/ Confirm(p) \/ GiveUp(p) \/ Publish(p) \/ End(p) \/ Crash(p)

Spec == Init /\ [][Next]_vars

-----------------------------------------------------------------------------
(* Properties.                                                             *)

Known == {chain[k].tx : k \in 1..Latest} \cup pool

(* Whatever of a journal a node or the chain knows is a row on disk: a     *)
(* crash, a lost reply or another process never leaves a transaction that  *)
(* the next command does not find and would sign again.                    *)
SignedIsDurable == \A tx \in Known : (tx.j # Web) =>
    \E r \in disk[tx.j].rows : r.step = tx.step /\ r.nonce = tx.nonce /\ r.root = tx.root

(* A step of a journal is one transaction, however often its command runs. *)
OneTransactionPerStep == \A a, b \in Known : (a.j # Web /\ a.j = b.j /\ a.step = b.step) => (a = b)

(* A signed row is never lost and never replaced by another.               *)
RowsStand == [][\A j \in Journals : \A r \in disk[j].rows : \E s \in disk'[j].rows :
                 s.step = r.step /\ s.nonce = r.nonce /\ s.root = r.root /\ s.cost = r.cost]_disk

(* What a journal may cost in the worst case stays within its budget.      *)
BudgetHolds == \A j \in Journals : MapThenSumSet(LAMBDA r : r.cost, disk[j].rows) <= Budget

(* The contracts stand at the addresses of the plan: the nonces decide.    *)
PlannedPlace == \A k \in 1..Latest :
    LET tx == chain[k].tx IN
    /\ (tx.step.kind = "renderer") => (k = 1)
    /\ (tx.step.kind = "collection") => (k = IF tx.j = "rc1" THEN 2 ELSE 1)

(* A configuration of the journal that takes effect is the recorded one,   *)
(* at the recorded revision, whatever the admin page did in between.       *)
AppliesAsRecorded == \A k \in 1..Latest :
    LET tx == chain[k].tx
        post == chain[k].post["rc2"]
    IN  (tx.j = "rc2" /\ tx.step.kind = "configure" /\ Works("configure", PolicyAfter("rc2", k - 1))) =>
        \E op \in disk["rc2"].ops : op.step = tx.step /\ op.root = post.root /\ op.rev = post.rev
=============================================================================
