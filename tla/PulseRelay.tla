----------------------------- MODULE PulseRelay -----------------------------
(***************************************************************************)
(* How the Sepolia test site follows its collection on chain: the observer *)
(* and the relay's fast advance over one shared snapshot, the receipts     *)
(* shown before either has seen them, the owner index, and what of it all  *)
(* is saved in the relay database, the gallery cache and the halt file     *)
(* (scripts/pulse-sepolia-site.mjs, -relay-store.mjs, -cache.mjs,          *)
(* -ownership.mjs, -relay.mjs).                                            *)
(*                                                                         *)
(* A block is what happened in it and a block hash is the chain up to it,  *)
(* so equal hashes are equal histories.  The collection has one handle: it *)
(* is minted once and its token moves between two holders.  A read is one  *)
(* step, because it ends by checking that its blocks are still canonical.  *)
(***************************************************************************)
EXTENDS Naturals, Sequences, FiniteSets, SequencesExt

CONSTANTS
    None,
    MaxHeight,      \* bound on the length of the chain
    MaxReorgs,      \* bound on the reorganisations
    UseStore,       \* the optional relay database is configured
    Uses            \* of "rewrite", "lag", "gap", "fast", "receipt", "owner", "restart", "storefail"

VARIABLES
    chain, final,   \* the canonical chain and the length of its finalized part
    rewritten,      \* finalized history was contradicted
    reorgs,         \* reorganisations so far
    snapshot,       \* the last observation: [head, final, works], or None
    history,        \* what was saved when the process started
    error,          \* refreshError: "none", "gone" or "conflict"
    early,          \* a receipt read before any observation of it: [work, head, final], or None
    tried,          \* the saved checkpoint was looked at
    start,          \* the checkpoint to start from, or None
    observer, fast, \* the two passes: [at, base, value, covered]
    blocked,        \* the observer's lane met a fault that is nobody's contradiction
    halted,         \* the safety halt
    owners,         \* the owner index: [head, final, now, settled], or None
    scan,           \* its pass: [at, view, value]
    ownersHalted,   \* its lane's own halt
    store,          \* database: checkpoint and works
    storeOwners,    \* database: owner index
    saved,          \* file: the gallery cache, or None
    haltFile        \* file: gallery-safety-halt.json exists

eth == <<chain, final, rewritten, reorgs>>
view == <<snapshot, history, error, early, tried, start>>
owning == <<owners, scan, ownersHalted, storeOwners>>
vars == <<chain, final, rewritten, reorgs, snapshot, history, error, early, tried, start, observer, fast, blocked,
          halted, owners, scan, ownersHalted, store, storeOwners, saved, haltFile>>

Idle == [at |-> "idle", base |-> None, value |-> None, covered |-> FALSE]
Resting == [at |-> "idle", view |-> None, value |-> None]

Init == /\ chain = <<>> /\ final = 0 /\ rewritten = FALSE /\ reorgs = 0
        /\ snapshot = None /\ history = None /\ error = "none" /\ early = None /\ tried = FALSE /\ start = None
        /\ observer = Idle /\ fast = Idle /\ blocked = FALSE /\ halted = FALSE
        /\ owners = None /\ scan = Resting /\ ownersHalted = FALSE
        /\ store = None /\ storeOwners = None /\ saved = None /\ haltFile = FALSE

-----------------------------------------------------------------------------
(* The chain.                                                              *)

Upto(c, n) == SubSeq(c, 1, n)
MintedAt(c) == {n \in 1..Len(c) : c[n] = "mint"}
Canonical(c) == IsPrefix(c, chain)

Extend(e) == /\ Len(chain) < MaxHeight
             /\ e = "mint" => MintedAt(chain) = {}
             /\ e = "move" => "owner" \in Uses /\ MintedAt(chain) # {}
             /\ chain' = Append(chain, e)
             /\ UNCHANGED <<final, rewritten, reorgs, view, observer, fast, blocked, halted, owning, store, saved, haltFile>>
Finalize == /\ final < Len(chain) /\ final' = final + 1
            /\ UNCHANGED <<chain, rewritten, reorgs, view, observer, fast, blocked, halted, owning, store, saved, haltFile>>
Reorg(n) == /\ reorgs < MaxReorgs /\ reorgs' = reorgs + 1 /\ n \in final..Len(chain) - 1
            /\ chain' = Upto(chain, n)
            /\ UNCHANGED <<final, rewritten, view, observer, fast, blocked, halted, owning, store, saved, haltFile>>
Rewrite == /\ "rewrite" \in Uses /\ ~rewritten /\ final > 0
           /\ chain' = Upto(chain, final - 1) /\ final' = final - 1 /\ rewritten' = TRUE
           /\ UNCHANGED <<reorgs, view, observer, fast, blocked, halted, owning, store, saved, haltFile>>

(* What a source reports: the head it has, and its finalized tag, which    *)
(* may lag behind what another source has already reported.                *)
Heads == IF "lag" \in Uses THEN 0..Len(chain) ELSE {Len(chain)}
Tags(n) == {f \in 0..final : f <= n /\ ("lag" \in Uses \/ f = final)}

-----------------------------------------------------------------------------
(* Reading the collection.                                                 *)

Work(c, n, f) == [block |-> Upto(c, n), state |-> IF n <= f THEN "minted" ELSE "confirming"]
Logs(c, from) == {n \in MintedAt(c) : n > from}
Finals(base) == IF base = None THEN 0 ELSE base.final

(* Only the finalized works of the last observation are reused.            *)
Reused(base) == IF base = None THEN {} ELSE {w \in base.works : w.state = "minted"}

Contradicts(base) ==
    base # None /\ Len(chain) >= base.final /\ Upto(chain, base.final) # Upto(base.head, base.final)

(* A receipt that was already final may not be missing from a newer view.  *)
Vetoed(c, works) == /\ early # None /\ Len(c) >= Len(early.head) /\ early.work.state = "minted"
                    /\ early.work \notin works
Covers(c) == early # None /\ Len(c) >= Len(early.head)

(* The mint counter of the contract, against an index that may have gaps.  *)
Complete(works, c) == Cardinality(works) >= Cardinality(MintedAt(c))

(* An observation on top of `base`: unavailable, contradictory or a value. *)
Gone == [kind |-> "gone"]
Conflict == [kind |-> "conflict"]
Seen(v) == [kind |-> "value", value |-> v, covered |-> Covers(v.head)]
Observed(base, n, f, logs) ==
    LET c == Upto(chain, n)
        works == Reused(base) \cup {Work(c, k, f) : k \in logs} IN
    IF base # None /\ Len(chain) < base.final THEN Gone
    ELSE IF Contradicts(base) THEN Conflict
    ELSE IF f < Finals(base) \/ ~Complete(works, c) THEN Gone
    ELSE IF Cardinality(works) # Cardinality(MintedAt(c)) \/ Vetoed(c, works) THEN Conflict
    ELSE Seen([head |-> c, final |-> f, works |-> works])

(* advanceSepoliaCollectionIfUnchanged: no new mint since the base.        *)
(* slip: works are final as soon as they are seen *)
BadAdvanced(base, c, f) == {[w EXCEPT !.state = "minted"] : w \in base.works}
Advanced(base, c, f) == {Work(c, Len(w.block), f) : w \in base.works}
Advance(base, n, f) ==
    LET c == Upto(chain, n) IN
    IF Contradicts(base) THEN Conflict
    ELSE IF \/ n < Len(base.head) \/ f < base.final \/ ~IsPrefix(base.head, c)
            \/ MintedAt(c) # MintedAt(base.head) THEN Gone
    ELSE IF Vetoed(c, Advanced(base, c, f)) THEN Conflict
    ELSE Seen([head |-> c, final |-> f, works |-> Advanced(base, c, f)])

-----------------------------------------------------------------------------
(* Publishing: one transaction that checks the finalized prefix.           *)

Stale(v) == store # None /\ (v.final < store.final \/ Len(v.head) < store.final)
Disagrees(v) ==
    /\ store # None
    /\ \/ v.final = store.final /\ Upto(v.head, v.final) # Upto(store.head, v.final)
       \/ \E w \in store.works : w.state = "minted" /\ w \notin v.works

(* The gallery cache keeps what is shown.                                  *)
Fresher(a, b) == IF a # None /\ (b = None \/ Len(a) >= Len(b)) THEN a ELSE b
Invalid == halted \/ error = "conflict"
Stays(w, live) == live \/ (w.state = "minted" /\ ~Invalid)
Shown(v, e, live, recent, all) ==
    LET base == IF v = None THEN {} ELSE {w \in v.works : all \/ Stays(w, live)}
        skip == \/ e = None
                \/ live /\ Len(v.head) >= Len(e.head)
                \/ \E w \in base : w.state = "minted" IN
    IF ~skip /\ ((~Invalid /\ (recent \/ e.work.state = "minted")) \/ (all /\ base = {})) THEN {e.work} ELSE base

Saving(v, live, e) ==
    IF halted \/ (v = None /\ e = None) THEN saved
    ELSE [head |-> Fresher(IF e = None THEN None ELSE e.head, IF v = None THEN None ELSE v.head),
          final |-> IF live THEN v.final ELSE IF saved # None THEN saved.final ELSE IF e = None THEN None ELSE e.final,
          works |-> Shown(v, e, live, TRUE, TRUE)]

Halt == halted' = TRUE /\ haltFile' = TRUE

-----------------------------------------------------------------------------
(* The observer.                                                           *)

(* A saved cursor is a hint: its anchor and every work are read again.     *)
Candidate ==
    LET db == IF UseStore THEN store ELSE None IN
    IF db # None /\ (saved = None \/ saved.final = None \/ db.final >= saved.final) THEN db
    ELSE IF saved = None \/ saved.final = None THEN None ELSE saved

ObserverBegin ==
    /\ observer.at = "idle" /\ ~halted /\ ~blocked
    /\ tried' = TRUE
    /\ LET c == Candidate IN
       \/ /\ ~tried /\ c # None
          /\ \/ /\ \E w \in Reused(c) : Len(w.block) > c.final      \* an assertion, not a contradiction
                /\ blocked' = TRUE /\ start' = None /\ error' = "gone"
                /\ UNCHANGED <<observer, halted, haltFile>>
             \/ /\ \A w \in Reused(c) : Len(w.block) <= c.final
                /\ Contradicts(c) /\ Halt /\ start' = None /\ error' = "conflict"
                /\ UNCHANGED <<observer, blocked>>
             \/ /\ \A w \in Reused(c) : Len(w.block) <= c.final
                /\ ~Contradicts(c)
                /\ start' \in {None, [head |-> Upto(c.head, c.final), final |-> c.final, works |-> Reused(c)]}
                /\ observer' = [Idle EXCEPT !.at = "reading", !.base = start']
                /\ UNCHANGED <<error, blocked, halted, haltFile>>
       \/ /\ tried \/ c = None
          /\ observer' = [Idle EXCEPT !.at = "reading", !.base = IF snapshot # None THEN snapshot ELSE start]
          /\ UNCHANGED <<start, error, blocked, halted, haltFile>>
    /\ UNCHANGED <<eth, snapshot, history, early, fast, owning, store, saved>>

ObserverRead ==
    /\ observer.at = "reading"
    /\ \E n \in Heads : \E f \in Tags(n) :
       \E logs \in IF "gap" \in Uses THEN SUBSET Logs(Upto(chain, n), Finals(observer.base))
                   ELSE {Logs(Upto(chain, n), Finals(observer.base))} :
       \E r \in {Observed(observer.base, n, f, logs)} :
       \/ /\ r.kind = "gone" /\ observer' = Idle /\ error' = IF error = "conflict" THEN error ELSE "gone"
          /\ UNCHANGED <<halted, haltFile>>
       \/ r.kind = "conflict" /\ observer' = Idle /\ error' = "conflict" /\ Halt
       \/ /\ r.kind = "value"
          /\ observer' = [observer EXCEPT !.at = IF UseStore THEN "publishing" ELSE "adopting",
                                          !.value = r.value, !.covered = r.covered]
          /\ UNCHANGED <<error, halted, haltFile>>
    /\ UNCHANGED <<eth, snapshot, history, early, tried, start, fast, blocked, owning, store, saved>>

Publish(v) == \/ ~Stale(v) /\ ~Disagrees(v) /\ store' = v
              \/ (Stale(v) \/ "storefail" \in Uses) /\ UNCHANGED store

ObserverPublish ==
    /\ observer.at = "publishing"
    /\ IF ~Stale(observer.value) /\ Disagrees(observer.value)
       THEN observer' = Idle /\ error' = "conflict" /\ Halt /\ UNCHANGED store
       ELSE Publish(observer.value) /\ observer' = [observer EXCEPT !.at = "adopting"] /\ UNCHANGED <<error, halted, haltFile>>
    /\ UNCHANGED <<eth, snapshot, history, early, tried, start, fast, blocked, owning, saved>>

Adopt(v, covered) ==
    /\ snapshot' = v /\ error' = "none"
    /\ early' = IF covered THEN None ELSE early
    /\ saved' = Saving(v, TRUE, early')

ObserverAdopt ==
    /\ observer.at = "adopting"
    /\ Adopt(observer.value, observer.covered)
    /\ start' = None /\ observer' = Idle
    /\ UNCHANGED <<eth, history, tried, fast, blocked, halted, owning, store, haltFile>>

-----------------------------------------------------------------------------
(* The relay's fast advance, discarded whenever the snapshot has changed.  *)

FastBegin ==
    /\ "fast" \in Uses /\ fast.at = "idle" /\ ~halted /\ snapshot # None /\ error = "none"
    /\ fast' = [Idle EXCEPT !.at = "reading", !.base = snapshot]
    /\ UNCHANGED <<eth, view, observer, blocked, halted, owning, store, saved, haltFile>>

FastRead ==
    /\ fast.at = "reading"
    /\ \E n \in Heads : \E f \in Tags(n) : \E r \in {Advance(fast.base, n, f)} :
       \/ (r.kind = "gone" \/ (r.kind = "value" /\ snapshot # fast.base)) /\ fast' = Idle /\ UNCHANGED <<halted, haltFile>>
       \/ r.kind = "conflict" /\ fast' = Idle /\ Halt
       \/ /\ r.kind = "value" /\ snapshot = fast.base
          /\ fast' = [fast EXCEPT !.at = IF UseStore THEN "publishing" ELSE "adopting", !.value = r.value, !.covered = r.covered]
          /\ UNCHANGED <<halted, haltFile>>
    /\ UNCHANGED <<eth, view, observer, blocked, owning, store, saved>>

FastPublish ==
    /\ fast.at = "publishing"
    /\ IF ~Stale(fast.value) /\ Disagrees(fast.value)
       THEN fast' = Idle /\ Halt /\ UNCHANGED store
       ELSE Publish(fast.value) /\ fast' = [fast EXCEPT !.at = "adopting"] /\ UNCHANGED <<halted, haltFile>>
    /\ UNCHANGED <<eth, view, observer, blocked, owning, saved>>

FastAdopt ==
    /\ fast.at = "adopting"
    /\ IF snapshot # fast.base THEN UNCHANGED <<snapshot, error, early, saved>> ELSE Adopt(fast.value, fast.covered)
    /\ fast' = Idle
    /\ UNCHANGED <<eth, history, tried, start, observer, blocked, halted, owning, store, haltFile>>

-----------------------------------------------------------------------------
(* A reported transaction's receipt, shown before any observation has it.  *)

Receipt ==
    /\ "receipt" \in Uses /\ ~halted
    /\ \E n \in Heads : \E f \in Tags(n) : \E k \in MintedAt(Upto(chain, n)) :
          early' = [work |-> Work(chain, k, f), head |-> Upto(chain, n), final |-> f]
    /\ saved' = IF snapshot # None THEN Saving(snapshot, TRUE, early') ELSE Saving(history, FALSE, early')
    /\ UNCHANGED <<eth, snapshot, history, error, tried, start, observer, fast, blocked, halted, owning, store, haltFile>>

-----------------------------------------------------------------------------
(* The owner index: rewound to its finalized owners on every pass.         *)

Holder(owner, events) ==
    FoldLeft(LAMBDA o, e : CASE e = "mint" -> "first"
                             [] e = "move" -> (IF o = "first" THEN "second" ELSE "first")
                             [] OTHER -> o, owner, events)

Rewound(o) == o.settled
Indexed(v, o) ==
    LET from == IF o = None THEN 0 ELSE o.final
        base == IF o = None THEN None ELSE Rewound(o) IN
    [head |-> v.head, final |-> v.final,
     settled |-> Holder(base, SubSeq(v.head, from + 1, v.final)),
     now |-> Holder(base, SubSeq(v.head, from + 1, Len(v.head)))]

ScanBegin == /\ "owner" \in Uses /\ scan.at = "idle" /\ ~halted /\ ~ownersHalted /\ snapshot # None
             /\ scan' = [Resting EXCEPT !.at = "reading", !.view = snapshot]
             /\ UNCHANGED <<eth, view, observer, fast, blocked, halted, owners, ownersHalted, store, storeOwners, saved, haltFile>>

ScanRead ==
    /\ scan.at = "reading"
    /\ LET v == scan.view IN
       \/ /\ owners # None /\ v.final >= owners.final /\ Contradicts(owners)
          /\ ownersHalted' = TRUE /\ scan' = Resting
       \/ /\ (owners # None /\ v.final < owners.final) \/ ~Canonical(v.head)
          /\ scan' = Resting /\ UNCHANGED ownersHalted
       \/ /\ owners # None => v.final >= owners.final /\ ~Contradicts(owners)
          /\ Canonical(v.head)
          /\ scan' = [scan EXCEPT !.at = IF UseStore THEN "publishing" ELSE "adopting", !.value = Indexed(v, owners)]
          /\ UNCHANGED ownersHalted
    /\ UNCHANGED <<eth, view, observer, fast, blocked, halted, owners, store, storeOwners, saved, haltFile>>

ScanStale(v) == \/ store = None \/ Len(v.head) > Len(store.head)
                \/ storeOwners # None /\ (Len(v.head) < Len(storeOwners.head) \/ v.final < storeOwners.final)
ScanDisagrees(v) ==
    \/ store # None /\ Len(v.head) = Len(store.head) /\ v.head # store.head
    \/ /\ storeOwners # None /\ v.final = storeOwners.final
       /\ Upto(v.head, v.final) # Upto(storeOwners.head, v.final) \/ v.settled # storeOwners.settled

ScanPublish ==
    /\ scan.at = "publishing"
    /\ IF ~ScanStale(scan.value) /\ ScanDisagrees(scan.value)
       THEN ownersHalted' = TRUE /\ scan' = Resting /\ UNCHANGED storeOwners
       ELSE /\ storeOwners' = IF ScanStale(scan.value) THEN storeOwners ELSE scan.value
            /\ scan' = [scan EXCEPT !.at = "adopting"] /\ UNCHANGED ownersHalted
    /\ UNCHANGED <<eth, view, observer, fast, blocked, halted, owners, store, saved, haltFile>>

ScanAdopt == /\ scan.at = "adopting"
             /\ owners' = scan.value /\ scan' = Resting
             /\ UNCHANGED <<eth, view, observer, fast, blocked, halted, ownersHalted, store, storeOwners, saved, haltFile>>

-----------------------------------------------------------------------------
(* The process dies and comes back.  It refuses to start on two saved      *)
(* finalized anchors that disagree.                                        *)
Remembered == haltFile
Restart ==
    /\ "restart" \in Uses
    /\ ~(store # None /\ saved # None /\ saved.final = store.final
         /\ Upto(saved.head, saved.final) # Upto(store.head, store.final))
    /\ snapshot' = None /\ error' = "none" /\ early' = None /\ tried' = FALSE /\ start' = None
    /\ history' = IF store # None /\ (saved = None \/ Len(store.head) >= Len(saved.head)) THEN store ELSE saved
    /\ observer' = Idle /\ fast' = Idle /\ blocked' = FALSE /\ halted' = Remembered
    /\ owners' = storeOwners /\ scan' = Resting /\ ownersHalted' = FALSE
    /\ UNCHANGED <<eth, store, storeOwners, saved, haltFile>>

Next == \/ \E e \in {"quiet", "mint", "move"} : Extend(e)
        \/ Finalize \/ Rewrite \/ \E n \in 0..MaxHeight : Reorg(n)
        \/ ObserverBegin \/ ObserverRead \/ ObserverPublish \/ ObserverAdopt
        \/ FastBegin \/ FastRead \/ FastPublish \/ FastAdopt
        \/ Receipt \/ ScanBegin \/ ScanRead \/ ScanPublish \/ ScanAdopt \/ Restart

Spec == Init /\ [][Next]_vars

-----------------------------------------------------------------------------
(* Properties.                                                             *)

(* An observation has exactly the works of the history it names, although  *)
(* the passes reuse old finds and providers answer from incomplete logs.   *)
ViewIsTheChain ==
    \A v \in {snapshot, store} \ {None} : v.works = {Work(v.head, n, v.final) : n \in MintedAt(v.head)}

(* What a visitor is shown as Minted is in the finalized chain.            *)
ShownAsMintedIsFinal ==
    ~rewritten =>
    \A live, recent \in BOOLEAN :
    \A w \in Shown(IF snapshot # None THEN snapshot ELSE history, early,
                   live /\ snapshot # None /\ error = "none" /\ ~halted, recent, FALSE) :
       w.state = "minted" => Canonical(w.block) /\ Len(w.block) <= final

(* Finalized works in the database are never withdrawn or replaced, even   *)
(* when the chain contradicts itself.                                      *)
FinalizedIsKept ==
    [][\A w \in (IF store = None THEN {} ELSE store.works) : w.state = "minted" => w \in store'.works]_vars

(* A halt survives restarts.                                               *)
HaltSurvives == [][halted => halted']_vars

(* The safety halt answers contradicted finality and nothing less.         *)
HaltIsGenuine == halted => rewritten

(* The owner index agrees with the history it names.                       *)
OwnersAreTheChain ==
    \A o \in {owners, storeOwners} \ {None} :
       o.now = Holder(None, o.head) /\ o.settled = Holder(None, Upto(o.head, o.final))
=============================================================================
