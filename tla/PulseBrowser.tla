---------------------------- MODULE PulseBrowser ----------------------------
(***************************************************************************)
(* The mint page of the Sepolia test site in one browser tab (scripts/     *)
(* pulse-sepolia-client.mjs): preparing, beginning, sending and reporting  *)
(* a mint, the reference it saves in sessionStorage, the polls that follow *)
(* it and the explicit recovery that alone may allow another mint.         *)
(*                                                                         *)
(* The server is what PulseSite promises of it: one row per handle, begun  *)
(* once, retired only when its authorization can never mint.  A request is *)
(* answered when it is made and the answer is delivered at any later time, *)
(* or never.  A submission goes on between its awaits whatever the page    *)
(* has begun since: a page that came back from the back/forward cache can  *)
(* reveal a mint whose wallet has not answered yet, and then begin another.*)
(* Quotes, sale phases and wording are left out; a sale that stops makes a *)
(* submission give up.                                                     *)
(***************************************************************************)
EXTENDS Naturals, FiniteSets

CONSTANTS
    Handles, Wallets, None,
    MaxIds,         \* bound on the attempts the server ever prepares
    MaxPolls,       \* bound on status requests in flight
    MaxFlows,       \* bound on submissions in progress at once
    Faults          \* of "storage", "network", "elsewhere", "reorg", "reload", "return", "switch"

VARIABLES
    row,            \* server: handle -> [id, wallet, stage, known], or None
    chain,          \* server: id -> "none", "confirming", "minted" or "reverted"
    over,           \* ids whose deadline the finalized chain has passed
    sent,           \* ids some wallet has broadcast
    proof,          \* the wallet of the server session, or None
    stored,         \* sessionStorage: the pending reference, or None
    cache,          \* the document's copy of a reference that could not be stored
    revealRef,      \* sessionStorage: the handle of the reveal reference, or None
    doc,            \* the document: [busy, pending, terminal, revealed, wallet, shown, loading]
    timer,          \* the handle of the scheduled poll, or None
    stray,          \* the handles of polls scheduled before that one, which clearTimeout misses
    polls,          \* status requests in flight
    recovery,       \* the recovery request in flight
    flows,          \* the submissions in progress
    mine,           \* history: id -> how often this tab handed it to the wallet
    seen,           \* history: ids this tab has revealed
    displaced       \* history: ids whose saved reference a step of another mint dropped

server == <<row, chain, over, sent, proof>>
storage == <<stored, cache, revealRef>>
polling == <<timer, stray, polls, recovery>>
history == <<mine, seen, displaced>>
vars == <<row, chain, over, sent, proof, stored, cache, revealRef, doc, timer, stray, polls, recovery, flows, mine,
          seen, displaced>>

Ids == 1..MaxIds
Slots == 1..MaxFlows
NoFlow == [pc |-> "none"]
NoRecovery == [live |-> FALSE]
Blank == [busy |-> FALSE, pending |-> FALSE, terminal |-> FALSE, revealed |-> None, wallet |-> None, shown |-> None,
          loading |-> FALSE]

Init == /\ row = [h \in Handles |-> None]
        /\ chain = [i \in Ids |-> "none"]
        /\ over = {} /\ sent = {} /\ proof = None
        /\ stored = None /\ cache = None /\ revealRef = None
        /\ doc = Blank
        /\ timer = None /\ stray = {} /\ polls = {} /\ recovery = NoRecovery
        /\ flows = [k \in Slots |-> NoFlow]
        /\ mine = [i \in Ids |-> 0] /\ seen = {} /\ displaced = {}

-----------------------------------------------------------------------------
(* The server and the chain.                                               *)

Prepared == {row[h].id : h \in {x \in Handles : row[x] # None}}
HandleOf(i) == CHOOSE h \in Handles : row[h] # None /\ row[h].id = i
Fresh == 1 + Cardinality({i \in Ids : \E h \in Handles : row[h] # None /\ row[h].id >= i})

Answer(h, w) ==
    IF row[h] = None \/ row[h].stage = "expired" THEN "new"
    ELSE IF row[h].wallet # w THEN "HANDLE_RESERVED"
    ELSE IF row[h].stage # "prepared" THEN "SUBMISSION_STARTED"
    ELSE IF row[h].id \in over THEN "REQUEST_EXPIRED" ELSE "again"

(* GET /api/test/status.  The gallery may not have seen an inclusion yet;  *)
(* a reported transaction is then looked up by its receipt.                *)
Status(h, w) ==
    LET r == row[h]
        by == IF w # None /\ (r = None \/ r.wallet = w) THEN w ELSE None
        V(state, owner) == [state |-> state, code |-> IF r = None THEN None ELSE r.id, owner |-> owner] IN
    IF r = None THEN {V("not-submitted", by)}
    ELSE (IF chain[r.id] \in {"confirming", "minted"} THEN {V(chain[r.id], None)} ELSE {})
         \cup (CASE r.stage = "prepared" -> {V("not-submitted", by)}
                 [] r.stage = "expired" -> {V("retry-allowed", by)}
                 [] r.stage = "begun" -> {V("submission-unknown", None)}
                 [] r.stage = "reported" -> {V(IF chain[r.id] = "none" THEN "pending" ELSE chain[r.id], None)})

(* POST /api/test/recover, as PulseSite has it.                            *)
Recovered(r) ==
    IF r.id \in over /\ chain[r.id] # "minted" THEN [r EXCEPT !.stage = "expired"]
    ELSE IF r.known \/ chain[r.id] = "minted" THEN [r EXCEPT !.stage = "reported"] ELSE r

Include(i) == /\ i \in sent \ over /\ chain[i] = "none"
              /\ chain' = [chain EXCEPT ![i] = "confirming"]
              /\ UNCHANGED <<row, over, sent, proof, storage, doc, polling, flows, history>>

Revert(i) == /\ i \in sent /\ chain[i] = "none"
             /\ chain' = [chain EXCEPT ![i] = "reverted"]
             /\ UNCHANGED <<row, over, sent, proof, storage, doc, polling, flows, history>>

Reorganize(i) == /\ "reorg" \in Faults /\ chain[i] = "confirming"
                 /\ chain' = [chain EXCEPT ![i] = "none"]
                 /\ UNCHANGED <<row, over, sent, proof, storage, doc, polling, flows, history>>

Finalize(i) == /\ i \in Prepared
               /\ \/ chain[i] = "confirming" /\ chain' = [chain EXCEPT ![i] = "minted"] /\ UNCHANGED over
                  \/ chain[i] \in {"none", "reverted"} /\ i \notin over /\ over' = over \cup {i} /\ UNCHANGED chain
               /\ UNCHANGED <<row, sent, proof, storage, doc, polling, flows, history>>

(* The same person in another tab, or on another device.                   *)
Elsewhere(h) ==
    /\ "elsewhere" \in Faults
    /\ \/ \E w \in Wallets : /\ Answer(h, w) = "new" /\ Fresh \in Ids
                             /\ row' = [row EXCEPT ![h] = [id |-> Fresh, wallet |-> w, stage |-> "prepared", known |-> FALSE]]
                             /\ UNCHANGED sent
       \/ /\ row[h] # None /\ row[h].stage = "prepared" /\ row[h].id \notin over
          /\ row' = [row EXCEPT ![h].stage = "begun"]
          /\ sent' = sent \cup {row[h].id}
       \/ row[h] # None /\ row' = [row EXCEPT ![h] = Recovered(row[h])] /\ UNCHANGED sent
    /\ UNCHANGED <<chain, over, proof, storage, doc, polling, flows, history>>

-----------------------------------------------------------------------------
(* The document.  `live` and `same` say whether the generation and the     *)
(* connection epoch a request was made in are still the current ones.      *)

Reference == IF cache # None THEN cache ELSE stored
Marker(h, code, w, needs) == [handle |-> h, code |-> code, wallet |-> w, needs |-> needs]
RevealMarker(h) == Marker(h, None, None, FALSE)
Raw == IF Reference # None THEN Reference ELSE IF revealRef # None THEN RevealMarker(revealRef) ELSE None

(* Writing the reference; a failed write keeps it in this document only.   *)
Save(m) == \/ stored' = m /\ cache' = None
           \/ "storage" \in Faults /\ stored' = stored /\ cache' = m
Forget == stored' = None /\ cache' = None

(* A step of one mint drops the saved reference of another.                *)
Drops(other) == displaced' = displaced \cup {i \in Ids : Reference # None /\ Reference.code = i /\ other}
Displace(h) == Drops(Reference.handle # h)

(* What a new generation, and a new epoch, make of what is in flight.      *)
Aged(S) == {[p EXCEPT !.live = FALSE] : p \in S}
Unlinked(S) == {[p EXCEPT !.same = FALSE] : p \in S}
AgedRecovery == [recovery EXCEPT !.live = FALSE]
UnlinkedFlows == [k \in Slots |-> IF flows[k] = NoFlow THEN NoFlow ELSE [flows[k] EXCEPT !.same = FALSE]]

(* A poll that asks at once, beside those of S; a scheduled one.           *)
Poll(h, raw, w, S) ==
    \E v \in Status(h, w) :
        /\ polls' = S \cup {[handle |-> h, raw |-> raw, live |-> TRUE, same |-> TRUE, value |-> v]}
        /\ Cardinality(polls') <= MaxPolls
Schedule(h) == timer' = h /\ stray' = IF timer = None THEN stray ELSE stray \cup {timer}
NewGeneration(S) == polls' = Aged(S) /\ recovery' = AgedRecovery /\ timer' = None /\ UNCHANGED stray

CanSubmit == ~doc.busy /\ ~doc.pending /\ ~doc.terminal /\ doc.revealed = None /\ doc.wallet # None

(* Follow a saved reference: the lock is taken first; only the wallet it   *)
(* belongs to, or a reveal, starts a poll.                                 *)
(* slip: the lock is taken when the first answer comes *)
BadResume(d, m) == [d EXCEPT !.busy = FALSE]
Resume(d, m) == [d EXCEPT !.pending = TRUE, !.busy = FALSE]
Follow(d, m, w, S) ==
    /\ doc' = Resume(d, m)
    /\ recovery' = AgedRecovery /\ timer' = None /\ UNCHANGED stray
    /\ IF m.wallet = None \/ m.wallet = d.wallet THEN Poll(m.handle, m, w, Aged(S)) ELSE polls' = Aged(S)

(* A new connection: the old proof's answers lose their epoch, and their   *)
(* generation too when a previous mint is being followed.                  *)
Connect(w) ==
    LET d == [doc EXCEPT !.wallet = w] IN
    /\ ~doc.busy /\ ~doc.loading
    /\ proof' = w /\ flows' = UnlinkedFlows
    /\ IF doc.pending /\ Raw # None THEN Follow(d, Raw, w, Unlinked(polls))
       ELSE /\ doc' = d
            /\ IF doc.pending THEN NewGeneration(Unlinked(polls))
               ELSE polls' = Unlinked(polls) /\ UNCHANGED <<timer, stray, recovery>>
    /\ UNCHANGED <<row, chain, over, sent, storage, history>>

(* The wallet reports another account or network.                          *)
WalletChanges ==
    /\ "switch" \in Faults /\ doc.wallet # None
    /\ doc' = [doc EXCEPT !.wallet = None]
    /\ flows' = UnlinkedFlows
    /\ IF doc.pending /\ doc.revealed = None THEN NewGeneration(Unlinked(polls))
       ELSE polls' = Unlinked(polls) /\ UNCHANGED <<timer, stray, recovery>>
    /\ UNCHANGED <<server, storage, history>>

(* A reload forgets the document, a submission of it included; a page that *)
(* comes back from the back/forward cache keeps it, and reads its session  *)
(* and references again unless it is busy or shows a mint.                 *)
Loading(d) == [d EXCEPT !.wallet = None, !.loading = TRUE]

Reload ==
    /\ "reload" \in Faults
    /\ cache' = None /\ timer' = None /\ stray' = {} /\ polls' = {} /\ recovery' = NoRecovery
    /\ flows' = [k \in Slots |-> NoFlow] /\ doc' = Loading(Blank)
    /\ UNCHANGED <<server, stored, revealRef, history>>

Return ==
    /\ "return" \in Faults
    /\ recovery' = AgedRecovery /\ timer' = None /\ UNCHANGED stray
    /\ IF doc.busy \/ doc.revealed # None
         THEN /\ IF Raw = None THEN polls' = Aged(polls) ELSE Poll(Raw.handle, Raw, proof, Aged(polls))
              /\ UNCHANGED <<doc, flows>>
         ELSE polls' = Unlinked(Aged(polls)) /\ doc' = Loading(doc) /\ flows' = UnlinkedFlows
    /\ UNCHANGED <<server, storage, history>>

(* The session is answered: whatever reference is saved by now is followed.*)
Session ==
    LET d == [doc EXCEPT !.wallet = proof, !.loading = FALSE] IN
    /\ doc.loading
    /\ IF Raw = None THEN doc' = d /\ UNCHANGED polling ELSE Follow(d, Raw, proof, polls)
    /\ UNCHANGED <<server, storage, flows, history>>

-----------------------------------------------------------------------------
(* The submission.  Every action is of the submission in slot k, whatever  *)
(* else is in progress.                                                    *)

Submit(h) ==
    LET k == CHOOSE x \in Slots : flows[x] = NoFlow /\ \A y \in 1..(x - 1) : flows[y] # NoFlow
        a == Answer(h, doc.wallet)
        Went(code, id) == flows' = [flows EXCEPT ![k] = [pc |-> "prepared", handle |-> h, id |-> id,
                                                         wallet |-> doc.wallet, error |-> code, same |-> TRUE]] IN
    /\ CanSubmit /\ \E x \in Slots : flows[x] = NoFlow
    /\ doc' = [doc EXCEPT !.busy = TRUE]
    /\ NewGeneration(polls)
    /\ \/ a = "new" /\ Fresh \in Ids /\ Went(None, Fresh)
          /\ row' = [row EXCEPT ![h] = [id |-> Fresh, wallet |-> doc.wallet, stage |-> "prepared", known |-> FALSE]]
       \/ a = "again" /\ Went(None, row[h].id) /\ row' = row
       \/ a \notin {"new", "again"} /\ Went(a, None) /\ row' = row
    /\ UNCHANGED <<chain, over, sent, proof, storage, history>>

Ends(k) == flows' = [flows EXCEPT ![k] = NoFlow]
Stop(k) == Ends(k) /\ doc' = [doc EXCEPT !.busy = FALSE]

(* Only a refusal that proves an earlier request exists makes the tab      *)
(* follow it, and only for the wallet and connection that asked.           *)
Discovers(f) == /\ f.error \in {"SUBMISSION_STARTED", "REQUEST_EXPIRED"}
                /\ ~doc.pending /\ doc.revealed = None
                /\ f.same /\ doc.wallet = f.wallet

Fail(k) ==
    LET f == flows[k]
        m == Marker(f.handle, None, f.wallet, TRUE) IN
    IF Discovers(f)
      THEN /\ Save(m) /\ Displace(f.handle)
           /\ doc' = [doc EXCEPT !.busy = FALSE, !.pending = TRUE, !.shown = f.handle]
           /\ Poll(f.handle, m, proof, polls)
           /\ Ends(k)
           /\ UNCHANGED <<revealRef, timer, stray, recovery>>
      ELSE Stop(k) /\ UNCHANGED <<storage, polling, displaced>>

(* The answer to prepare, then POST /api/test/begin.                       *)
Begin(k) ==
    LET f == flows[k] IN
    /\ f.pc = "prepared"
    /\ \/ f.error # None /\ Fail(k) /\ UNCHANGED row
       \/ Stop(k) /\ UNCHANGED <<row, storage, polling, displaced>> \* no answer, a closed sale or another wallet
       \/ /\ f.error = None /\ doc.wallet = f.wallet
          /\ LET r == row[f.handle]
                 ok == r # None /\ r.id = f.id /\ r.stage = "prepared" /\ r.id \notin over IN
             /\ row' = IF ok THEN [row EXCEPT ![f.handle].stage = "begun"] ELSE row
             /\ flows' = [flows EXCEPT ![k].pc = "begun", ![k].error = IF ok THEN None ELSE "SUBMISSION_STARTED"]
          /\ UNCHANGED <<doc, storage, polling, displaced>>
    /\ UNCHANGED <<chain, over, sent, proof, mine, seen>>

(* The recovery reference is saved before the wallet is asked; if that     *)
(* fails, or the sale stops, nothing is sent.                              *)
Remember(k) ==
    LET f == flows[k] IN
    /\ f.pc = "begun"
    /\ \/ f.error # None /\ Fail(k) /\ UNCHANGED mine
       \/ Stop(k) /\ UNCHANGED <<storage, polling, displaced, mine>>    \* the answer is lost
       \/ /\ f.error = None
          /\ Save(Marker(f.handle, f.id, f.wallet, FALSE)) /\ Displace(f.handle)
          /\ \/ /\ cache' = None
                /\ doc' = [doc EXCEPT !.pending = TRUE] /\ flows' = [flows EXCEPT ![k].pc = "asked"]
                /\ mine' = [mine EXCEPT ![f.id] = IF @ = 2 THEN 2 ELSE @ + 1]
             \/ /\ doc' = [doc EXCEPT !.pending = TRUE, !.busy = FALSE, !.shown = f.handle]
                /\ Ends(k) /\ UNCHANGED mine
          /\ UNCHANGED <<revealRef, polling>>
    /\ UNCHANGED <<server, seen>>

(* The wallet broadcasts what it was asked to at any time, or never.       *)
Broadcast(i) == /\ mine[i] > 0 /\ i \notin sent /\ sent' = sent \cup {i}
                /\ UNCHANGED <<row, chain, over, proof, storage, doc, polling, flows, history>>

(* An error of eth_sendTransaction proves nothing and ends the submission. *)
Refused(k) ==
    /\ flows[k].pc = "asked"
    /\ Ends(k) /\ doc' = [doc EXCEPT !.busy = FALSE, !.shown = flows[k].handle]
    /\ UNCHANGED <<server, storage, polling, history>>

(* The hash is saved and reported; the report may be lost.                 *)
Hash(k) ==
    LET f == flows[k]
        told == IF row[f.handle].id = f.id /\ row[f.handle].stage = "begun"
                THEN [row EXCEPT ![f.handle].stage = "reported", ![f.handle].known = TRUE] ELSE row IN
    /\ f.pc = "asked" /\ f.id \in sent
    /\ Save(Marker(f.handle, f.id, f.wallet, FALSE)) /\ Displace(f.handle)
    /\ row' \in {told} \cup (IF "network" \in Faults THEN {row} ELSE {})
    /\ flows' = [flows EXCEPT ![k].pc = "told"]
    /\ UNCHANGED <<chain, over, sent, proof, revealRef, doc, polling, mine, seen>>

(* The report is answered, or given up, and the status is followed.        *)
Report(k) ==
    /\ flows[k].pc = "told"
    /\ Stop(k) /\ Poll(flows[k].handle, Raw, proof, polls)
    /\ UNCHANGED <<server, storage, timer, stray, recovery, history>>

-----------------------------------------------------------------------------
(* The polls.                                                              *)

PollAsk(h) ==
    /\ \/ timer = h /\ timer' = None /\ UNCHANGED stray
       \/ h \in stray /\ stray' = stray \ {h} /\ UNCHANGED timer
    /\ Poll(h, Raw, proof, polls)
    /\ UNCHANGED <<server, storage, doc, recovery, flows, history>>

(* Whether a proof that nothing was submitted, or that nothing can come of *)
(* it any more, is about the reference this document is following.         *)
Releases(p) ==
    /\ p.same /\ doc.wallet # None /\ p.value.owner = doc.wallet /\ p.raw = Raw
    /\ p.value.state = "retry-allowed" =>
          /\ doc.pending /\ Raw # None /\ Raw.handle = p.handle
          /\ Raw.code \in {None, p.value.code} /\ Raw.wallet \in {None, doc.wallet}
Counts(p) == p.live

Unlock(d) == [d EXCEPT !.pending = FALSE, !.terminal = FALSE, !.busy = FALSE, !.shown = None]

PollReply(p) ==
    LET s == p.value.state
        rest == polls \ {p}
        Again(d) == doc' = d /\ Schedule(p.handle) /\ polls' = rest /\ UNCHANGED <<storage, recovery, seen, displaced>>
        Quiet(d) == doc' = d /\ polls' = rest /\ UNCHANGED <<storage, timer, stray, recovery, seen, displaced>> IN
    /\ \/ ~Counts(p) /\ Quiet(doc)
       \/ "network" \in Faults /\ Counts(p) /\ Again(doc)
       \/ /\ Counts(p) /\ s \in {"not-submitted", "retry-allowed"}
          /\ IF doc.revealed # None \/ ~Releases(p) THEN Again(doc)
             ELSE IF s = "not-submitted" /\ row[p.handle] # None /\ p.value.code # None /\ Raw # None /\ Raw.needs
                    THEN Quiet([doc EXCEPT !.shown = p.handle])
             ELSE \/ /\ Forget /\ revealRef' = None /\ Displace(p.handle)
                     /\ doc' = Unlock(doc) /\ NewGeneration(rest)
                     /\ UNCHANGED seen
                  \/ "storage" \in Faults /\ Again([doc EXCEPT !.shown = p.handle])
       \/ Counts(p) /\ s = "submission-unknown" /\ Again(IF doc.revealed # None THEN doc ELSE [doc EXCEPT !.shown = p.handle])
       \/ Counts(p) /\ s = "pending" /\ Again([doc EXCEPT !.shown = None])
       \/ /\ Counts(p) /\ s = "reverted"
          /\ IF doc.revealed # None THEN Quiet(doc)
             ELSE /\ doc' = [doc EXCEPT !.pending = TRUE, !.terminal = TRUE, !.busy = FALSE, !.shown = p.handle]
                  /\ NewGeneration(rest)
                  /\ UNCHANGED <<storage, seen, displaced>>
       \/ /\ Counts(p) /\ s \in {"confirming", "minted"}
          /\ IF doc.revealed \notin {None, p.value.code} THEN Again(doc)     \* another mint is shown
             ELSE /\ doc' = [doc EXCEPT !.revealed = p.value.code, !.pending = FALSE, !.shown = None]
                  /\ revealRef' \in {p.handle} \cup (IF "storage" \in Faults THEN {revealRef} ELSE {})
                  /\ Forget /\ Displace(p.handle)
                  /\ IF s = "minted" THEN UNCHANGED <<timer, stray>> ELSE Schedule(p.handle)
                  /\ polls' = rest
                  /\ seen' = seen \cup {p.value.code}
                  /\ UNCHANGED recovery
    /\ UNCHANGED <<server, flows, mine>>

-----------------------------------------------------------------------------
(* The explicit recovery of a previous mint.                               *)

RecoverAsk ==
    LET h == doc.shown IN
    /\ ~recovery.live
    /\ doc.pending /\ doc.revealed = None /\ h # None
    /\ doc.wallet # None /\ Raw # None /\ Raw.handle = h /\ Raw.wallet \in {None, doc.wallet}
    /\ row[h] # None /\ row[h].wallet = proof /\ Raw.code \in {None, row[h].id}
    /\ row' = [row EXCEPT ![h] = Recovered(row[h])]
    /\ LET r == row'[h] IN
       recovery' = [handle |-> h, raw |-> Raw, wallet |-> doc.wallet, live |-> TRUE, code |-> r.id,
                    state |-> CASE r.stage = "expired" -> "retry-allowed"
                                [] r.stage = "reported" -> IF chain[r.id] = "none" THEN "pending" ELSE chain[r.id]
                                [] OTHER -> "submission-unknown"]
    /\ polls' = Aged(polls) /\ timer' = None
    /\ UNCHANGED <<chain, over, sent, proof, storage, doc, stray, flows, history>>

Current == /\ recovery.live /\ doc.wallet = recovery.wallet
           /\ doc.pending /\ doc.revealed = None /\ doc.shown = recovery.handle /\ Raw = recovery.raw

RecoverReply ==
    LET h == recovery.handle  s == recovery.state IN
    /\ recovery # NoRecovery
    /\ recovery' = NoRecovery
    /\ \/ ~Current /\ UNCHANGED <<storage, doc, timer, stray, polls>>
       \/ "network" \in Faults /\ Current /\ Schedule(h) /\ UNCHANGED <<storage, doc, polls>>
       \/ /\ Current /\ s = "retry-allowed"
          /\ \/ /\ Forget /\ revealRef' = None
                /\ doc' = Unlock(doc) /\ timer' = None /\ polls' = Aged(polls) /\ UNCHANGED stray
             \/ "storage" \in Faults /\ Schedule(h) /\ UNCHANGED <<storage, doc, polls>>
       \/ Current /\ s = "submission-unknown" /\ Schedule(h) /\ UNCHANGED <<storage, doc, polls>>
       \/ /\ Current /\ s = "reverted"
          /\ doc' = [doc EXCEPT !.terminal = TRUE, !.busy = FALSE] /\ timer' = None /\ polls' = Aged(polls)
          /\ UNCHANGED <<storage, stray>>
       \/ /\ Current /\ s \notin {"retry-allowed", "submission-unknown", "reverted"}
          /\ doc' = [doc EXCEPT !.shown = None] /\ Poll(h, Raw, proof, polls)
          /\ UNCHANGED <<storage, timer, stray>>
    /\ UNCHANGED <<server, flows, history>>

(* After a reveal the person asks for another mint: nothing but the reveal *)
(* is asked, so a submission may still be in progress.                     *)
MintAnother ==
    /\ doc.revealed # None
    /\ Forget /\ revealRef' = None /\ Drops(Reference.code # doc.revealed)
    /\ doc' = Loading(Blank)
    /\ flows' = UnlinkedFlows /\ NewGeneration(Unlinked(polls))
    /\ UNCHANGED <<server, mine, seen>>


Next == \/ \E i \in Ids : Include(i) \/ Revert(i) \/ Reorganize(i) \/ Finalize(i) \/ Broadcast(i)
        \/ \E h \in Handles : Elsewhere(h) \/ Submit(h) \/ PollAsk(h)
        \/ \E w \in Wallets : Connect(w)
        \/ WalletChanges \/ Reload \/ Return \/ Session
        \/ \E k \in Slots : Begin(k) \/ Remember(k) \/ Refused(k) \/ Hash(k) \/ Report(k)
        \/ \E p \in polls : PollReply(p)
        \/ RecoverAsk \/ RecoverReply \/ MintAnother

Spec == Init /\ [][Next]_vars

-----------------------------------------------------------------------------
(* Something this tab sent, or may have sent, and cannot yet account for:  *)
(* it is not retired by the server and the tab has not shown its work.     *)
Unresolved(i) == /\ mine[i] > 0 /\ i \notin seen
                 /\ \E h \in Handles : row[h] # None /\ row[h].id = i /\ row[h].stage # "expired"

(* The tab that opened a wallet does not open another submission before    *)
(* that one is accounted for, whatever late answers, reconnections,        *)
(* reloads and failing storage do to it, unless a step of another mint     *)
(* dropped its reference.                                                  *)
LockHeld == (\E i \in Ids \ displaced : Unresolved(i)) => ~CanSubmit

(* A reload at any moment finds the reference of whatever may have been    *)
(* sent: it was in storage before the wallet was opened, and only a step   *)
(* of another mint can drop it.                                            *)
SentIsRemembered == \A i \in Ids \ displaced : Unresolved(i) =>
                        stored # None /\ row[stored.handle] # None /\ row[stored.handle].id = i

(* No authorization is handed to the wallet twice.                         *)
NeverResent == \A i \in Ids : mine[i] <= 1
=============================================================================
