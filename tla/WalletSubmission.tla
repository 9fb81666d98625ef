--------------------------- MODULE WalletSubmission ---------------------------
(***************************************************************************)
(* One wallet, the browser tabs of its session (openMint/clientScript.ts), *)
(* and the durable guard of what they submit (persistence/                 *)
(* walletSubmissions.ts, wallet-submission-schema.sql), with the operator  *)
(* who retires an expired request (persistence/stagingGenerativeRecovery). *)
(*                                                                         *)
(* A dispatch is a permission to show the saved transaction to the wallet; *)
(* its outcome is what the tab reports.  Any reply may be lost, a COMMIT   *)
(* may be lost with or without effect, a tab may be reloaded or replaced   *)
(* at any point, and a prompt outlives its tab.  A wallet may also answer  *)
(* "rejected" for what it broadcast: the server does not trust the report. *)
(*                                                                         *)
(* Left out: the bytes of transactions (a plan is its wallet nonce), the   *)
(* signature a plan needs (DurableIssuance), and the inspection of a mined *)
(* transaction, which only the tab that reported it performs.              *)
(***************************************************************************)
EXTENDS Integers, Sequences, FiniteSets

CONSTANTS
    Requests,
    Tabs,
    PageOf,         \* [Tabs -> Requests]: the request the tab shows
    MaxAttempts,    \* 5 in the schema
    MaxNonce,       \* bound of the model: wallet nonces
    MaxLies,        \* bound of the model: rejections of what was broadcast
    MaxReloads      \* bound of the model: reloads and new tabs

\* Each tab shows one request.
WalletAssumption ==
    /\ PageOf \in [Tabs -> Requests]
    /\ MaxAttempts \in Nat \ {0} /\ {MaxNonce, MaxLies, MaxReloads} \subseteq Nat

NoNonce == -1
NoPermit == 0

VARIABLES
    plan,       \* wallet_mint_plans: [Requests -> [nonce, active]]
    dispatch,   \* wallet_mint_dispatches with their reports: [Requests -> Seq(outcome)]
    fresh,      \* the wallet proof of the session is current
    expired,    \* [Requests -> BOOLEAN]: request or authorization expired
    tab,        \* [Tabs -> what the page holds in memory]
    stored,     \* [Tabs -> sessionStorage of the tab]
    prompts,    \* transactions the wallet is showing
    sent,       \* transactions the wallet broadcast
    lies,       \* dispatches the wallet called rejected although it broadcast them
    pending, mined,     \* the wallet's transaction counts
    reloads
tables == <<plan, dispatch, fresh, expired>>
wallet == <<prompts, sent, lies, pending, mined>>
vars == <<tables, tab, stored, wallet, reloads>>

Page == [pc |-> "idle", nonce |-> NoNonce, permit |-> NoPermit, uncertain |-> FALSE, hash |-> FALSE, begun |-> NoPermit]
Empty == [kind |-> "none", permit |-> NoPermit]
Last(r) == Len(dispatch[r])
Outcome(r) == IF Last(r) = 0 THEN "none" ELSE dispatch[r][Last(r)]

Init ==
    /\ plan = [r \in Requests |-> [nonce |-> NoNonce, active |-> FALSE]]
    /\ dispatch = [r \in Requests |-> <<>>]
    /\ fresh = TRUE /\ expired = [r \in Requests |-> FALSE]
    /\ tab = [t \in Tabs |-> Page] /\ stored = [t \in Tabs |-> Empty]
    /\ prompts = {} /\ sent = {} /\ lies = {} /\ pending = 0 /\ mined = 0
    /\ reloads = 0

-----------------------------------------------------------------------------
\* The tab.

Show(t, page) == tab' = [tab EXCEPT ![t] = page]
Save(t, what) == stored' = [stored EXCEPT ![t] = what]
Offers(p) == p.pc = "idle" /\ ~p.uncertain /\ ~p.hash
Idle(p) == [p EXCEPT !.pc = "idle", !.nonce = NoNonce]
Uncertain(p) == [Idle(p) EXCEPT !.uncertain = TRUE]

\* Continue mint: the network context is read, then the server is asked to authorize.
Observe(t) ==
    /\ Offers(tab[t])
    /\ Show(t, [tab[t] EXCEPT !.pc = "stage", !.nonce = pending])
    /\ UNCHANGED <<tables, stored, wallet, reloads>>

Free(r, n) == ~\E q \in Requests \ {r} : plan[q].active /\ plan[q].nonce = n
Resolved(r) == Outcome(r) \in {"none", "rejected"}

\* stage(): the plan is the saved one, or is saved now.
Stageable(r, n) ==
    /\ fresh /\ ~expired[r] /\ Resolved(r)
    /\ IF plan[r].nonce = NoNonce THEN Free(r, n) ELSE plan[r].active /\ plan[r].nonce = n
Stage(t) ==
    LET r == PageOf[t]
        n == tab[t].nonce IN
    /\ tab[t].pc = "stage"
    /\ \/ Stageable(r, n) /\ plan' = [plan EXCEPT ![r] = [nonce |-> n, active |-> TRUE]]
       \/ UNCHANGED plan
    /\ \/ plan'[r].nonce = n /\ Stageable(r, n) /\ Show(t, [tab[t] EXCEPT !.pc = "check"])
       \/ Show(t, Idle(tab[t]))
    /\ UNCHANGED <<dispatch, fresh, expired, stored, wallet, reloads>>

\* The page notes that a submission may exist before it asks for the permit.
Guard(t) == Save(t, [kind |-> "uncertain", permit |-> NoPermit])

\* The nonce is read once more, from the server and from the wallet.
Check(t) ==
    /\ tab[t].pc = "check"
    /\ IF tab[t].nonce = pending
       THEN Guard(t) /\ Show(t, [tab[t] EXCEPT !.pc = "begin"])
       ELSE Save(t, Empty) /\ Show(t, Idle(tab[t]))
    /\ UNCHANGED <<tables, wallet, reloads>>

Ready(r, n) ==
    /\ fresh /\ ~expired[r]
    /\ Resolved(r) /\ Last(r) < MaxAttempts
    /\ plan[r].active /\ plan[r].nonce = n
\* begin(): whatever goes wrong from here on leaves the page uncertain.
Begin(t) ==
    LET r == PageOf[t] IN
    /\ tab[t].pc = "begin"
    /\ \/ /\ Ready(r, tab[t].nonce)
          /\ dispatch' = [dispatch EXCEPT ![r] = Append(@, "open")]
          /\ \/ /\ Show(t, [tab[t] EXCEPT !.pc = "permitted", !.permit = Last(r) + 1, !.begun = Last(r) + 1])
                /\ Save(t, [kind |-> "uncertain", permit |-> Last(r) + 1])
             \/ Show(t, [Uncertain(tab[t]) EXCEPT !.begun = Last(r) + 1]) /\ UNCHANGED stored
       \/ UNCHANGED <<dispatch, stored>> /\ Show(t, Uncertain(tab[t]))
    /\ UNCHANGED <<plan, fresh, expired, wallet, reloads>>

Invoke(t) ==
    /\ tab[t].pc = "permitted"
    /\ prompts' = prompts \cup {[r |-> PageOf[t], attempt |-> tab[t].permit, nonce |-> tab[t].nonce, tab |-> t]}
    /\ Show(t, [tab[t] EXCEPT !.pc = "prompt"])
    /\ UNCHANGED <<tables, stored, sent, lies, pending, mined, reloads>>
\* The account or the wallet changed while the permit was fetched.
WalletChanged(t) ==
    /\ tab[t].pc = "permitted" /\ Show(t, Uncertain(tab[t]))
    /\ UNCHANGED <<tables, stored, wallet, reloads>>

-----------------------------------------------------------------------------
\* The wallet.

\* Only the page that asked learns the answer.
Waits(p) == tab[p.tab].pc = "prompt" /\ tab[p.tab].permit = p.attempt
Tell(p, pc) == IF Waits(p) THEN Show(p.tab, [tab[p.tab] EXCEPT !.pc = pc]) ELSE UNCHANGED tab
Broadcast(p) ==
    /\ p.nonce >= mined /\ p.nonce <= pending /\ p.nonce < MaxNonce
    /\ sent' = sent \cup {[r |-> p.r, attempt |-> p.attempt, nonce |-> p.nonce]}
    /\ pending' = IF p.nonce = pending THEN pending + 1 ELSE pending
    /\ UNCHANGED mined
Decide(p) ==
    /\ p \in prompts /\ prompts' = prompts \ {p}
    /\ \/ Broadcast(p) /\ Tell(p, "hash") /\ UNCHANGED lies
       \/ Broadcast(p) /\ Tell(p, "failed") /\ UNCHANGED lies
       \/ Cardinality(lies) < MaxLies /\ Broadcast(p) /\ Tell(p, "rejected")
          /\ lies' = lies \cup {[r |-> p.r, attempt |-> p.attempt]}
       \/ UNCHANGED <<sent, lies, pending, mined>> /\ (Tell(p, "rejected") \/ Tell(p, "failed"))
    /\ UNCHANGED <<tables, stored, reloads>>
Mine ==
    /\ mined < pending /\ mined' = mined + 1
    /\ UNCHANGED <<tables, tab, stored, prompts, sent, lies, pending, reloads>>
OtherTransaction ==
    /\ pending < MaxNonce /\ pending' = pending + 1
    /\ UNCHANGED <<tables, tab, stored, prompts, sent, lies, mined, reloads>>

-----------------------------------------------------------------------------
\* What the tab reports.

Declined(pc) == pc = "rejected"
\* report(): the permit is the last one's, and what was recorded stays.
Accepts(r, a, outcome) == a # NoPermit /\ a = Last(r) /\ dispatch[r][a] \in {"open", outcome}
Record(r, a, outcome) == dispatch' = [dispatch EXCEPT ![r][a] = outcome]

OnHash(t) ==
    /\ tab[t].pc = "hash"
    /\ Show(t, [Idle(tab[t]) EXCEPT !.pc = "report", !.hash = TRUE])
    /\ Save(t, [kind |-> "hash", permit |-> tab[t].permit])
    /\ UNCHANGED <<tables, wallet, reloads>>
OnRejection(t) ==
    LET r == PageOf[t]
        a == tab[t].permit IN
    /\ Declined(tab[t].pc)
    /\ \/ /\ Accepts(r, a, "rejected") /\ Record(r, a, "rejected")
          /\ Show(t, [Idle(tab[t]) EXCEPT !.permit = NoPermit]) /\ Save(t, Empty)
       \/ /\ Accepts(r, a, "rejected") /\ Record(r, a, "rejected")
          /\ Show(t, Uncertain(tab[t])) /\ UNCHANGED stored
       \/ UNCHANGED <<dispatch, stored>> /\ Show(t, Uncertain(tab[t]))
    /\ UNCHANGED <<plan, fresh, expired, wallet, reloads>>
OnFailure(t) ==
    /\ tab[t].pc = "failed" /\ ~Declined("failed")
    /\ Show(t, Uncertain(tab[t]))
    /\ UNCHANGED <<tables, stored, wallet, reloads>>
Report(t) ==
    LET r == PageOf[t]
        a == tab[t].permit IN
    /\ tab[t].pc = "report"
    /\ \/ Accepts(r, a, "submitted") /\ Record(r, a, "submitted")
       \/ UNCHANGED dispatch
    /\ Show(t, Idle(tab[t]))
    /\ UNCHANGED <<plan, fresh, expired, stored, wallet, reloads>>

\* A poll of the status: a dispatch without a rejection makes every tab wait.
Poll(t) ==
    LET r == PageOf[t] IN
    /\ tab[t].pc = "idle" /\ ~tab[t].hash /\ ~Resolved(r)
    /\ IF Outcome(r) = "submitted"
       THEN /\ Show(t, [tab[t] EXCEPT !.hash = TRUE, !.uncertain = FALSE])
            /\ Save(t, [kind |-> "hash", permit |-> tab[t].permit])
       ELSE Show(t, Uncertain(tab[t])) /\ UNCHANGED stored
    /\ UNCHANGED <<tables, wallet, reloads>>

\* A reload restores the guard from sessionStorage; a new tab has none.
Reload(t) ==
    /\ reloads < MaxReloads /\ reloads' = reloads + 1
    /\ LET s == stored[t] IN
       Show(t, [Page EXCEPT !.permit = s.permit, !.hash = s.kind = "hash", !.uncertain = s.kind = "uncertain",
                            !.begun = tab[t].begun,
                            !.pc = IF s.kind = "hash" /\ s.permit # NoPermit THEN "report" ELSE "idle"])
    /\ UNCHANGED <<tables, stored, wallet>>
NewTab(t) ==
    /\ reloads < MaxReloads /\ reloads' = reloads + 1
    /\ Show(t, Page) /\ Save(t, Empty)
    /\ UNCHANGED <<tables, wallet>>

-----------------------------------------------------------------------------
\* Time, the proof, and the operator.

Expire(r) ==
    /\ ~expired[r] /\ expired' = [expired EXCEPT ![r] = TRUE]
    /\ UNCHANGED <<plan, dispatch, fresh, tab, stored, wallet, reloads>>
Proof ==
    /\ fresh' = ~fresh
    /\ UNCHANGED <<plan, dispatch, expired, tab, stored, wallet, reloads>>
\* apply(): the authorization expired unminted; its nonce may be used again.
Retirable(r) == expired[r]
Retire(r) ==
    /\ plan[r].active /\ Retirable(r)
    /\ plan' = [plan EXCEPT ![r].active = FALSE]
    /\ UNCHANGED <<dispatch, fresh, expired, tab, stored, wallet, reloads>>

TabStep(t) ==
    \/ Observe(t) \/ Stage(t) \/ Check(t) \/ Begin(t) \/ Invoke(t) \/ WalletChanged(t)
    \/ OnHash(t) \/ OnRejection(t) \/ OnFailure(t) \/ Report(t)
    \/ Poll(t) \/ Reload(t) \/ NewTab(t)
Next ==
    \/ \E t \in Tabs : TabStep(t)
    \/ \E p \in prompts : Decide(p)
    \/ Mine \/ OtherTransaction \/ Proof
    \/ \E r \in Requests : Expire(r) \/ Retire(r)
Spec == Init /\ [][Next]_vars

-----------------------------------------------------------------------------
(* The wallet broadcasts a request once, and once more only for each        *)
(* rejection it reported falsely: no lost reply, reload, second tab or late *)
(* approval gets the saved transaction sent again (walletSubmissions.ts,    *)
(* #ready and report; clientScript.ts, submitMint).                         *)
SentOncePerRejection ==
    \A r \in Requests :
        Cardinality({s \in sent : s.r = r}) <= 1 + Cardinality({l \in lies : l.r = r})

(* Whatever was reported, a request is only ever sent with one nonce: a     *)
(* second sending replaces the first and cannot mint again.                 *)
OneNoncePerRequest == \A s, z \in sent : s.r = z.r => s.nonce = z.nonce

(* A recorded rejection is one the wallet gave: nothing was broadcast under *)
(* its permit, unless the wallet itself said otherwise.                     *)
RejectedIsUnsent ==
    \A s \in sent : dispatch[s.r][s.attempt] = "rejected" => [r |-> s.r, attempt |-> s.attempt] \in lies

(* A tab that asked for a dispatch that is still open never offers another  *)
(* submission, whether its reply was lost or the page was reloaded.         *)
TabRemembers ==
    \A t \in Tabs : Offers(tab[t]) /\ tab[t].begun # NoPermit => dispatch[PageOf[t]][tab[t].begun] # "open"

(* A report is never replaced, and no dispatch is added behind one that is  *)
(* open or submitted.                                                       *)
ReportsStand ==
    [][\A r \in Requests :
          /\ Last(r) <= Len(dispatch'[r])
          /\ \A i \in 1..Last(r) :
                /\ dispatch[r][i] # "open" => dispatch'[r][i] = dispatch[r][i]
                /\ i < Len(dispatch'[r]) => dispatch'[r][i] = "rejected"]_vars
=============================================================================
