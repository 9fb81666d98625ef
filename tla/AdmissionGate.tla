---------------------------- MODULE AdmissionGate ----------------------------
(***************************************************************************)
(* The admission of one external operation (staging/admission.ts with the  *)
(* adapters persistence/mintAdmission.ts, assessmentAdmission.ts and their *)
(* staging forms): a permit is prepared against review, chain evidence and *)
(* database; executing it takes a fresh lease, commits the durable fence   *)
(* of the operation, and starts the effect.                                *)
(*                                                                         *)
(* The work of an execution goes on when its deadline has answered the     *)
(* caller: it stops where it next reads the clock.  The fence is a row     *)
(* that an operation can have once: its COMMIT may be acknowledged, or     *)
(* lose its reply with or without effect and leave the writer unusable.    *)
(*                                                                         *)
(* Left out: the bindings of scope, intent and database (a permit is for   *)
(* the one operation), the calendar of paid operations, and wall clocks    *)
(* that disagree with the monotonic one.                                   *)
(***************************************************************************)
EXTENDS Integers, FiniteSets

CONSTANTS
    Tokens,         \* permits that can be prepared
    Executions,     \* calls of execute()
    TokenOf,        \* [Executions -> Tokens]
    Paid,           \* a provider call with a completion lifetime, or a signature
    Ttl,            \* permitTtlMs
    MaxTime,        \* bound of the model: the clock
    MaxEpoch        \* bound of the model: processes

Nobody == "nobody"

\* Each execution comes with a token; a permit lasts for some time.
GateAssumption ==
    /\ TokenOf \in [Executions -> Tokens] /\ Paid \in BOOLEAN /\ Nobody \notin Executions
    /\ Ttl \in Nat \ {0} /\ {MaxTime, MaxEpoch} \subseteq Nat

VARIABLES
    now,
    reviewed,   \* the review stands; it can be withdrawn
    halted,     \* the gate of this process
    healthy,    \* the writer of this process
    epoch,
    fence,      \* the execution whose dispatch row is durable, or Nobody
    permit,     \* [Tokens -> [state, from, until]]
    run,        \* [Executions -> record]
    called      \* executions that made the external call
world == <<now, reviewed, halted, healthy, epoch>>
vars == <<world, fence, permit, run, called>>

NoPermit == [state |-> "none", from |-> 0, until |-> 0]
Idle == [pc |-> "idle", from |-> 0, until |-> 0, acked |-> FALSE, started |-> FALSE, begun |-> FALSE, reply |-> "none"]

Init ==
    /\ now = 0 /\ reviewed = TRUE /\ halted = FALSE /\ healthy = TRUE /\ epoch = 1
    /\ fence = Nobody
    /\ permit = [t \in Tokens |-> NoPermit]
    /\ run = [x \in Executions |-> Idle]
    /\ called = {}

-----------------------------------------------------------------------------
\* What a step may do between two awaits.

\* tick(): the caller has not been answered.
Ticks(x) == run[x].reply = "none" /\ ~halted
\* recheck() and the lease: the permit, the review and the lease are current.
LeaseCurrent(x) == healthy /\ run[x].from <= now /\ now < run[x].until
PermitCurrent(x) == permit[TokenOf[x]].from <= now /\ now < permit[TokenOf[x]].until
Current(x) == Ticks(x) /\ reviewed /\ PermitCurrent(x) /\ LeaseCurrent(x)

Become(x, r) == run' = [run EXCEPT ![x] = r]
Outcome(x) == IF run[x].started THEN "uncertain" ELSE "refused"
Answered(x, reply) == IF run[x].reply = "none" THEN reply ELSE run[x].reply
\* The work ends; its answer is kept if nobody was answered before.
End(x, reply) == Become(x, [run[x] EXCEPT !.pc = "end", !.reply = Answered(x, reply)])
Fails(x) == End(x, Outcome(x))

-----------------------------------------------------------------------------
Prepare(t) ==
    /\ permit[t].state = "none" /\ reviewed /\ ~halted /\ healthy /\ fence = Nobody
    /\ permit' = [permit EXCEPT ![t] = [state |-> "live", from |-> now, until |-> now + Ttl]]
    /\ UNCHANGED <<world, fence, run, called>>

Consume(t) == permit' = [permit EXCEPT ![t].state = "consumed"]
\* execute(): the permit is consumed before anything is awaited.
Execute(x) ==
    LET t == TokenOf[x] IN
    /\ run[x].pc = "idle"
    /\ \/ permit[t].state = "live" /\ Consume(t) /\ Become(x, [Idle EXCEPT !.pc = "inspect"])
       \/ permit[t].state = "consumed" /\ UNCHANGED permit /\ End(x, "refused")
    /\ UNCHANGED <<world, fence, called>>

\* A lease is a fresh inspection in a transaction: the operation has no dispatch yet.
Inspect(x) ==
    /\ run[x].pc = "inspect"
    /\ IF Ticks(x) /\ reviewed /\ PermitCurrent(x) /\ healthy /\ fence = Nobody
       THEN Become(x, [run[x] EXCEPT !.pc = "fence", !.from = now, !.until = now + Ttl])
       ELSE Fails(x)
    /\ UNCHANGED <<world, fence, permit, called>>

BadUnfenced == TRUE         \* slip: the row of an earlier dispatch is replaced
Unfenced == fence = Nobody
\* The fence transaction: inspected again, written, and the lease still current.
Fence(x) ==
    /\ run[x].pc = "fence"
    /\ \/ /\ LeaseCurrent(x) /\ Ticks(x) /\ Unfenced
          /\ \/ fence' = x /\ Become(x, [run[x] EXCEPT !.pc = "start", !.acked = TRUE]) /\ UNCHANGED healthy
             \/ healthy' = FALSE /\ (fence' = x \/ UNCHANGED fence) /\ Fails(x)
       \/ UNCHANGED <<fence, healthy>> /\ Fails(x)
    /\ UNCHANGED <<now, reviewed, halted, epoch, permit, called>>

\* No await between the last checks and the registered effect.
Start(x) ==
    /\ run[x].pc = "start"
    /\ IF Current(x) THEN Become(x, [run[x] EXCEPT !.pc = "effect", !.started = TRUE]) ELSE Fails(x)
    /\ UNCHANGED <<world, fence, permit, called>>

Callable(x) == Current(x)
\* The effect awaits its own reads, then asserts and calls in one microtask.
Call(x) ==
    /\ run[x].pc = "effect"
    /\ \/ Callable(x) /\ called' = called \cup {x} /\ Become(x, [run[x] EXCEPT !.pc = "called", !.begun = Paid])
       \/ ~Callable(x) /\ UNCHANGED called /\ Fails(x)
    /\ UNCHANGED <<world, fence, permit>>

\* assertCompletion() for a paid call: lease and permit may be old by now.
Completes(x) == IF Paid THEN Ticks(x) /\ reviewed ELSE Current(x)
Return(x) ==
    /\ run[x].pc = "called"
    /\ IF Completes(x) THEN End(x, "result") ELSE Fails(x)
    /\ UNCHANGED <<world, fence, permit, called>>
EffectFails(x) ==
    /\ run[x].pc \in {"inspect", "effect", "called"} /\ Fails(x)
    /\ UNCHANGED <<world, fence, permit, called>>

Timed(x) == TRUE
\* The deadline, or the caller's signal, answers while the work goes on.
TimeOut(x) ==
    /\ run[x].pc \notin {"idle", "end"} /\ run[x].reply = "none" /\ Timed(x)
    /\ Become(x, [run[x] EXCEPT !.reply = Outcome(x)])
    /\ UNCHANGED <<world, fence, permit, called>>

-----------------------------------------------------------------------------
Tick ==
    /\ now < MaxTime /\ now' = now + 1
    /\ UNCHANGED <<reviewed, halted, healthy, epoch, fence, permit, run, called>>
Withdraw ==
    /\ reviewed /\ reviewed' = FALSE
    /\ UNCHANGED <<now, halted, healthy, epoch, fence, permit, run, called>>
Halt ==
    /\ ~halted /\ halted' = TRUE
    /\ UNCHANGED <<now, reviewed, healthy, epoch, fence, permit, run, called>>
\* A new process has no permits, and no execution of the old one goes on.
Restart ==
    /\ epoch < MaxEpoch /\ epoch' = epoch + 1
    /\ halted' = FALSE /\ healthy' = TRUE
    /\ permit' = [t \in Tokens |-> IF permit[t].state = "none" THEN NoPermit ELSE [permit[t] EXCEPT !.state = "consumed"]]
    /\ run' = [x \in Executions |-> IF run[x].pc \in {"idle", "end"} THEN run[x]
                                    ELSE [run[x] EXCEPT !.pc = "end", !.reply = Answered(x, "gone")]]
    /\ UNCHANGED <<now, reviewed, fence, called>>

Work(x) == Execute(x) \/ Inspect(x) \/ Fence(x) \/ Start(x) \/ Call(x) \/ Return(x) \/ EffectFails(x)
Next ==
    \/ \E t \in Tokens : Prepare(t)
    \/ \E x \in Executions : Work(x) \/ TimeOut(x)
    \/ Tick \/ Withdraw \/ Halt \/ Restart
Spec == Init /\ [][Next]_vars

-----------------------------------------------------------------------------
(* The external call is made once, by the execution whose fence committed   *)
(* and was acknowledged, whatever ran beside it, was tried again or died.   *)
CalledOnce == Cardinality(called) <= 1

(* A caller who is told that nothing was started is told the truth, then    *)
(* and ever after: the work that outlives the deadline makes no call.       *)
HonestRefusal == \A x \in called : run[x].reply # "refused"

(* A permit buys one execution past its first check, also when two start    *)
(* together.                                                                *)
OneExecutionPerPermit ==
    \A x, y \in Executions :
        x # y /\ TokenOf[x] = TokenOf[y] => run[x].until = 0 \/ run[y].until = 0

(* A call is made under a durable fence, by an unhalted gate with a review, *)
(* a permit and a lease that are current at the call, not when they were    *)
(* checked before the fence was awaited.                                    *)
CurrentAtCall ==
    [][\A x \in called' \ called :
          fence = x /\ reviewed /\ ~halted /\ healthy /\ now < permit[TokenOf[x]].until /\ now < run[x].until]_vars

(* No result is delivered after the review was withdrawn.                   *)
ResultsReviewed ==
    [][\A x \in Executions : run'[x].reply = "result" /\ run[x].reply # "result" => reviewed]_vars
=============================================================================
