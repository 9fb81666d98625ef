--------------------------- MODULE ExclusiveWriter ---------------------------
(***************************************************************************)
(* The one writer of the open-mint database (persistence/writer.ts): a     *)
(* dedicated connection whose session holds an advisory lock, an epoch     *)
(* that every acquisition raises, and a queue of transactions that each    *)
(* compare lock and epoch under the row lock of the epoch.                 *)
(*                                                                         *)
(* A client and its session at the server are kept apart: the client can   *)
(* lose its link while the session, with its locks and a COMMIT that was   *)
(* already sent, lives on.  The statements before BEGIN that set timeouts  *)
(* and compare fsync and the schema version are part of Connect: they can  *)
(* only make an acquisition fail.  What a transaction does is left to its  *)
(* callers; here it is a member of Work, durable or not.                   *)
(***************************************************************************)
EXTENDS Integers, Sequences, FiniteSets

CONSTANTS
    Owners,     \* processes (and incarnations of a process) that acquire once
    Work,       \* the transactions callers ask for
    OwnerOf,    \* [Work -> Owners]
    NoOwner

\* Each transaction is asked of one owner.
OwnerAssumption == NoOwner \notin Owners /\ OwnerOf \in [Work -> Owners]

VARIABLES
    epoch,      \* writer_epoch.epoch
    holder,     \* session that holds the advisory lock
    row,        \* session that holds the row lock of writer_epoch
    session,    \* server side of the connections
    link,       \* client side: "up", or "cut" once an error or end was seen
    client,     \* acquire() and what it returned
    known,      \* ExclusiveWriter.epoch of an acquired writer
    failure,    \* #failure is set
    closing,    \* #closing
    queue,      \* #queue: transactions of an owner, the head is running
    tx,         \* how a transaction stands for its caller
    durable     \* committed transactions, with the epoch they ran under

server == <<epoch, holder, row, session, durable>>
vars == <<server, link, client, known, failure, closing, queue, tx>>

Stages == {"connect", "lock", "bump", "bumping", "open", "refused"}
TxStates == {"new", "queued", "working", "committing", "committed", "rejected", "unavailable"}
TypeOK ==
    /\ epoch \in Nat /\ holder \in Owners \cup {NoOwner} /\ row \in Owners \cup {NoOwner}
    /\ session \in [Owners -> {"none", "up", "ended"}]
    /\ link \in [Owners -> {"up", "cut"}] /\ client \in [Owners -> Stages]
    /\ known \in [Owners -> Nat] /\ failure \in [Owners -> BOOLEAN] /\ closing \in [Owners -> BOOLEAN]
    /\ queue \in [Owners -> Seq(Work)] /\ tx \in [Work -> TxStates]
    /\ durable \in [Work -> Nat]

Init ==
    /\ epoch = 0 /\ holder = NoOwner /\ row = NoOwner
    /\ session = [o \in Owners |-> "none"] /\ link = [o \in Owners |-> "up"]
    /\ client = [o \in Owners |-> "connect"] /\ known = [o \in Owners |-> 0]
    /\ failure = [o \in Owners |-> FALSE] /\ closing = [o \in Owners |-> FALSE]
    /\ queue = [o \in Owners |-> <<>>] /\ tx = [t \in Work |-> "new"]
    /\ durable = [t \in Work |-> 0]

-----------------------------------------------------------------------------
\* The server.

\* A session ends: its locks are free, its open transaction is rolled back.
Ended(o) ==
    /\ session' = [session EXCEPT ![o] = "ended"]
    /\ holder' = IF holder = o THEN NoOwner ELSE holder
    /\ row' = IF row = o THEN NoOwner ELSE row
SessionEnds(o) ==
    /\ session[o] = "up" /\ Ended(o)
    /\ UNCHANGED <<epoch, durable, link, client, known, failure, closing, queue, tx>>

\* The lock is lost though the session lives: a proxy that moved the connection
\* to another backend, which the `held' column of transaction() is there for.
LockLost(o) ==
    /\ holder = o /\ client[o] = "open" /\ row # o /\ holder' = NoOwner
    /\ UNCHANGED <<epoch, row, session, durable, link, client, known, failure, closing, queue, tx>>

\* The server processes a COMMIT it received, also when nobody waits for it.
Applies(o) ==
    /\ session[o] = "up" /\ row = o /\ row' = NoOwner
    /\ \/ /\ client[o] = "bumping" /\ epoch' = epoch + 1
          /\ UNCHANGED durable
       \/ \E t \in Work :
             /\ OwnerOf[t] = o /\ tx[t] \in {"committing", "unavailable"} /\ durable[t] = 0
             /\ queue[o] # <<>> /\ Head(queue[o]) = t
             /\ durable' = [durable EXCEPT ![t] = known[o]] /\ UNCHANGED epoch
    /\ UNCHANGED <<holder, session, link, client, known, failure, closing, queue, tx>>

-----------------------------------------------------------------------------
\* acquire()

Refuse(o) == client' = [client EXCEPT ![o] = "refused"] /\ Ended(o)

Connect(o) ==
    /\ client[o] = "connect" /\ session[o] = "none"
    /\ session' = [session EXCEPT ![o] = "up"] /\ client' = [client EXCEPT ![o] = "lock"]
    /\ UNCHANGED <<epoch, holder, row, durable, link, known, failure, closing, queue, tx>>

TryLock(o) ==
    /\ client[o] = "lock" /\ session[o] = "up"
    /\ IF holder = NoOwner
       THEN /\ holder' = o /\ client' = [client EXCEPT ![o] = "bump"] /\ UNCHANGED <<row, session>>
       ELSE Refuse(o)
    /\ UNCHANGED <<epoch, durable, link, known, failure, closing, queue, tx>>

\* The epoch is raised under its row lock; a lock_timeout ends the attempt.
Bump(o) ==
    /\ client[o] = "bump" /\ session[o] = "up"
    /\ IF row = NoOwner
       THEN row' = o /\ client' = [client EXCEPT ![o] = "bumping"] /\ UNCHANGED <<holder, session>>
       ELSE Refuse(o)
    /\ UNCHANGED <<epoch, durable, link, known, failure, closing, queue, tx>>

\* The reply to COMMIT arrived, and no error or end event before it.
Acquired(o) ==
    /\ client[o] = "bumping" /\ session[o] = "up" /\ row # o
    /\ client' = [client EXCEPT ![o] = "open"] /\ known' = [known EXCEPT ![o] = epoch]
    /\ UNCHANGED <<server, link, failure, closing, queue, tx>>

\* Any statement of acquire() fails: the session is closed.  A COMMIT that was
\* sent is either applied before the close or rolled back by it.
AcquireFails(o) ==
    /\ client[o] \in {"lock", "bump", "bumping"}
    /\ Refuse(o) /\ UNCHANGED <<epoch, durable, link, known, failure, closing, queue, tx>>

-----------------------------------------------------------------------------
\* transaction() and close()

Healthy(o) == ~failure[o] /\ ~closing[o]

\* transaction(): refused at once, or queued behind what is running.
Ask(t) ==
    LET o == OwnerOf[t] IN
    /\ client[o] = "open" /\ tx[t] = "new"
    /\ IF Healthy(o)
       THEN tx' = [tx EXCEPT ![t] = "queued"] /\ queue' = [queue EXCEPT ![o] = Append(@, t)]
       ELSE tx' = [tx EXCEPT ![t] = "unavailable"] /\ UNCHANGED queue
    /\ UNCHANGED <<server, link, client, known, failure, closing>>

Running(o, t) == queue[o] # <<>> /\ Head(queue[o]) = t
\* The promise settles and the next of the queue runs.
Settle(o, t, how) ==
    /\ tx' = [tx EXCEPT ![t] = how] /\ queue' = [queue EXCEPT ![o] = Tail(@)]

\* What the owner query returns under the row lock.
BadStillOwner(o) == row = NoOwner       \* slip: what the owner query returns is not compared
StillOwner(o) == epoch = known[o] /\ holder = o

\* BEGIN and the owner query; any mismatch fails the writer for good.
Begin(t) ==
    LET o == OwnerOf[t] IN
    /\ Running(o, t) /\ tx[t] = "queued"
    /\ IF ~Healthy(o)
       THEN Settle(o, t, "unavailable") /\ UNCHANGED <<row, failure>>
       ELSE /\ link[o] = "up" /\ session[o] = "up" /\ row = NoOwner
            /\ IF StillOwner(o)
               THEN row' = o /\ tx' = [tx EXCEPT ![t] = "working"] /\ UNCHANGED <<queue, failure>>
               ELSE /\ failure' = [failure EXCEPT ![o] = TRUE] /\ UNCHANGED row
                    /\ Settle(o, t, "unavailable")
    /\ UNCHANGED <<epoch, holder, session, durable, link, client, known, closing>>

\* work() throws or the writer is closing: ROLLBACK, and a refusal that is final.
RollBack(t) ==
    LET o == OwnerOf[t] IN
    /\ Running(o, t) /\ tx[t] = "working" /\ link[o] = "up" /\ session[o] = "up"
    /\ row' = NoOwner
    /\ Settle(o, t, IF failure[o] THEN "unavailable" ELSE "rejected")
    /\ UNCHANGED <<epoch, holder, session, durable, link, client, known, failure, closing>>

\* work() returned and assertHealthy() passed: COMMIT is sent.
Commit(t) ==
    LET o == OwnerOf[t] IN
    /\ Running(o, t) /\ tx[t] = "working" /\ Healthy(o) /\ link[o] = "up" /\ session[o] = "up"
    /\ tx' = [tx EXCEPT ![t] = "committing"]
    /\ UNCHANGED <<server, link, client, known, failure, closing, queue>>

\* The reply to COMMIT; a writer that began to close answers for nothing.
Reply(t) ==
    LET o == OwnerOf[t] IN
    /\ Running(o, t) /\ tx[t] = "committing" /\ durable[t] # 0 /\ link[o] = "up"
    /\ Settle(o, t, IF Healthy(o) THEN "committed" ELSE "unavailable")
    /\ failure' = [failure EXCEPT ![o] = failure[o] \/ closing[o]]
    /\ UNCHANGED <<server, link, client, known, closing>>

\* The running transaction has no answer to expect: the writer has failed.  An
\* unapplied COMMIT stays with the session, so the queue keeps its head.
Unanswered(o, t) ==
    /\ tx' = [tx EXCEPT ![t] = "unavailable"] /\ failure' = [failure EXCEPT ![o] = TRUE]
    /\ queue' = [queue EXCEPT ![o] = IF row = o /\ tx[t] = "committing" THEN @ ELSE Tail(@)]

\* An error or end event, or a query that fails on the connection.
Cut(o) ==
    /\ client[o] = "open" /\ link[o] = "up"
    /\ link' = [link EXCEPT ![o] = "cut"]
    /\ IF queue[o] # <<>> /\ tx[Head(queue[o])] \in {"working", "committing"}
       THEN Unanswered(o, Head(queue[o]))
       ELSE failure' = [failure EXCEPT ![o] = TRUE] /\ UNCHANGED <<tx, queue>>
    /\ UNCHANGED <<server, client, known, closing>>

\* The unanswered head leaves once the server has applied it or is gone.
Forget(o) ==
    /\ queue[o] # <<>> /\ tx[Head(queue[o])] = "unavailable"
    /\ durable[Head(queue[o])] # 0 \/ session[o] = "ended"
    /\ queue' = [queue EXCEPT ![o] = Tail(@)]
    /\ UNCHANGED <<server, link, client, known, failure, closing, tx>>

Close(o) ==
    /\ client[o] = "open" /\ ~closing[o] /\ closing' = [closing EXCEPT ![o] = TRUE]
    /\ UNCHANGED <<server, link, client, known, failure, queue, tx>>
\* close() waits for the queue and then ends the session.
CloseEnds(o) ==
    /\ closing[o] /\ queue[o] = <<>> /\ session[o] = "up" /\ Ended(o)
    /\ UNCHANGED <<epoch, durable, link, client, known, failure, closing, queue, tx>>

-----------------------------------------------------------------------------
Acquire(o) == Connect(o) \/ TryLock(o) \/ Bump(o) \/ Acquired(o) \/ AcquireFails(o)
Transact(t) == Begin(t) \/ RollBack(t) \/ Commit(t) \/ Reply(t)
Next ==
    \/ \E o \in Owners : Acquire(o) \/ SessionEnds(o) \/ LockLost(o) \/ Applies(o)
                         \/ Cut(o) \/ Forget(o) \/ Close(o) \/ CloseEnds(o)
    \/ \E t \in Work : Ask(t) \/ Transact(t)
Spec == Init /\ [][Next]_vars

-----------------------------------------------------------------------------
(* A transaction whose caller was told that it committed is durable, and    *)
(* one that was rejected with its own error never becomes durable: only     *)
(* WriterUnavailable leaves the outcome open (writer.ts, transaction()).    *)
AnswersAreTrue ==
    \A t \in Work :
        /\ tx[t] = "committed" => durable[t] # 0
        /\ tx[t] = "rejected" => durable[t] = 0

(* An owner whose session is alive, that still holds its lock and closed    *)
(* nothing, has not been displaced by another acquisition.                  *)
NotDisplaced ==
    \A o \in Owners : client[o] = "open" /\ session[o] = "up" /\ holder = o => epoch = known[o]

(* What becomes durable was written under the newest epoch: an owner that   *)
(* lost its lock, or whose COMMIT is applied late, writes nothing after its *)
(* successor has raised the epoch.                                          *)
NothingAfterSuccessor ==
    [][\A t \in Work : durable[t] = 0 /\ durable'[t] # 0 => durable'[t] = epoch]_vars
=============================================================================
