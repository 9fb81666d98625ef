------------------------------ MODULE PulseQueue -----------------------------
(***************************************************************************)
(* The read source every Sepolia script goes through                       *)
(* (scripts/pulse-sepolia.mjs: retrySafeReads, boundedReadSource): two     *)
(* lanes, a bounded queue, a bounded number of requests in flight, spaced  *)
(* starts, and one retry of reads that failed in a retryable way.          *)
(***************************************************************************)
EXTENDS Naturals, Sequences, FiniteSets, SequencesExt

CONSTANTS
    Callers,        \* tasks of the process, each with one call at a time
    Lane,           \* caller -> "action" or "background"
    Sends,          \* callers whose method is eth_sendRawTransaction
    MaxActive,      \* 2 in the code
    MaxBurst,       \* 4 in the code
    Limit           \* 64 in the code

(* Each caller has its lane, and every capacity is positive.               *)
QueueAssumption == /\ Lane \in [Callers -> {"action", "background"}]
                   /\ {MaxActive, MaxBurst, Limit} \subseteq Nat \ {0}

VARIABLES
    queues,         \* lane -> sequence of callers
    active,         \* the counter of requests in flight
    burst,          \* actionBurst
    spaced,         \* the minimum interval since the last start is over
    call            \* caller -> [at, tries]

vars == <<queues, active, burst, spaced, call>>

Lanes == {"action", "background"}
NoCall == [at |-> "idle", tries |-> 0]
Queued == Len(queues["action"]) + Len(queues["background"])

-----------------------------------------------------------------------------
(* A call, or its retry, enters the queue of its lane.                     *)

Enters(c) == /\ Queued < Limit
             /\ queues' = [queues EXCEPT ![Lane[c]] = Append(@, c)]
             /\ call' = [call EXCEPT ![c].at = "queued"]
             /\ UNCHANGED <<active, burst, spaced>>
TurnedAway(c) == /\ Queued >= Limit
                 /\ call' = [call EXCEPT ![c] = NoCall]
                 /\ UNCHANGED <<queues, active, burst, spaced>>

Call(c) == call[c].at = "idle" /\ (Enters(c) \/ TurnedAway(c))

(* Which lane is served: at most MaxBurst actions overtake background work.*)
First == IF queues["action"] # <<>> /\ (queues["background"] = <<>> \/ burst < MaxBurst)
         THEN "action" ELSE "background"

(* One start of the pump.                                                  *)
Dispatch ==
    LET lane == First
        c == Head(queues[lane])
    IN  /\ Queued > 0 /\ active < MaxActive /\ spaced
        /\ queues' = [queues EXCEPT ![lane] = Tail(@)]
        /\ burst' = IF lane = "background" \/ queues["background"] = <<>> THEN 0
                 ELSE IF burst < MaxBurst THEN burst + 1 ELSE burst
        /\ active' = active + 1 /\ spaced' = FALSE
        /\ call' = [call EXCEPT ![c].at = "flying", ![c].tries = @ + 1]

Elapse == ~spaced /\ spaced' = TRUE /\ UNCHANGED <<queues, active, burst, call>>

Retryable(c) == call[c].tries = 1 /\ c \notin Sends

(* The transport answers, fails for good, fails in a retryable way, or     *)
(* fails because its caller gave up; its own limit makes it fail in time.  *)
Complete(c, failed) ==
    /\ call[c].at = "flying"
    /\ active' = active - 1
    /\ call' = [call EXCEPT ![c] = IF failed /\ Retryable(c) THEN [@ EXCEPT !.at = "resting"] ELSE NoCall]
    /\ UNCHANGED <<queues, burst, spaced>>

Retry(c) == call[c].at = "resting" /\ (Enters(c) \/ TurnedAway(c))

Removed(lane, c) == SelectSeq(queues[lane], LAMBDA d : d # c)

(* The caller gives up: a queued entry is removed, a rest is cut short.    *)
Abort(c) == /\ call[c].at \in {"queued", "resting"}
            /\ queues' = [queues EXCEPT ![Lane[c]] = Removed(Lane[c], c)]
            /\ call' = [call EXCEPT ![c] = NoCall]
            /\ UNCHANGED <<active, burst, spaced>>

Init == /\ queues = [l \in Lanes |-> <<>>]
        /\ active = 0 /\ burst = 0 /\ spaced = TRUE
        /\ call = [c \in Callers |-> NoCall]

Next == \/ Dispatch \/ Elapse
        \/ \E c \in Callers : \/ Call(c) \/ Retry(c) \/ Abort(c)
                              \/ \E failed \in BOOLEAN : Complete(c, failed)

Spec == Init /\ [][Next]_vars

(* Timers fire, the transport always ends (its process is killed after 25  *)
(* seconds), and the sleep before a retry ends.                            *)
Fairness == /\ WF_vars(Dispatch) /\ WF_vars(Elapse)
            /\ \A c \in Callers : WF_vars(\E failed \in BOOLEAN : Complete(c, failed)) /\ WF_vars(Retry(c))

-----------------------------------------------------------------------------
(* Properties.                                                             *)

(* A signed transaction is handed to the transport once per call; whether  *)
(* it was delivered is for the journal to find out, not for a retry.       *)
SentOncePerCall == \A c \in Sends : call[c].tries <= 1

(* The queue holds exactly the calls that wait and the counter those in    *)
(* flight: giving up neither loses capacity nor starts an abandoned call.  *)
QueueIsTheWaiting ==
    /\ \A c \in Callers : (call[c].at = "queued") <=> (c \in ToSet(queues[Lane[c]]))
    /\ active = Cardinality({c \in Callers : call[c].at = "flying"})
=============================================================================
