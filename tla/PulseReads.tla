----------------------------- MODULE PulseReads -----------------------------
(***************************************************************************)
(* The read lanes of the Sepolia test site (createReadRecovery, scripts/   *)
(* pulse-sepolia-recovery.mjs) over its two interchangeable RPC sources    *)
(* (createSepoliaReadFailover, scripts/pulse-sepolia-rpc.mjs).             *)
(*                                                                         *)
(* A lane makes one pass at a time.  A pass reads from one source that has *)
(* been validated, falls back once to the other, and must be done by the   *)
(* lane's deadline; whoever waits for a validation shares the one flight.  *)
(* Clocks are left out: a validation lapses, a cooldown ends and a timer   *)
(* fires, whatever its backoff, at any time.  What happens in one turn of  *)
(* the event loop is one step.                                             *)
(***************************************************************************)
EXTENDS Naturals, Sequences

CONSTANTS
    Lanes, None,
    Answers         \* what a source may answer: of "value", "gone", "absent", "conflict", "broken"

Sources == <<"primary", "secondary">>
Both == {"primary", "secondary"}

VARIABLES
    agrees,         \* source -> whether it serves the deployment now expected
    valid,          \* source -> its validation has not lapsed
    cooling,        \* source -> it failed a short while ago
    flight,         \* source -> the validation in flight, or None
    conflict,       \* contradictory evidence was latched
    pass,           \* lane -> its pass: [at, rest, why, late]
    lane,           \* lane -> [phase, stopped, timer]
    started,        \* history: lane -> passes whose work has not settled
    kept            \* history: the last thing a lane committed: [lane, late]

vars == <<agrees, valid, cooling, flight, conflict, pass, lane, started, kept>>
reads == <<valid, cooling, flight, conflict>>

NoPass == [at |-> "none", rest |-> <<>>, why |-> None, late |-> FALSE]

Init == /\ agrees \in [Both -> BOOLEAN]
        /\ valid = [s \in Both |-> FALSE] /\ cooling = [s \in Both |-> FALSE]
        /\ flight = [s \in Both |-> None] /\ conflict = FALSE
        /\ pass = [l \in Lanes |-> NoPass]
        /\ lane = [l \in Lanes |-> [phase |-> "idle", stopped |-> FALSE, timer |-> TRUE]]
        /\ started = [l \in Lanes |-> 0]
        /\ kept = None

-----------------------------------------------------------------------------
(* One read: the sources in order, each validated before it is used.       *)

(* Ready sources first, the primary first among equals.                    *)
Order == SelectSeq(Sources, LAMBDA s : ~cooling[s]) \o SelectSeq(Sources, LAMBDA s : cooling[s])

Source(l) == Head(pass[l].rest)
Inside(l) == pass[l].at \in {"entering", "waiting", "operating"}

(* The flight of a lane that stops waiting is abandoned, and whoever else  *)
(* waits on it looks again.                                                *)
Abandoned(l, p) ==
    [m \in Lanes |-> IF p[m].at = "waiting" /\ flight[Head(p[m].rest)] # None /\ flight[Head(p[m].rest)].owner = l
                     THEN [p[m] EXCEPT !.at = "entering"] ELSE p[m]]
Dropped(l) == [s \in Both |-> IF flight[s] # None /\ flight[s].owner = l THEN None ELSE flight[s]]

(* What an error makes of the passes in S: the next source or the end.     *)
After(why, q) ==
    IF why \in {"gone", "absent"} /\ Len(q.rest) > 1
    THEN [q EXCEPT !.at = "entering", !.rest = Tail(q.rest)]
    ELSE [q EXCEPT !.at = "threw", !.why = IF why = "absent" THEN "gone" ELSE why]

Latches(why) == conflict \/ why = "conflict"
Throw(S, why, p) ==
    /\ pass' = [m \in Lanes |-> IF m \in S THEN After(why, p[m]) ELSE p[m]]
    /\ conflict' = Latches(why)
    /\ valid' = [s \in Both |-> valid[s] /\ ~(why = "gone" /\ \E m \in S : Source(m) = s)]
    /\ cooling' = [s \in Both |-> cooling[s] \/ (why = "gone" /\ \E m \in S : Source(m) = s)]

(* The loop of `validated`: go on, join the flight or start one.           *)
Enter(l) ==
    LET s == Source(l) IN
    /\ pass[l].at = "entering"
    /\ \/ /\ valid[s] /\ conflict
          /\ Throw({l}, "conflict", pass) /\ UNCHANGED flight
       \/ /\ valid[s] /\ ~conflict
          /\ pass' = [pass EXCEPT ![l].at = "operating"]
          /\ UNCHANGED reads
       \/ /\ ~valid[s]
          /\ pass' = [pass EXCEPT ![l].at = "waiting"]
          /\ flight' = IF flight[s] = None
                       THEN [flight EXCEPT ![s] = [owner |-> l, saw |-> agrees[s], current |-> TRUE]] ELSE flight
          /\ UNCHANGED <<valid, cooling, conflict>>
    /\ UNCHANGED <<agrees, lane, started, kept>>

(* A validation succeeds.  It counts only if nothing was reset meanwhile.  *)
Counts(f) == f.current
Validated(s) ==
    /\ flight[s] # None /\ flight[s].saw
    /\ valid' = [valid EXCEPT ![s] = Counts(flight[s])]
    /\ pass' = [m \in Lanes |-> IF pass[m].at = "waiting" /\ Source(m) = s THEN [pass[m] EXCEPT !.at = "entering"] ELSE pass[m]]
    /\ flight' = [flight EXCEPT ![s] = None]
    /\ UNCHANGED <<agrees, cooling, conflict, lane, started, kept>>

(* It fails: everyone who waited has the error.  A source that serves      *)
(* another deployment never passes.                                        *)
NotValidated(s, why) ==
    /\ flight[s] # None
    /\ why \in (IF flight[s].saw THEN {"gone"} ELSE {"conflict", "broken"}) \cap Answers
    /\ Throw({m \in Lanes : pass[m].at = "waiting" /\ Source(m) = s}, why, pass)
    /\ flight' = [flight EXCEPT ![s] = None]
    /\ UNCHANGED <<agrees, lane, started, kept>>

(* The read itself answers.                                                *)
(* slip: the latch is not looked at again *)
BadReturns == TRUE
Returns == ~conflict
Read(l, answer) ==
    LET s == Source(l) IN
    /\ pass[l].at = "operating" /\ answer \in Answers
    /\ \/ /\ answer = "value" /\ Returns
          /\ pass' = [pass EXCEPT ![l].at = "returned"]
          /\ cooling' = [cooling EXCEPT ![s] = FALSE]
          /\ UNCHANGED <<valid, conflict>>
       \/ answer = "value" /\ ~Returns /\ Throw({l}, "conflict", pass)
       \/ answer # "value" /\ Throw({l}, answer, pass)
    /\ UNCHANGED <<agrees, flight, lane, started, kept>>

(* The source takes too long: its attempt is given up, its answer lost.    *)
SourceDeadline(l) ==
    /\ pass[l].at \in {"waiting", "operating"}
    /\ Throw({l}, "gone", Abandoned(l, [pass EXCEPT ![l].at = "operating"]))
    /\ flight' = Dropped(l)
    /\ UNCHANGED <<agrees, lane, started, kept>>

Lapse(s) == /\ valid[s] /\ valid' = [valid EXCEPT ![s] = FALSE]
            /\ UNCHANGED <<agrees, cooling, flight, conflict, pass, lane, started, kept>>
Warm(s) == /\ cooling[s] /\ cooling' = [cooling EXCEPT ![s] = FALSE]
           /\ UNCHANGED <<agrees, valid, flight, conflict, pass, lane, started, kept>>

(* resetValidation: another deployment is expected from now on.            *)
Reset == /\ \E a \in [Both -> BOOLEAN] : agrees' = a
         /\ valid' = [s \in Both |-> FALSE]
         /\ flight' = [s \in Both |-> IF flight[s] = None THEN None ELSE [flight[s] EXCEPT !.current = FALSE]]
         /\ UNCHANGED <<cooling, conflict, pass, lane, started, kept>>

-----------------------------------------------------------------------------
(* One lane.                                                               *)

Free(l) == pass[l].at = "none"

(* refresh(): by the timer, by a visitor (wake) or by the operator.        *)
Refresh(l) ==
    /\ ~lane[l].stopped /\ lane[l].phase # "safety-halted" /\ Free(l)
    /\ lane' = [lane EXCEPT ![l].phase = "checking", ![l].timer = FALSE]
    /\ pass' = [pass EXCEPT ![l] = IF conflict THEN [NoPass EXCEPT !.at = "threw", !.why = "conflict"]
                                   ELSE [NoPass EXCEPT !.at = "entering", !.rest = Order]]
    /\ started' = [started EXCEPT ![l] = @ + 1]
    /\ UNCHANGED <<agrees, reads, kept>>
Timer(l) == lane[l].timer /\ Refresh(l)
Wake(l) == lane[l].phase # "blocked" /\ Refresh(l)

(* The lane's deadline: the read is given up, but whatever the pass still  *)
(* does goes on until it settles by itself.                                *)
Deadline(l) ==
    /\ pass[l].at # "none" /\ ~pass[l].late /\ ~lane[l].stopped
    /\ lane' = [lane EXCEPT ![l].phase = "unavailable"]
    /\ pass' = LET p == [pass EXCEPT ![l].late = TRUE] IN
               IF Inside(l) THEN Abandoned(l, [p EXCEPT ![l].at = "threw", ![l].why = "gone"]) ELSE p
    /\ flight' = Dropped(l)
    /\ UNCHANGED <<agrees, valid, cooling, conflict, started, kept>>

(* The work settles: a value is kept only in time.                         *)
PhaseOf(q) == CASE q.at = "returned" /\ ~q.late -> "ready"
                [] q.at = "threw" /\ q.why = "conflict" -> "safety-halted"
                [] q.at = "threw" /\ q.why = "broken" -> "blocked"
                [] OTHER -> "unavailable"
Settle(l) ==
    LET phase == PhaseOf(pass[l]) IN
    /\ pass[l].at \in {"returned", "threw"}
    /\ IF lane[l].stopped THEN lane' = [lane EXCEPT ![l].phase = "stopped"] /\ UNCHANGED kept
       ELSE /\ lane' = [lane EXCEPT ![l].phase = phase, ![l].timer = phase \in {"ready", "unavailable"}]
            /\ kept' = IF phase = "ready" THEN [lane |-> l, late |-> pass[l].late] ELSE kept
    /\ pass' = [pass EXCEPT ![l] = NoPass]
    /\ started' = [started EXCEPT ![l] = @ - 1]
    /\ UNCHANGED <<agrees, reads>>

Close(l) ==
    /\ ~lane[l].stopped
    /\ lane' = [lane EXCEPT ![l].stopped = TRUE, ![l].timer = FALSE,
                            ![l].phase = IF pass[l].at = "none" THEN "stopped" ELSE @]
    /\ pass' = IF Inside(l) THEN Abandoned(l, [pass EXCEPT ![l].at = "threw", ![l].why = "gone"]) ELSE pass
    /\ flight' = Dropped(l)
    /\ UNCHANGED <<agrees, valid, cooling, conflict, started, kept>>

Next == \/ \E l \in Lanes : Enter(l) \/ SourceDeadline(l) \/ Timer(l) \/ Wake(l) \/ Deadline(l) \/ Settle(l) \/ Close(l)
        \/ \E l \in Lanes, answer \in Answers : Read(l, answer)
        \/ \E s \in Both : Validated(s) \/ Lapse(s) \/ Warm(s) \/ \E why \in Answers : NotValidated(s, why)
        \/ Reset

Spec == Init /\ [][Next]_vars

-----------------------------------------------------------------------------
(* Properties.                                                             *)

(* A lane never has two passes at work: an uncooperative pass that its     *)
(* deadline gave up still holds back its successor.                        *)
NoOverlap == \A l \in Lanes : started[l] <= 1

(* What a lane keeps came before its deadline.                             *)
LateNeverCommits == kept # None => ~kept.late

(* Once contradictory evidence is latched no read returns a value, however *)
(* many were already under way.                                            *)
NothingAfterConflict ==
    [][conflict => \A l \in Lanes : pass'[l].at = "returned" => pass[l].at = "returned"]_vars

(* A read starts only at a source that serves the deployment expected at   *)
(* that moment, even when a reset overtakes the validation it waited for.  *)
ReadsTheExpected ==
    [][\A l \in Lanes : (pass[l].at # "operating" /\ pass'[l].at = "operating") => agrees[Source(l)]]_vars
=============================================================================
