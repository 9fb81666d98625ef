--------------------------- MODULE PaidAssessment ---------------------------
(***************************************************************************)
(* What the assessment ledger promises, without files, crashes or locks:   *)
(* money is reserved before it is spent, each provider leg of a            *)
(* reservation is called at most once, a handle is recovered at most once  *)
(* and only while Grok was not called for it, and the first published      *)
(* result of a handle is the last.                                         *)
(***************************************************************************)
CONSTANTS Handles, NoHandle

Attempts == Handles \X {"first", "recovery"}
Legs == {"x", "grok"}
NoAttempt == <<NoHandle, "first">>
Twin(a) == <<a[1], IF a[2] = "first" THEN "recovery" ELSE "first">>

VARIABLES
    granted,    \* the attempts that have a reservation
    called,     \* the provider calls that were made
    published   \* the attempt whose result a handle shows
vars == <<granted, called, published>>

Init ==
    /\ granted = {} /\ called = {}
    /\ published = [h \in Handles |-> NoAttempt]

\* An operator grants a recovery only after a first attempt that never paid Grok.
Grant(a) ==
    /\ a \notin granted
    /\ a[2] = "recovery" => Twin(a) \in granted /\ <<Twin(a), "grok">> \notin called
    /\ granted' = granted \cup {a} /\ UNCHANGED <<called, published>>

\* The identity lookup precedes the assessment; a recovery replaces its source.
Call(a, leg) ==
    /\ a \in granted /\ published[a[1]] = NoAttempt
    /\ <<a, leg>> \notin called /\ <<a, "grok">> \notin called
    /\ Twin(a) \in granted => a[2] = "recovery"
    /\ called' = called \cup {<<a, leg>>} /\ UNCHANGED <<granted, published>>

Publish(a) ==
    /\ published[a[1]] = NoAttempt /\ <<a, "grok">> \in called
    /\ published' = [published EXCEPT ![a[1]] = a] /\ UNCHANGED <<granted, called>>

Next == \E a \in Attempts : Grant(a) \/ Publish(a) \/ \E leg \in Legs : Call(a, leg)
Spec == Init /\ [][Next]_vars
=============================================================================
