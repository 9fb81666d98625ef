------------------------- MODULE MCAssessmentLedger --------------------------
(***************************************************************************)
(* AssessmentLedger for TLC: a behaviour is of a ledger with a resolver,   *)
(* recoveries and room for them ("recovery"), or of one without a resolver *)
(* whose daily and active limits are one, over two days ("limits").        *)
(***************************************************************************)
EXTENDS AssessmentLedger, TLC

CONSTANTS
    h1, h2

VARIABLE part    \* which of them this behaviour is of

HandleSymmetry == Permutations(Handles)

Limits == INSTANCE AssessmentLedger WITH
    Resolver <- FALSE, MaxTotal <- 2, MaxActive <- 1, DailyLimit <- 1,
    XCharges <- {0}, GrokCharges <- {1}, MaxDay <- 2, MaxFaults <- 2


All == <<part, vars>>

PackInit ==
    /\ part \in {"recovery", "limits"}
    /\ \/ part \notin {"limits"} /\ Init
       \/ part = "limits" /\ Limits!Init

PackNext ==
    \/ part = "recovery" /\ Next /\ UNCHANGED part
    \/ part = "limits" /\ Limits!Next /\ UNCHANGED part

PackSpec == PackInit /\ [][PackNext]_All

(* The limits of the policy: money that may still be owed stays within the  *)
(* exposure; and at the smallest limits, one reservation that may still     *)
(* cost money and one attempt a day, also after a failed write left the     *)
(* counter of the day and the reservations apart (admit()).                 *)
LimitsHold ==
    /\ SpendWithinExposure
    /\ part = "limits" => Limits!PendingWithinActiveLimit /\ Limits!DailyLimitHolds
==============================================================================
