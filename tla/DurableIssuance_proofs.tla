----------------------- MODULE DurableIssuance_proofs -----------------------
(***************************************************************************)
(* Proofs about what the open mint keeps in PostgreSQL, for any requests,  *)
(* calls, handles and runs, any policy and lifetime, and any bounds on     *)
(* reservations, processes, days and time: the reservations and signatures *)
(* of authorizations (DurableIssuance), and then the paid runs of          *)
(* assessments (DurableAssessment, the instance Paid of MCDurable).        *)
(***************************************************************************)
EXTENDS MCDurable, FiniteSetTheorems, TLAPS

States == {"none", "reserved", "signing", "unknown", "signed"}
Asking == {"ask", "wait", "store", "unknown"}
Steps == {"idle", "reserve", "claim", "release", "end"} \cup Asking

Rows == [q : Requests \cup {NoRequest}, deadline : Nat, state : States, epoch : Nat]
CallRecords ==
    [pc : Steps, q : Requests \cup {NoRequest}, a : Auths \cup {NoAuth}, reply : Auths \cup {NoAuth}]
Tokens == [a : Auths \cup {NoAuth}, at : Nat]

(* Every variable is of its type.                                           *)
DurableTypeOK ==
    /\ auth \in [Auths -> Rows] /\ head \in Auths \cup {NoAuth} /\ retired \in SUBSET Auths
    /\ epoch \in Nat /\ enabled \in BOOLEAN /\ proof \in [Requests -> BOOLEAN]
    /\ process \in {"none", "site", "operator"}
    /\ plan \in [a : Auths \cup {NoAuth}, state : States]
    /\ call \in [Calls -> CallRecords]
    /\ asked \in [Auths -> Nat] /\ made \in SUBSET Auths
    /\ now \in Nat /\ latest \in Nat /\ final \in Nat
    /\ token \in Tokens

\* A row that was ever written is the head or was retired, and not both.
RowsInv ==
    /\ \A a \in Auths : auth[a].state = "none" => auth[a] = NoRow
    /\ \A a \in Auths : auth[a].state # "none" <=> (a = head \/ a \in retired)
    /\ head \notin retired
    /\ OneReservationPerRequest

\* The signer was asked about claimed rows only, once; what is stored as signed
\* was signed.
SignerInv ==
    /\ \A a \in Auths : asked[a] > 0 => asked[a] = 1 /\ auth[a].state \in {"signing", "unknown", "signed"}
    /\ \A a \in made : asked[a] = 1
    /\ \A a \in Auths : auth[a].state = "signed" => a \in made

Working(c) == call[c].pc \in Asking
CallOK(c) ==
    /\ call[c].pc # "end" => call[c].reply = NoAuth
    /\ call[c].pc # "idle" => call[c].q \in Requests
    /\ call[c].pc \in Asking \cup {"claim", "release"} => call[c].a \in Auths
    /\ Working(c) => auth[call[c].a].state = "signing" /\ auth[call[c].a].epoch = epoch
    /\ call[c].pc = "ask" => asked[call[c].a] = 0
    /\ call[c].pc = "store" => call[c].a \in made
\* A call that has claimed a row is alone in it, in the process of the claim.
CallsInv ==
    /\ process # "site" => \A c \in Calls : call[c].pc \in {"idle", "end"}
    /\ \A c \in Calls : CallOK(c)
    /\ \A c, d \in Calls : Working(c) /\ Working(d) /\ call[c].a = call[d].a => c = d

\* The handle is minted in time with a signature that exists, and what was retired
\* is past its deadline at the finalized block.
ChainInv ==
    /\ final <= latest /\ latest <= now
    /\ token.a # NoAuth => token.a \in made
    /\ token.a = NoAuth => token = Unminted
    /\ \A a \in retired : auth[a].deadline < final
    /\ RetiredNeverMinted

DurableInv ==
    DurableTypeOK /\ RowsInv /\ SignerInv /\ CallsInv /\ ChainInv /\ ReleasedToOwner
-----------------------------------------------------------------------------
(* What the actions are made of.                                            *)

\* The transactions of a call, as the new rows and the next record.
LEMMA EndedShape ==
    ASSUME DurableTypeOK
    PROVE  /\ Ended \in [Calls -> CallRecords]
           /\ \A c \in Calls :
                 /\ Ended[c].pc \in {"idle", "end"} /\ (Ended[c].pc = "idle" <=> call[c].pc = "idle")
                 /\ Ended[c].q = call[c].q /\ Ended[c].a = call[c].a /\ Ended[c].reply = call[c].reply
BY DEF DurableTypeOK, Ended, CallRecords, Steps, Asking

LEMMA SignedBefore ==
    ASSUME DurableTypeOK, NEW a \in Auths, Sign(a)
    PROVE  asked[a] > 0
<1>1. IsFiniteSet({a}) /\ IsFiniteSet(made \cap {a})
  BY FS_Singleton, FS_Intersection
<1>2. Cardinality(made \cap {a}) \in Nat
  BY <1>1, FS_CardinalityType
<1> QED BY <1>2 DEF Sign, DurableTypeOK

-----------------------------------------------------------------------------
(* Types. *)

LEMMA DurableInit == Init => DurableInv
<1> SUFFICES ASSUME Init PROVE DurableInv
  OBVIOUS
<1> USE DEF Init
<1>1. DurableTypeOK
  BY BoundAssumption
  DEF DurableTypeOK, Rows, NoRow, NoPlan, NoAuth, Idle, CallRecords, Steps, States, Tokens, Unminted, Auths
<1>2. RowsInv
  BY DEF RowsInv, NoRow, NoAuth, Auths, OneReservationPerRequest
<1>3. SignerInv
  BY DEF SignerInv, NoRow
<1>4. CallsInv
  <2>1. \A c \in Calls : call[c].pc = "idle" /\ call[c].reply = NoAuth
    BY DEF Idle
  <2> QED BY <2>1 DEF CallsInv, CallOK, Working, Asking
<1>5. ChainInv
  BY DEF ChainInv, Unminted, NoAuth, RetiredNeverMinted
<1>6. ReleasedToOwner
  BY DEF ReleasedToOwner, Idle
<1> QED BY <1>1, <1>2, <1>3, <1>4, <1>5, <1>6 DEF DurableInv

LEMMA CommitTypes ==
    ASSUME DurableTypeOK, NEW c \in Calls, NEW rows \in [Auths -> Rows],
           NEW h \in Auths \cup {NoAuth}, NEW next \in CallRecords, CommitRows(c, rows, h, next)
    PROVE  DurableTypeOK'
<1>1. auth' \in [Auths -> Rows] /\ head' \in Auths \cup {NoAuth}
  BY DEF CommitRows, DurableTypeOK
<1>2. call' \in [Calls -> CallRecords]
  BY EndedShape DEF CommitRows, DurableTypeOK, ProcessLost
<1>3. process' \in {"none", "site", "operator"} /\ plan' \in [a : Auths \cup {NoAuth}, state : States]
  BY DEF CommitRows, DurableTypeOK, ProcessLost, NoPlan, States
<1> QED BY <1>1, <1>2, <1>3 DEF CommitRows, DurableTypeOK, signer, chain

LEMMA MoveTypes ==
    ASSUME DurableTypeOK, NEW c \in Calls, NEW next \in CallRecords, Move(c, next)
    PROVE  DurableTypeOK'
BY DEF Move, DurableTypeOK, tables, signer, chain

LEMMA RefuseTypes ==
    ASSUME DurableTypeOK, NEW c \in Calls, Refuse(c)
    PROVE  DurableTypeOK'
<1>1. [call[c] EXCEPT !.pc = "end"] \in CallRecords
  BY DEF DurableTypeOK, CallRecords, Steps
<1> QED BY <1>1, MoveTypes DEF Refuse

LEMMA TypesKept == DurableTypeOK /\ [Next]_vars => DurableTypeOK'
<1> SUFFICES ASSUME DurableTypeOK, [Next]_vars PROVE DurableTypeOK'
  OBVIOUS
<1>0. now \in Nat /\ Lifetime \in Nat /\ now + Lifetime \in Nat
  BY BoundAssumption DEF DurableTypeOK
<1>1. ASSUME NEW c \in Calls, NEW q \in Requests, Start(c, q) PROVE DurableTypeOK'
  <2>1. [Idle EXCEPT !.pc = "reserve", !.q = q] \in CallRecords
    BY DEF Idle, CallRecords, Steps
  <2> QED BY <1>1, <2>1, MoveTypes DEF Start
<1>2. ASSUME NEW c \in Calls, Reserve(c) PROVE DurableTypeOK'
  <2>1. CASE Refuse(c)
    BY <2>1, RefuseTypes
  <2>2. ASSUME NEW a \in Auths,
               CommitRows(c, [auth EXCEPT ![a] = [q |-> call[c].q, deadline |-> now + Lifetime,
                                                   state |-> "reserved", epoch |-> 0]],
                          a, [call[c] EXCEPT !.pc = "claim", !.a = a])
        PROVE  DurableTypeOK'
    <3>1. [auth EXCEPT ![a] = [q |-> call[c].q, deadline |-> now + Lifetime,
                               state |-> "reserved", epoch |-> 0]] \in [Auths -> Rows]
      BY <1>0 DEF DurableTypeOK, Rows, States, CallRecords
    <3>2. [call[c] EXCEPT !.pc = "claim", !.a = a] \in CallRecords
      BY DEF DurableTypeOK, CallRecords, Steps
    <3> QED BY <2>2, <3>1, <3>2, CommitTypes
  <2>3. CASE Move(c, [call[c] EXCEPT !.pc = "claim", !.a = head])
    <3>1. [call[c] EXCEPT !.pc = "claim", !.a = head] \in CallRecords
      BY DEF DurableTypeOK, CallRecords, Steps
    <3> QED BY <2>3, <3>1, MoveTypes
  <2> QED BY <1>2, <2>1, <2>2, <2>3 DEF Reserve, Fresh
<1>3. ASSUME NEW c \in Calls, Claim(c) PROVE DurableTypeOK'
  <2>1. CASE Refuse(c)
    BY <2>1, RefuseTypes
  <2>2. CASE CommitRows(c, [auth EXCEPT ![call[c].a].state = "signing", ![call[c].a].epoch = epoch],
                        head, [call[c] EXCEPT !.pc = "ask"])
    <3>1. [auth EXCEPT ![call[c].a].state = "signing", ![call[c].a].epoch = epoch] \in [Auths -> Rows]
      <4>1. auth \in [Auths -> Rows] /\ epoch \in Nat
        BY DEF DurableTypeOK
      <4>2. \A r \in Rows : [r EXCEPT !.state = "signing"] \in Rows
        BY DEF Rows, States
      <4>3. \A r \in Rows : [r EXCEPT !.epoch = epoch] \in Rows
        BY <4>1 DEF Rows
      <4> QED BY <4>1, <4>2, <4>3
    <3>2. [call[c] EXCEPT !.pc = "ask"] \in CallRecords /\ head \in Auths \cup {NoAuth}
      BY DEF DurableTypeOK, CallRecords, Steps, Asking
    <3> QED BY <2>2, <3>1, <3>2, CommitTypes
  <2>3. CASE Move(c, [call[c] EXCEPT !.pc = "release"])
    <3>1. [call[c] EXCEPT !.pc = "release"] \in CallRecords
      BY DEF DurableTypeOK, CallRecords, Steps
    <3> QED BY <2>3, <3>1, MoveTypes
  <2> QED BY <1>3, <2>1, <2>2, <2>3 DEF Claim
<1>4. ASSUME NEW c \in Calls, Ask(c) PROVE DurableTypeOK'
  <2>1. call' \in [Calls -> CallRecords]
    BY <1>4 DEF Ask, DurableTypeOK, CallRecords, Steps, Asking
  <2>2. asked' \in [Auths -> Nat]
    <3>1. asked \in [Auths -> Nat] /\ asked' = [asked EXCEPT ![call[c].a] = asked[call[c].a] + 1]
      BY <1>4 DEF Ask, DurableTypeOK
    <3>2. \A n \in Nat : n + 1 \in Nat
      OBVIOUS
    <3> QED BY <3>1, <3>2
  <2> QED BY <1>4, <2>1, <2>2 DEF Ask, DurableTypeOK, tables, chain
<1>5. ASSUME NEW c \in Calls, Answer(c) PROVE DurableTypeOK'
  <2>1. [call[c] EXCEPT !.pc = "store"] \in CallRecords
    BY DEF DurableTypeOK, CallRecords, Steps, Asking
  <2> QED BY <1>5, <2>1, MoveTypes DEF Answer
<1>6. ASSUME NEW c \in Calls, TimeOut(c) PROVE DurableTypeOK'
  <2>1. [call[c] EXCEPT !.pc = "unknown"] \in CallRecords
    BY DEF DurableTypeOK, CallRecords, Steps, Asking
  <2> QED BY <1>6, <2>1, MoveTypes DEF TimeOut
<1>7. ASSUME NEW c \in Calls, MarkUnknown(c) PROVE DurableTypeOK'
  <2> DEFINE rows == IF auth[call[c].a].state = "signing" /\ auth[call[c].a].epoch = epoch
                     THEN [auth EXCEPT ![call[c].a].state = "unknown"] ELSE auth
  <2>1. rows \in [Auths -> Rows]
    <3>1. auth \in [Auths -> Rows]
      BY DEF DurableTypeOK
    <3>2. \A r \in Rows : [r EXCEPT !.state = "unknown"] \in Rows
      BY DEF Rows, States
    <3> QED BY <3>1, <3>2
  <2>2. [call[c] EXCEPT !.pc = "end"] \in CallRecords /\ head \in Auths \cup {NoAuth}
    BY DEF DurableTypeOK, CallRecords, Steps
  <2>3. CommitRows(c, rows, head, [call[c] EXCEPT !.pc = "end"])
    BY <1>7 DEF MarkUnknown
  <2> QED BY <2>1, <2>2, <2>3, CommitTypes
<1>8. ASSUME NEW c \in Calls, Store(c) PROVE DurableTypeOK'
  <2>1. CASE Refuse(c)
    BY <2>1, RefuseTypes
  <2>2. CASE CommitRows(c, [auth EXCEPT ![call[c].a].state = "signed"], head, [call[c] EXCEPT !.pc = "release"])
    <3>1. [auth EXCEPT ![call[c].a].state = "signed"] \in [Auths -> Rows]
      <4>1. auth \in [Auths -> Rows]
        BY DEF DurableTypeOK
      <4>2. \A r \in Rows : [r EXCEPT !.state = "signed"] \in Rows
        BY DEF Rows, States
      <4> QED BY <4>1, <4>2
    <3>2. [call[c] EXCEPT !.pc = "release"] \in CallRecords /\ head \in Auths \cup {NoAuth}
      BY DEF DurableTypeOK, CallRecords, Steps
    <3> QED BY <2>2, <3>1, <3>2, CommitTypes
  <2> QED BY <1>8, <2>1, <2>2 DEF Store
<1>9. ASSUME NEW c \in Calls, Release(c) PROVE DurableTypeOK'
  <2>1. CASE Refuse(c)
    BY <2>1, RefuseTypes
  <2>2. CASE Move(c, [call[c] EXCEPT !.pc = "end", !.reply = call[c].a])
    <3>1. [call[c] EXCEPT !.pc = "end", !.reply = call[c].a] \in CallRecords
      BY DEF DurableTypeOK, CallRecords, Steps
    <3> QED BY <2>2, <3>1, MoveTypes
  <2> QED BY <1>9, <2>1, <2>2 DEF Release
<1>10. ASSUME NEW kind \in {"site", "operator"}, Acquire(kind) PROVE DurableTypeOK'
  BY <1>10 DEF Acquire, DurableTypeOK, signer, chain
<1>11. CASE Stop
  <2>1. plan' \in [a : Auths \cup {NoAuth}, state : States] /\ process' = "none" /\ call' = Ended
    BY <1>11 DEF Stop, ProcessLost, NoPlan, States
  <2> QED BY <1>11, <2>1, EndedShape DEF Stop, DurableTypeOK, tables, signer, chain
<1>12. ASSUME NEW a \in Auths, Sign(a) PROVE DurableTypeOK'
  BY <1>12 DEF Sign, DurableTypeOK, tables, chain
<1>13. CASE Switch
  BY <1>13 DEF Switch, DurableTypeOK, signer, chain
<1>14. ASSUME NEW q \in Requests, LoseProof(q) PROVE DurableTypeOK'
  BY <1>14 DEF LoseProof, DurableTypeOK, signer, chain
<1>15. CASE Tick
  BY <1>15 DEF Tick, DurableTypeOK, signer, tables
<1>16. CASE Block
  <2>1. latest' \in Nat /\ UNCHANGED <<now, final>>
    BY <1>16 DEF Block, DurableTypeOK
  <2>2. token' \in Tokens
    BY <1>16 DEF Block, DurableTypeOK, Tokens
  <2> QED BY <1>16, <2>1, <2>2 DEF Block, DurableTypeOK, signer, tables
<1>17. CASE Finalize
  BY <1>17 DEF Finalize, DurableTypeOK, signer, tables
<1>18. CASE Reorganize
  <2>1. token' \in Tokens
    BY <1>18 DEF Reorganize, DurableTypeOK, Tokens, Unminted
  <2> QED BY <1>18, <2>1 DEF Reorganize, DurableTypeOK, signer, tables
<1>19. CASE Plan
  <2>1. [a |-> head, state |-> auth[head].state] \in [a : Auths \cup {NoAuth}, state : States]
    BY <1>19 DEF Plan, DurableTypeOK, Rows
  <2> QED BY <1>19, <2>1 DEF Plan, DurableTypeOK, signer, tables, chain
<1>20. CASE Apply
  <2>1. plan.a \in Auths
    BY <1>20 DEF Apply, DurableTypeOK
  <2>2. retired' \in SUBSET Auths /\ head' \in Auths \cup {NoAuth}
    BY <1>20, <2>1 DEF Apply, DurableTypeOK
  <2>3. /\ call' \in [Calls -> CallRecords] /\ process' \in {"none", "site", "operator"}
        /\ plan' \in [a : Auths \cup {NoAuth}, state : States]
    BY <1>20, EndedShape DEF Apply, DurableTypeOK, ProcessLost, NoPlan, States
  <2> QED BY <1>20, <2>2, <2>3 DEF Apply, DurableTypeOK, signer, chain
<1>21. CASE UNCHANGED vars
  BY <1>21 DEF vars, DurableTypeOK, tables, signer, chain
<1> QED
  BY <1>1, <1>2, <1>3, <1>4, <1>5, <1>6, <1>7, <1>8, <1>9, <1>10, <1>11, <1>12, <1>13, <1>14,
     <1>15, <1>16, <1>17, <1>18, <1>19, <1>20, <1>21 DEF Next, Issue
-----------------------------------------------------------------------------
(* How a step moves the rows, and what that keeps.                          *)

RowAdded ==
    /\ head = NoAuth /\ retired' = retired
    /\ \E a \in Fresh, q \in Requests, d \in Nat :
          /\ Context(q) /\ head' = a
          /\ auth' = [auth EXCEPT ![a] = [q |-> q, deadline |-> d, state |-> "reserved", epoch |-> 0]]
Forward(a) ==
    \/ auth[a].state = "reserved" /\ auth'[a].state = "signing"
    \/ /\ auth[a].state = "signing" /\ auth[a].epoch = epoch
       /\ auth'[a].state = "unknown" \/ (auth'[a].state = "signed" /\ a \in made)
RowMoved(a) ==
    /\ Forward(a) /\ auth'[a].q = auth[a].q /\ auth'[a].deadline = auth[a].deadline
    /\ \A b \in Auths \ {a} : auth'[b] = auth[b]
    /\ UNCHANGED <<head, retired>>
RowRetired ==
    /\ head \in Auths /\ Unusable(head)
    /\ retired' = retired \cup {head} /\ head' = NoAuth /\ UNCHANGED auth
RowStep ==
    \/ UNCHANGED <<auth, head, retired>>
    \/ RowAdded
    \/ \E a \in Auths : RowMoved(a)
    \/ RowRetired

LEMMA RowSteps == ASSUME DurableTypeOK, CallsInv, [Next]_vars PROVE RowStep
<1>1. ASSUME NEW c \in Calls, Reserve(c) PROVE RowStep
  <2>1. CASE UNCHANGED <<auth, head, retired>>
    BY <2>1 DEF RowStep
  <2>2. CASE ~UNCHANGED <<auth, head, retired>>
    <3>0. \A next : ~Move(c, next)
      BY <2>2 DEF Move, tables
    <3>1. PICK a \in Fresh :
             /\ Context(call[c].q) /\ head = NoAuth
             /\ CommitRows(c, [auth EXCEPT ![a] = [q |-> call[c].q, deadline |-> now + Lifetime,
                                                    state |-> "reserved", epoch |-> 0]],
                           a, [call[c] EXCEPT !.pc = "claim", !.a = a])
      BY <1>1, <3>0 DEF Reserve, Refuse
    <3>2. call[c].q \in Requests /\ now + Lifetime \in Nat
      <4>1. call[c].pc = "reserve"
        BY <1>1 DEF Reserve, At
      <4>2. now + Lifetime \in Nat
        BY BoundAssumption DEF DurableTypeOK
      <4> QED BY <4>1, <4>2 DEF CallsInv, CallOK
    <3>3. /\ head' = a /\ retired' = retired
          /\ auth' = [auth EXCEPT ![a] = [q |-> call[c].q, deadline |-> now + Lifetime,
                                          state |-> "reserved", epoch |-> 0]]
      BY <2>2, <3>1 DEF CommitRows
    <3> QED BY <3>1, <3>2, <3>3 DEF RowStep, RowAdded
  <2> QED BY <2>1, <2>2
<1>2. ASSUME NEW c \in Calls, Claim(c) PROVE RowStep
  <2> DEFINE a == call[c].a
  <2>1. a \in Auths /\ auth \in [Auths -> Rows]
    BY <1>2, SMTT(30) DEF Claim, At, CallsInv, CallOK, DurableTypeOK
  <2>2. CASE UNCHANGED <<auth, head, retired>>
    BY <2>2 DEF RowStep
  <2>3. CASE ~UNCHANGED <<auth, head, retired>>
    <3>1. /\ auth[a].state = "reserved" /\ UNCHANGED <<head, retired>>
          /\ auth' = [auth EXCEPT ![a].state = "signing", ![a].epoch = epoch]
      BY <1>2, <2>3 DEF Claim, Claimable, Refuse, Move, CommitRows, tables
    <3>2. /\ auth'[a].state = "signing" /\ auth'[a].q = auth[a].q /\ auth'[a].deadline = auth[a].deadline
          /\ \A b \in Auths \ {a} : auth'[b] = auth[b]
      BY <2>1, <3>1 DEF Rows
    <3> QED BY <2>1, <3>1, <3>2 DEF RowStep, RowMoved, Forward
  <2> QED BY <2>2, <2>3
<1>3. ASSUME NEW c \in Calls, MarkUnknown(c) PROVE RowStep
  <2> DEFINE a == call[c].a
  <2>1. a \in Auths /\ auth \in [Auths -> Rows]
    BY <1>3 DEF MarkUnknown, At, CallsInv, CallOK, Asking, DurableTypeOK
  <2>2. CASE UNCHANGED <<auth, head, retired>>
    BY <2>2 DEF RowStep
  <2>3. CASE ~UNCHANGED <<auth, head, retired>>
    <3>1. /\ auth[a].state = "signing" /\ auth[a].epoch = epoch /\ UNCHANGED <<head, retired>>
          /\ auth' = [auth EXCEPT ![a].state = "unknown"]
      BY <1>3, <2>3 DEF MarkUnknown, CommitRows
    <3>2. /\ auth'[a].state = "unknown" /\ auth'[a].q = auth[a].q /\ auth'[a].deadline = auth[a].deadline
          /\ \A b \in Auths \ {a} : auth'[b] = auth[b]
      BY <2>1, <3>1 DEF Rows
    <3> QED BY <2>1, <3>1, <3>2 DEF RowStep, RowMoved, Forward
  <2> QED BY <2>2, <2>3
<1>4. ASSUME NEW c \in Calls, Store(c) PROVE RowStep
  <2> DEFINE a == call[c].a
  <2>1. a \in Auths /\ a \in made /\ auth \in [Auths -> Rows]
    BY <1>4 DEF Store, At, CallsInv, CallOK, Asking, DurableTypeOK
  <2>2. CASE UNCHANGED <<auth, head, retired>>
    BY <2>2 DEF RowStep
  <2>3. CASE ~UNCHANGED <<auth, head, retired>>
    <3>1. /\ auth[a].state = "signing" /\ auth[a].epoch = epoch /\ UNCHANGED <<head, retired>>
          /\ auth' = [auth EXCEPT ![a].state = "signed"]
      BY <1>4, <2>3 DEF Store, Refuse, Move, CommitRows, tables
    <3>2. /\ auth'[a].state = "signed" /\ auth'[a].q = auth[a].q /\ auth'[a].deadline = auth[a].deadline
          /\ \A b \in Auths \ {a} : auth'[b] = auth[b]
      BY <2>1, <3>1 DEF Rows
    <3> QED BY <2>1, <3>1, <3>2 DEF RowStep, RowMoved, Forward
  <2> QED BY <2>2, <2>3
<1>5. CASE Apply
  <2>1. head \in Auths /\ Unusable(head)
    BY <1>5 DEF Apply, DurableTypeOK
  <2> QED BY <1>5, <2>1 DEF Apply, RowStep, RowRetired
<1>6. ASSUME NEW c \in Calls, Ask(c) \/ Answer(c) \/ TimeOut(c) \/ Release(c) \/ \E q \in Requests : Start(c, q)
      PROVE  RowStep
  BY <1>6 DEF Ask, Answer, TimeOut, Release, Start, Refuse, Move, tables, RowStep
<1>7. ASSUME \/ Acquire("site") \/ Acquire("operator") \/ Stop \/ \E a \in Auths : Sign(a)
             \/ Switch \/ (\E q \in Requests : LoseProof(q)) \/ Tick \/ Block \/ Finalize \/ Reorganize \/ Plan
             \/ UNCHANGED vars
      PROVE  RowStep
  BY <1>7 DEF Acquire, Stop, Sign, Switch, LoseProof, Tick, Block, Finalize, Reorganize, Plan, vars, tables, RowStep
<1> QED BY <1>1, <1>2, <1>3, <1>4, <1>5, <1>6, <1>7 DEF Next, Issue

\* A row keeps its owner and deadline once it is written, and what is signed stays so.
LEMMA RowsStay ==
    ASSUME DurableTypeOK, RowStep, NEW a \in Auths, auth[a].state # "none"
    PROVE  /\ auth'[a].q = auth[a].q /\ auth'[a].deadline = auth[a].deadline
           /\ auth'[a].state = auth[a].state \/ Forward(a)
<1>1. CASE RowAdded
  BY <1>1 DEF RowAdded, Fresh, NoRow, DurableTypeOK
<1>2. CASE \E b \in Auths : RowMoved(b)
  BY <1>2 DEF RowMoved
<1>3. CASE RowRetired \/ UNCHANGED <<auth, head, retired>>
  BY <1>3 DEF RowRetired
<1> QED BY <1>1, <1>2, <1>3 DEF RowStep

LEMMA RowsKept ==
    ASSUME DurableTypeOK, RowsInv, RowStep PROVE RowsInv'
<1>1. CASE UNCHANGED <<auth, head, retired>>
  BY <1>1 DEF RowsInv, OneReservationPerRequest
<1>2. CASE RowAdded
  <2>1. PICK f \in Fresh, q \in Requests, d \in Nat :
           /\ Context(q) /\ head' = f
           /\ auth' = [auth EXCEPT ![f] = [q |-> q, deadline |-> d, state |-> "reserved", epoch |-> 0]]
    BY <1>2 DEF RowAdded
  <2>2. /\ f \in Auths /\ auth[f] = NoRow /\ auth[f].state = "none" /\ head = NoAuth /\ retired' = retired
        /\ auth'[f].state = "reserved" /\ auth'[f].q = q /\ \A b \in Auths \ {f} : auth'[b] = auth[b]
    BY <1>2, <2>1 DEF RowAdded, Fresh, NoRow, DurableTypeOK
  <2>3. f \notin retired /\ NoAuth \notin Auths
    BY <2>2 DEF RowsInv, NoAuth, Auths
  <2>4. \A b \in Auths : auth[b].q # q
    BY <2>1, <2>2, <2>3 DEF Context
  <2>5. OneReservationPerRequest'
    BY <2>2, <2>4 DEF RowsInv, OneReservationPerRequest
  <2>6. \A a \in Auths : auth'[a].state # "none" <=> (a = head' \/ a \in retired')
    BY <2>1, <2>2, <2>3 DEF RowsInv
  <2>7. \A a \in Auths : auth'[a].state = "none" => auth'[a] = NoRow
    BY <2>2 DEF RowsInv
  <2> QED BY <2>1, <2>2, <2>3, <2>5, <2>6, <2>7 DEF RowsInv
<1>3. ASSUME NEW a \in Auths, RowMoved(a) PROVE RowsInv'
  <2>1. auth[a].state # "none" /\ auth'[a].state # "none"
    BY <1>3 DEF RowMoved, Forward
  <2>2. \A b \in Auths : auth'[b].q = auth[b].q
    BY <1>3 DEF RowMoved
  <2>3. OneReservationPerRequest'
    BY <2>2 DEF RowsInv, OneReservationPerRequest
  <2> QED BY <1>3, <2>1, <2>3 DEF RowsInv, RowMoved
<1>4. CASE RowRetired
  <2>1. NoAuth \notin Auths /\ retired \in SUBSET Auths
    BY DEF NoAuth, Auths, DurableTypeOK
  <2>2. OneReservationPerRequest'
    BY <1>4 DEF RowsInv, OneReservationPerRequest, RowRetired
  <2> QED BY <1>4, <2>1, <2>2 DEF RowsInv, RowRetired
<1> QED BY <1>1, <1>2, <1>3, <1>4 DEF RowStep
-----------------------------------------------------------------------------
(* Calls. *)

\* When the writer of a process fails, none of its calls goes on.
LEMMA CallsLost ==
    ASSUME DurableTypeOK, CallsInv, ProcessLost PROVE CallsInv'
<1>1. \A c \in Calls :
         /\ call'[c].pc \in {"idle", "end"} /\ (call'[c].pc = "idle" <=> call[c].pc = "idle")
         /\ call'[c].q = call[c].q /\ call'[c].reply = call[c].reply
  BY EndedShape DEF ProcessLost
<1>2. ASSUME NEW c \in Calls PROVE CallOK(c)' /\ ~Working(c)'
  <2>1. CallOK(c) /\ call'[c].pc \notin Asking \cup {"claim", "release"}
    BY <1>1 DEF CallsInv, Asking
  <2> QED BY <1>1, <2>1 DEF CallOK, Working, Asking
<1> QED BY <1>1, <1>2 DEF CallsInv

\* One call of the site moves, and the rows of the others stand still.
LEMMA CallsMoved ==
    ASSUME DurableTypeOK, CallsInv, NEW c \in Calls, NEW next,
           call' = [call EXCEPT ![c] = next], CallOK(c)', process = "site", UNCHANGED <<process, epoch>>,
           made \subseteq made',
           \A d \in Calls : d # c /\ Working(d) =>
               /\ auth'[call[d].a] = auth[call[d].a] /\ asked'[call[d].a] = asked[call[d].a]
               /\ Working(c)' => call[d].a # next.a
    PROVE  CallsInv'
<1>1. call'[c] = next /\ \A d \in Calls : d # c => call'[d] = call[d]
  BY DEF DurableTypeOK
<1>2. ASSUME NEW d \in Calls, d # c PROVE CallOK(d)' /\ (Working(d)' => Working(d))
  <2>1. CallOK(d) /\ call'[d] = call[d]
    BY <1>1, <1>2 DEF CallsInv
  <2>2. CASE Working(d)
    BY <1>2, <2>1, <2>2 DEF CallOK, Working
  <2>3. CASE ~Working(d)
    BY <1>2, <2>1, <2>3 DEF CallOK, Working, Asking
  <2> QED BY <2>2, <2>3, <2>1 DEF Working
<1>3. ASSUME NEW d \in Calls, NEW e \in Calls, Working(d)', Working(e)', call'[d].a = call'[e].a
      PROVE  d = e
  BY <1>1, <1>2, <1>3 DEF CallsInv
<1> QED BY <1>2, <1>3 DEF CallsInv

LEMMA MoveCalls ==
    ASSUME DurableTypeOK, CallsInv, NEW c \in Calls, NEW next \in CallRecords, Move(c, next),
           process = "site",
           next.pc \in {"claim", "release", "reserve", "end"} \/ (Working(c) /\ next.a = call[c].a),
           next.pc \in Asking => next.reply = call[c].reply /\ next.q = call[c].q,
           next.pc # "end" => next.reply = NoAuth,
           next.q \in Requests,
           next.pc \in Asking \cup {"claim", "release"} => next.a \in Auths,
           next.pc # "ask", next.pc = "store" => next.a \in made
    PROVE  CallsInv'
<1>1. call'[c] = next /\ call' = [call EXCEPT ![c] = next] /\ UNCHANGED <<auth, epoch, asked, made, process>>
  BY DEF Move, DurableTypeOK, tables, signer
<1>2. CallOK(c)'
  <2>1. CASE next.pc \in {"claim", "release", "reserve", "end"}
    BY <1>1, <2>1 DEF CallOK, Working, Asking
  <2>2. CASE Working(c) /\ next.a = call[c].a
    BY <1>1, <2>2 DEF CallOK, Working, CallsInv
  <2> QED BY <2>1, <2>2
<1>3. \A d \in Calls : d # c /\ Working(d) => (Working(c)' => call[d].a # next.a)
  BY <1>1 DEF Working, CallsInv, Asking
<1> QED BY <1>1, <1>2, <1>3, CallsMoved

LEMMA RefuseCalls ==
    ASSUME DurableTypeOK, CallsInv, NEW c \in Calls, Refuse(c), process = "site", call[c].pc # "idle"
    PROVE  CallsInv'
<1> DEFINE next == [call[c] EXCEPT !.pc = "end"]
<1>1. next \in CallRecords /\ next.pc = "end" /\ next.q = call[c].q /\ Move(c, next)
  BY DEF Refuse, DurableTypeOK, CallRecords, Steps
<1>2. next.q \in Requests
  BY <1>1 DEF CallsInv, CallOK
<1> HIDE DEF next
<1> QED BY <1>1, <1>2, MoveCalls DEF Asking

\* A transaction of a call that was acknowledged, or was the last of its process.
LEMMA CommitCalls ==
    ASSUME DurableTypeOK, CallsInv, NEW c \in Calls, NEW rows \in [Auths -> Rows], NEW h,
           NEW next \in CallRecords, CommitRows(c, rows, h, next), process = "site",
           next.pc # "end" => next.reply = NoAuth,
           next.q \in Requests,
           next.pc \in {"claim", "ask", "release", "end"},
           next.pc # "end" => next.a \in Auths,
           next.pc = "ask" => /\ rows[next.a].state = "signing" /\ rows[next.a].epoch = epoch
                              /\ asked[next.a] = 0
                              /\ \A d \in Calls : Working(d) => call[d].a # next.a,
           \A d \in Calls : d # c /\ Working(d) => rows[call[d].a] = auth[call[d].a]
    PROVE  CallsInv'
<1>1. CASE ProcessLost
  BY <1>1, CallsLost
<1>2. CASE /\ auth' = rows /\ call' = [call EXCEPT ![c] = next] /\ UNCHANGED process
  <2>1. call'[c] = next /\ UNCHANGED <<epoch, asked, made>>
    BY <1>2 DEF CommitRows, signer, DurableTypeOK
  <2>2. CallOK(c)'
    BY <1>2, <2>1 DEF CallOK, Working, Asking
  <2>3. \A d \in Calls : d # c /\ Working(d) => (Working(c)' => call[d].a # next.a)
    BY <2>1 DEF Working, Asking
  <2> QED BY <1>2, <2>1, <2>2, <2>3, CallsMoved
<1> QED BY <1>1, <1>2 DEF CommitRows

LEMMA CallsKept ==
    ASSUME DurableTypeOK, RowsInv, SignerInv, CallsInv, [Next]_vars
    PROVE  CallsInv'
<1>1. ASSUME NEW c \in Calls, NEW q \in Requests, Start(c, q) PROVE CallsInv'
  <2> DEFINE next == [Idle EXCEPT !.pc = "reserve", !.q = q]
  <2>1. /\ next \in CallRecords /\ next.pc = "reserve" /\ next.q = q /\ next.reply = NoAuth
        /\ Move(c, next) /\ process = "site"
    BY <1>1 DEF Start, Idle, CallRecords, Steps
  <2> HIDE DEF next
  <2> QED BY <2>1, MoveCalls DEF Asking
<1>2. ASSUME NEW c \in Calls, Reserve(c) PROVE CallsInv'
  <2>1. CallOK(c) /\ call[c].pc = "reserve" /\ process = "site" /\ call[c] \in CallRecords
    BY <1>2 DEF Reserve, At, CallsInv, DurableTypeOK
  <2>2. call[c].q \in Requests /\ call[c].reply = NoAuth
    BY <2>1 DEF CallOK
  <2>3. CASE Refuse(c)
    BY <2>1, <2>3, RefuseCalls
  <2>4. ASSUME NEW a \in Fresh,
               CommitRows(c, [auth EXCEPT ![a] = [q |-> call[c].q, deadline |-> now + Lifetime,
                                                   state |-> "reserved", epoch |-> 0]],
                          a, [call[c] EXCEPT !.pc = "claim", !.a = a])
        PROVE  CallsInv'
    <3> DEFINE rows == [auth EXCEPT ![a] = [q |-> call[c].q, deadline |-> now + Lifetime,
                                            state |-> "reserved", epoch |-> 0]]
               next == [call[c] EXCEPT !.pc = "claim", !.a = a]
    <3>1. a \in Auths /\ auth[a].state = "none"
      BY DEF Fresh, NoRow
    <3>2. rows \in [Auths -> Rows]
      <4>1. now + Lifetime \in Nat
        BY BoundAssumption DEF DurableTypeOK
      <4> QED BY <2>2, <4>1 DEF DurableTypeOK, Rows, States
    <3>3. /\ next \in CallRecords /\ next.pc = "claim" /\ next.a = a
          /\ next.q = call[c].q /\ next.reply = NoAuth
      BY <2>1, <2>2, <3>1 DEF CallRecords, Steps
    <3>4. \A d \in Calls : Working(d) => rows[call[d].a] = auth[call[d].a]
      BY <3>1 DEF CallsInv, CallOK, DurableTypeOK
    <3>5. CommitRows(c, rows, a, next)
      BY <2>4
    <3> HIDE DEF rows, next
    <3> QED BY <2>1, <2>2, <3>1, <3>2, <3>3, <3>4, <3>5, CommitCalls
  <2>5. CASE Move(c, [call[c] EXCEPT !.pc = "claim", !.a = head]) /\ head # NoAuth
    <3> DEFINE next == [call[c] EXCEPT !.pc = "claim", !.a = head]
    <3>1. /\ next \in CallRecords /\ next.pc = "claim" /\ next.a \in Auths
          /\ next.q = call[c].q /\ next.reply = NoAuth
      BY <2>1, <2>2, <2>5 DEF CallRecords, Steps, DurableTypeOK
    <3> HIDE DEF next
    <3> QED BY <2>1, <2>2, <2>5, <3>1, MoveCalls DEF Asking, next
  <2> QED BY <1>2, <2>3, <2>4, <2>5 DEF Reserve
<1>3. ASSUME NEW c \in Calls, Claim(c) PROVE CallsInv'
  <2>1. CallOK(c) /\ call[c].pc = "claim" /\ process = "site" /\ call[c] \in CallRecords
    BY <1>3 DEF Claim, At, CallsInv, DurableTypeOK
  <2>2. call[c].q \in Requests /\ call[c].reply = NoAuth /\ call[c].a \in Auths
    BY <2>1 DEF CallOK
  <2>3. CASE Refuse(c)
    BY <2>1, <2>3, RefuseCalls
  <2>4. CASE Move(c, [call[c] EXCEPT !.pc = "release"])
    <3> DEFINE next == [call[c] EXCEPT !.pc = "release"]
    <3>1. /\ next \in CallRecords /\ next.pc = "release" /\ next.a = call[c].a
          /\ next.q = call[c].q /\ next.reply = NoAuth
      BY <2>1, <2>2 DEF CallRecords, Steps
    <3>2. Move(c, next)
      BY <2>4
    <3> HIDE DEF next
    <3> QED BY <2>1, <2>2, <3>1, <3>2, MoveCalls DEF Asking
  <2>5. CASE /\ auth[call[c].a].state = "reserved"
             /\ CommitRows(c, [auth EXCEPT ![call[c].a].state = "signing", ![call[c].a].epoch = epoch],
                           head, [call[c] EXCEPT !.pc = "ask"])
    <3> DEFINE a == call[c].a
               rows == [auth EXCEPT ![a].state = "signing", ![a].epoch = epoch]
               next == [call[c] EXCEPT !.pc = "ask"]
    <3>1. /\ next \in CallRecords /\ next.pc = "ask" /\ next.a = a
          /\ next.q = call[c].q /\ next.reply = NoAuth
      BY <2>1, <2>2 DEF CallRecords, Steps, Asking
    <3>2. auth \in [Auths -> Rows] /\ epoch \in Nat
      BY DEF DurableTypeOK
    <3>3. /\ \A b \in Auths \ {a} : rows[b] = auth[b]
          /\ rows[a].state = "signing" /\ rows[a].epoch = epoch
      BY <2>2, <3>2 DEF Rows
    <3>4. rows \in [Auths -> Rows]
      <4>1. \A r \in Rows : [r EXCEPT !.state = "signing"] \in Rows
        BY DEF Rows, States
      <4>2. \A r \in Rows : [r EXCEPT !.epoch = epoch] \in Rows
        BY <3>2 DEF Rows
      <4> QED BY <3>2, <4>1, <4>2
    <3>5. \A d \in Calls : Working(d) => call[d].a \in Auths /\ call[d].a # a
      BY <2>5 DEF CallsInv, CallOK, Working
    <3>6. asked[a] = 0
      BY <2>2, <2>5 DEF SignerInv, DurableTypeOK
    <3>7. CommitRows(c, rows, head, next)
      BY <2>5
    <3> HIDE DEF rows, next
    <3> QED BY <2>1, <2>2, <3>1, <3>3, <3>4, <3>5, <3>6, <3>7, CommitCalls
  <2> QED BY <1>3, <2>3, <2>4, <2>5 DEF Claim, Claimable
<1>4. ASSUME NEW c \in Calls, Ask(c) PROVE CallsInv'
  <2>1. CallOK(c) /\ Working(c) /\ call[c].pc = "ask" /\ process = "site"
    BY <1>4 DEF Ask, At, CallsInv, Working, Asking
  <2> DEFINE next == [call[c] EXCEPT !.pc = "wait"]
  <2>2. /\ next.pc = "wait" /\ next.a = call[c].a /\ next.q = call[c].q /\ next.reply = call[c].reply
        /\ call' = [call EXCEPT ![c] = next] /\ call'[c] = next
    BY <1>4 DEF Ask, DurableTypeOK, CallRecords
  <2> HIDE DEF next
  <2>3. CallOK(c)'
    BY <1>4, <2>1, <2>2 DEF CallOK, Working, Asking, Ask, tables
  <2>4. \A d \in Calls : d # c /\ Working(d) => call[d].a # call[c].a /\ call[d].a \in Auths
    BY <2>1 DEF CallsInv, CallOK, Working
  <2>5. \A d \in Calls : d # c /\ Working(d) => asked'[call[d].a] = asked[call[d].a]
    BY <1>4, <2>4 DEF Ask, DurableTypeOK
  <2>6. UNCHANGED <<auth, epoch, process, made>>
    BY <1>4 DEF Ask, tables
  <2> QED BY <2>1, <2>2, <2>3, <2>4, <2>5, <2>6, CallsMoved
<1>5. ASSUME NEW c \in Calls, Answer(c) PROVE CallsInv'
  <2> DEFINE next == [call[c] EXCEPT !.pc = "store"]
  <2>1. /\ Working(c) /\ call[c].pc = "wait" /\ call[c].a \in made /\ process = "site" /\ CallOK(c)
        /\ Move(c, next) /\ call[c] \in CallRecords
    BY <1>5 DEF Answer, At, Working, Asking, CallsInv, DurableTypeOK
  <2>2. /\ next \in CallRecords /\ next.pc = "store" /\ next.a = call[c].a /\ next.q = call[c].q
        /\ next.reply = call[c].reply
    BY <2>1 DEF CallRecords, Steps, Asking
  <2>3. call[c].reply = NoAuth /\ call[c].q \in Requests /\ call[c].a \in Auths
    BY <2>1 DEF CallOK, Working
  <2> HIDE DEF next
  <2> QED BY <2>1, <2>2, <2>3, MoveCalls
<1>6. ASSUME NEW c \in Calls, TimeOut(c) PROVE CallsInv'
  <2> DEFINE next == [call[c] EXCEPT !.pc = "unknown"]
  <2>1. /\ Working(c) /\ call[c].pc \in {"ask", "wait"} /\ process = "site" /\ CallOK(c)
        /\ Move(c, next) /\ call[c] \in CallRecords
    BY <1>6 DEF TimeOut, Working, Asking, CallsInv, DurableTypeOK
  <2>2. /\ next \in CallRecords /\ next.pc = "unknown" /\ next.a = call[c].a /\ next.q = call[c].q
        /\ next.reply = call[c].reply
    BY <2>1 DEF CallRecords, Steps, Asking
  <2>3. call[c].reply = NoAuth /\ call[c].q \in Requests /\ call[c].a \in Auths
    BY <2>1 DEF CallOK, Working
  <2> HIDE DEF next
  <2> QED BY <2>1, <2>2, <2>3, MoveCalls
<1>7. ASSUME NEW c \in Calls, MarkUnknown(c) PROVE CallsInv'
  <2> DEFINE a == call[c].a
             rows == IF auth[a].state = "signing" /\ auth[a].epoch = epoch
                     THEN [auth EXCEPT ![a].state = "unknown"] ELSE auth
             next == [call[c] EXCEPT !.pc = "end"]
  <2>1. /\ Working(c) /\ process = "site" /\ CallOK(c) /\ call[c] \in CallRecords
        /\ CommitRows(c, rows, head, next)
    BY <1>7 DEF MarkUnknown, At, Working, Asking, CallsInv, DurableTypeOK
  <2>2. next \in CallRecords /\ next.pc = "end" /\ next.q = call[c].q
    BY <2>1 DEF CallRecords, Steps
  <2>3. call[c].q \in Requests
    BY <2>1 DEF CallOK, Working, Asking
  <2>4. rows \in [Auths -> Rows]
    <3>1. \A r \in Rows : [r EXCEPT !.state = "unknown"] \in Rows
      BY DEF Rows, States
    <3> QED BY <3>1 DEF DurableTypeOK
  <2>5. \A b \in Auths \ {a} : rows[b] = auth[b]
    BY DEF DurableTypeOK
  <2>6. \A d \in Calls : d # c /\ Working(d) => rows[call[d].a] = auth[call[d].a]
    BY <2>1, <2>5 DEF CallsInv, CallOK, Working
  <2> HIDE DEF rows, next
  <2> QED BY <2>1, <2>2, <2>3, <2>4, <2>6, CommitCalls
<1>8. ASSUME NEW c \in Calls, Store(c) PROVE CallsInv'
  <2> DEFINE a == call[c].a
             rows == [auth EXCEPT ![a].state = "signed"]
             next == [call[c] EXCEPT !.pc = "release"]
  <2>1. Working(c) /\ call[c].pc = "store" /\ process = "site" /\ CallOK(c) /\ call[c] \in CallRecords
    BY <1>8 DEF Store, At, Working, Asking, CallsInv, DurableTypeOK
  <2>2. CASE Refuse(c)
    BY <2>1, <2>2, RefuseCalls
  <2>3. CASE CommitRows(c, rows, head, next)
    <3>1. next \in CallRecords /\ next.pc = "release" /\ next.q = call[c].q /\ next.a = a /\ next.reply = call[c].reply
      BY <2>1 DEF CallRecords, Steps
    <3>2. call[c].q \in Requests /\ call[c].reply = NoAuth /\ a \in Auths
      BY <2>1 DEF CallOK, Working, Asking
    <3>3. rows \in [Auths -> Rows]
      <4>1. \A r \in Rows : [r EXCEPT !.state = "signed"] \in Rows
        BY DEF Rows, States
      <4> QED BY <4>1 DEF DurableTypeOK
    <3>4. \A b \in Auths \ {a} : rows[b] = auth[b]
      BY DEF DurableTypeOK
    <3>5. \A d \in Calls : d # c /\ Working(d) => rows[call[d].a] = auth[call[d].a]
      BY <2>1, <3>4 DEF CallsInv, CallOK, Working
    <3> HIDE DEF rows, next
    <3> QED BY <2>1, <2>3, <3>1, <3>2, <3>3, <3>5, CommitCalls
  <2> QED BY <1>8, <2>2, <2>3 DEF Store
<1>9. ASSUME NEW c \in Calls, Release(c) PROVE CallsInv'
  <2>1. call[c].pc = "release" /\ process = "site" /\ CallOK(c) /\ call[c] \in CallRecords
    BY <1>9 DEF Release, At, CallsInv, DurableTypeOK
  <2>2. CASE Refuse(c)
    BY <2>1, <2>2, RefuseCalls
  <2>3. CASE Move(c, [call[c] EXCEPT !.pc = "end", !.reply = call[c].a])
    <3> DEFINE next == [call[c] EXCEPT !.pc = "end", !.reply = call[c].a]
    <3>1. next \in CallRecords /\ next.pc = "end" /\ next.q = call[c].q /\ Move(c, next)
      BY <2>1, <2>3 DEF CallRecords, Steps
    <3>2. call[c].q \in Requests
      BY <2>1 DEF CallOK
    <3> HIDE DEF next
    <3> QED BY <2>1, <3>1, <3>2, MoveCalls DEF Asking
  <2> QED BY <1>9, <2>2, <2>3 DEF Release
<1>10. ASSUME NEW kind \in {"site", "operator"}, Acquire(kind) PROVE CallsInv'
  <2>1. \A c \in Calls : call[c].pc \in {"idle", "end"} /\ CallOK(c)
    BY <1>10 DEF Acquire, CallsInv
  <2>2. \A c \in Calls : call'[c].pc \in {"idle", "end"} /\ CallOK(c)'
    BY <1>10, <2>1 DEF Acquire, CallOK, Working, Asking, signer
  <2> QED BY <2>2 DEF CallsInv, Working, Asking
<1>11. CASE Stop
  BY <1>11, CallsLost DEF Stop
<1>12. ASSUME NEW a \in Auths, Sign(a) PROVE CallsInv'
  <2>1. made \subseteq made' /\ UNCHANGED <<auth, epoch, process, call, asked>>
    BY <1>12 DEF Sign, tables
  <2>2. \A c \in Calls : CallOK(c)'
    BY <2>1 DEF CallsInv, CallOK, Working
  <2> QED BY <2>1, <2>2 DEF CallsInv, Working
<1>13. ASSUME \/ Switch \/ (\E q \in Requests : LoseProof(q)) \/ Tick \/ Block \/ Finalize \/ Reorganize \/ Plan
              \/ UNCHANGED vars
       PROVE  CallsInv'
  <2>1. UNCHANGED <<auth, epoch, process, call, asked, made>>
    BY <1>13 DEF Switch, LoseProof, Tick, Block, Finalize, Reorganize, Plan, vars, tables, signer
  <2> QED BY <2>1 DEF CallsInv, CallOK, Working
<1>14. CASE Apply
  <2>1. CASE ProcessLost
    BY <2>1, CallsLost
  <2>2. CASE UNCHANGED <<process, call>>
    <3>1. UNCHANGED <<auth, epoch, process, call, asked, made>>
      BY <1>14, <2>2, SMTT(30) DEF Apply, signer
    <3> QED BY <3>1 DEF CallsInv, CallOK, Working
  <2> QED BY <1>14, <2>1, <2>2 DEF Apply
<1> QED
  BY <1>1, <1>2, <1>3, <1>4, <1>5, <1>6, <1>7, <1>8, <1>9, <1>10, <1>11, <1>12, <1>13, <1>14 DEF Next, Issue
-----------------------------------------------------------------------------
(* The signer, and what is handed out. *)

LEMMA SignerSteps ==
    ASSUME [Next]_vars
    PROVE  \/ UNCHANGED <<asked, made>>
           \/ \E c \in Calls : Ask(c)
           \/ \E a \in Auths : Sign(a)
BY ZenonT(40) DEF Next, Issue, Start, Reserve, Claim, Answer, TimeOut, MarkUnknown, Store, Release, Refuse, Move, CommitRows,
       Acquire, Stop, Switch, LoseProof, Tick, Block, Finalize, Reorganize, Plan, Apply, signer, vars

LEMMA SignerKept ==
    ASSUME DurableTypeOK, SignerInv, CallsInv, [Next]_vars, RowStep
    PROVE  SignerInv'
<1>1. CASE UNCHANGED <<asked, made>>
  <2>1. CASE RowAdded
    <3>1. PICK f \in Auths : /\ auth[f].state = "none" /\ auth'[f].state = "reserved"
                             /\ \A b \in Auths \ {f} : auth'[b] = auth[b]
      BY <2>1 DEF RowAdded, Fresh, NoRow, DurableTypeOK
    <3>2. ~(asked[f] > 0) /\ f \notin made
      BY <3>1 DEF SignerInv, DurableTypeOK
    <3> QED BY <1>1, <3>1, <3>2 DEF SignerInv, DurableTypeOK
  <2>2. ASSUME NEW a \in Auths, RowMoved(a) PROVE SignerInv'
    <3>1. /\ asked[a] > 0 => auth'[a].state \in {"unknown", "signed"}
          /\ auth'[a].state = "signed" => a \in made
      BY <2>2 DEF RowMoved, Forward, SignerInv
    <3>2. \A b \in Auths \ {a} : auth'[b] = auth[b]
      BY <2>2 DEF RowMoved
    <3> QED BY <1>1, <3>1, <3>2 DEF SignerInv, DurableTypeOK
  <2>3. CASE UNCHANGED auth
    BY <1>1, <2>3 DEF SignerInv
  <2> QED BY <2>1, <2>2, <2>3 DEF RowStep, RowRetired
<1>2. ASSUME NEW c \in Calls, Ask(c) PROVE SignerInv'
  <2>1. call[c].a \in Auths /\ auth[call[c].a].state = "signing" /\ asked[call[c].a] = 0
    BY <1>2 DEF Ask, At, CallsInv, CallOK, Working, Asking
  <2>2. /\ asked'[call[c].a] = 1 /\ \A b \in Auths : b # call[c].a => asked'[b] = asked[b]
        /\ UNCHANGED <<auth, made>>
    BY <1>2, <2>1 DEF Ask, tables, DurableTypeOK
  <2> QED BY <2>1, <2>2 DEF SignerInv, DurableTypeOK
<1>3. ASSUME NEW a \in Auths, Sign(a) PROVE SignerInv'
  <2>1. asked[a] = 1 /\ made' = made \cup {a} /\ UNCHANGED <<auth, asked>>
    BY <1>3, SignedBefore DEF Sign, tables, SignerInv
  <2> QED BY <2>1 DEF SignerInv
<1> QED BY <1>1, <1>2, <1>3, SignerSteps

\* What a call has handed out stays with it; and it hands out what is releasable.
Hands(c) == Release(c) /\ Releasable(call[c].q, call[c].a) /\ call'[c].reply = call[c].a /\ call'[c].q = call[c].q
LEMMA Replies ==
    ASSUME DurableTypeOK, CallsInv, [Next]_vars, NEW c \in Calls
    PROVE  \/ call'[c].reply = call[c].reply /\ (call[c].reply # NoAuth => call'[c].q = call[c].q)
           \/ Hands(c)
<1> DEFINE Same == call'[c].reply = call[c].reply /\ (call[c].reply # NoAuth => call'[c].q = call[c].q)
<1>0. call \in [Calls -> CallRecords]
  BY DEF DurableTypeOK
<1>1. ASSUME ProcessLost PROVE Same
  <2>1. call'[c].reply = call[c].reply /\ call'[c].q = call[c].q
    BY <1>1, EndedShape DEF ProcessLost
  <2> QED BY <2>1
<1>2. CASE UNCHANGED call
  BY <1>2
<1>3. ASSUME NEW d \in Calls, NEW next, call' = [call EXCEPT ![d] = next],
             next.reply = call[d].reply, call[d].reply # NoAuth => next.q = call[d].q
      PROVE  Same
  BY <1>0, <1>3
<1>4. ASSUME NEW d \in Calls, Refuse(d) PROVE Same
  <2>1. /\ call' = [call EXCEPT ![d] = [call[d] EXCEPT !.pc = "end"]]
        /\ [call[d] EXCEPT !.pc = "end"].reply = call[d].reply
        /\ [call[d] EXCEPT !.pc = "end"].q = call[d].q
    BY <1>0, <1>4 DEF Refuse, Move, CallRecords
  <2> QED BY <1>3, <2>1
<1>5. ASSUME NEW d \in Calls, NEW pc, NEW a, call' = [call EXCEPT ![d] = [call[d] EXCEPT !.pc = pc, !.a = a]] PROVE Same
  <2>1. /\ [call[d] EXCEPT !.pc = pc, !.a = a].reply = call[d].reply
        /\ [call[d] EXCEPT !.pc = pc, !.a = a].q = call[d].q
    BY <1>0 DEF CallRecords
  <2> QED BY <1>3, <1>5, <2>1
<1>6. ASSUME NEW d \in Calls, NEW pc, call' = [call EXCEPT ![d] = [call[d] EXCEPT !.pc = pc]] PROVE Same
  <2>1. /\ [call[d] EXCEPT !.pc = pc].reply = call[d].reply
        /\ [call[d] EXCEPT !.pc = pc].q = call[d].q
    BY <1>0 DEF CallRecords
  <2> QED BY <1>3, <1>6, <2>1
<1>7. ASSUME NEW d \in Calls, NEW q \in Requests, Start(d, q) PROVE Same
  <2>1. /\ call' = [call EXCEPT ![d] = [Idle EXCEPT !.pc = "reserve", !.q = q]]
        /\ [Idle EXCEPT !.pc = "reserve", !.q = q].reply = NoAuth
    BY <1>7 DEF Start, Move, Idle
  <2>2. call[d].reply = NoAuth
    BY <1>7 DEF Start, CallsInv, CallOK
  <2> QED BY <1>3, <2>1, <2>2
<1>8. ASSUME NEW d \in Calls, Reserve(d) PROVE Same
  <2>1. Refuse(d) \/ ProcessLost \/ \E a : call' = [call EXCEPT ![d] = [call[d] EXCEPT !.pc = "claim", !.a = a]]
    BY <1>8 DEF Reserve, CommitRows, Move
  <2> QED BY <1>1, <1>4, <1>5, <2>1
<1>9. ASSUME NEW d \in Calls, Claim(d) PROVE Same
  <2>1. Refuse(d) \/ ProcessLost \/ \E pc : call' = [call EXCEPT ![d] = [call[d] EXCEPT !.pc = pc]]
    BY <1>9 DEF Claim, CommitRows, Move
  <2> QED BY <1>1, <1>4, <1>6, <2>1
<1>10. ASSUME NEW d \in Calls, Ask(d) \/ Answer(d) \/ TimeOut(d) PROVE Same
  BY <1>10, <1>6 DEF Ask, Answer, TimeOut, Move
<1>11. ASSUME NEW d \in Calls, MarkUnknown(d) PROVE Same
  <2>1. ProcessLost \/ call' = [call EXCEPT ![d] = [call[d] EXCEPT !.pc = "end"]]
    BY <1>11 DEF MarkUnknown, CommitRows
  <2> QED BY <1>1, <1>6, <2>1
<1>12. ASSUME NEW d \in Calls, Store(d) PROVE Same
  <2>1. Refuse(d) \/ ProcessLost \/ call' = [call EXCEPT ![d] = [call[d] EXCEPT !.pc = "release"]]
    BY <1>12 DEF Store, CommitRows
  <2> QED BY <1>1, <1>4, <1>6, <2>1
<1>13. ASSUME NEW d \in Calls, Release(d) PROVE Same \/ Hands(c)
  <2>1. CASE Refuse(d)
    BY <1>4, <2>1
  <2>2. CASE d # c /\ ~Refuse(d)
    BY <1>0, <1>13, <2>2 DEF Release, Move
  <2>3. CASE d = c /\ ~Refuse(c)
    <3>1. Releasable(call[c].q, call[c].a) /\ call' = [call EXCEPT ![c] = [call[c] EXCEPT !.pc = "end", !.reply = call[c].a]]
      BY <1>13, <2>3 DEF Release, Move
    <3>2. call'[c].reply = call[c].a /\ call'[c].q = call[c].q
      BY <1>0, <3>1 DEF CallRecords
    <3> QED BY <1>13, <2>3, <3>1, <3>2 DEF Hands
  <2> QED BY <2>1, <2>2, <2>3
<1>14. CASE UNCHANGED call \/ Stop \/ Apply
  BY <1>1, <1>2, <1>14 DEF Stop, Apply
<1> QED
  BY <1>7, <1>8, <1>9, <1>10, <1>11, <1>12, <1>13, <1>14
  DEF Next, Issue, Acquire, Sign, Switch, LoseProof, Tick, Block, Finalize, Reorganize, Plan, vars

LEMMA ReleasedKept ==
    ASSUME DurableTypeOK, SignerInv, CallsInv, ReleasedToOwner, [Next]_vars, RowStep, DurableTypeOK'
    PROVE  ReleasedToOwner'
<1> SUFFICES ASSUME NEW c \in Calls, call'[c].reply # NoAuth
             PROVE  LET a == call'[c].reply IN
                    auth'[a].q = call'[c].q /\ auth'[a].state = "signed" /\ a \in made'
  BY DEF ReleasedToOwner
<1> DEFINE a == call'[c].reply
<1>1. a \in Auths
  BY DEF DurableTypeOK, CallRecords
<1>2. auth[a].q = call'[c].q /\ auth[a].state = "signed" /\ a \in made
  <2>1. CASE call'[c].reply = call[c].reply /\ call'[c].q = call[c].q
    BY <2>1 DEF ReleasedToOwner
  <2>2. CASE Hands(c)
    BY <1>1, <2>2 DEF Hands, Releasable, SameOwner, SignerInv
  <2> QED BY <2>1, <2>2, Replies
<1>3. auth'[a].q = auth[a].q /\ auth'[a].state = "signed"
  BY <1>1, <1>2, RowsStay DEF Forward
<1>4. made \subseteq made'
  BY SignerSteps DEF Ask, Sign
<1> QED BY <1>2, <1>3, <1>4

-----------------------------------------------------------------------------
(* The chain. *)

LEMMA ChainSteps ==
    ASSUME [Next]_vars
    PROVE  \/ UNCHANGED chain
           \/ UNCHANGED <<auth, head, retired, made>> /\ (Tick \/ Block \/ Finalize \/ Reorganize)
BY ZenonT(40) DEF Next, Issue, Start, Reserve, Claim, Ask, Answer, TimeOut, MarkUnknown, Store, Release, Refuse, Move, CommitRows,
       Acquire, Stop, Sign, Switch, LoseProof, Tick, Block, Finalize, Reorganize, Plan, Apply, tables, signer, vars

LEMMA ChainKept ==
    ASSUME DurableTypeOK, RowsInv, ChainInv, [Next]_vars, RowStep
    PROVE  ChainInv'
<1>0. NoAuth \notin Auths /\ retired \in SUBSET Auths
  BY DEF NoAuth, Auths, DurableTypeOK
<1>1. CASE UNCHANGED chain
  <2>1. UNCHANGED <<now, latest, final, token>> /\ made \subseteq made'
    BY <1>1, SignerSteps DEF chain, Ask, Sign
  <2>2. \A a \in retired : auth[a].state # "none" /\ auth'[a].deadline = auth[a].deadline
    BY <1>0, RowsStay DEF RowsInv
  <2>3. CASE retired' = retired
    BY <2>1, <2>2, <2>3 DEF ChainInv, RetiredNeverMinted, DurableTypeOK
  <2>4. CASE RowRetired
    <3>1. auth[head].deadline < final /\ token.a = NoAuth /\ retired' = retired \cup {head} /\ head \in Auths
          /\ UNCHANGED auth
      BY <2>4 DEF RowRetired, Unusable, Unminted, DurableTypeOK, Rows
    <3> QED BY <1>0, <2>1, <2>2, <3>1 DEF ChainInv, RetiredNeverMinted
  <2> QED BY <2>3, <2>4 DEF RowStep, RowAdded, RowMoved
<1>2. ASSUME UNCHANGED <<auth, head, retired, made>>, Tick PROVE ChainInv'
  BY <1>2 DEF Tick, ChainInv, RetiredNeverMinted, DurableTypeOK
<1>3. ASSUME UNCHANGED <<auth, head, retired, made>>, Block PROVE ChainInv'
  <2>1. PICK t \in (latest + 1)..now :
           /\ latest' = t
           /\ \/ UNCHANGED token
              \/ \E a \in made : token = Unminted /\ t <= auth[a].deadline /\ token' = [a |-> a, at |-> t]
    BY <1>3 DEF Block
  <2>2. final' = final /\ now' = now /\ t \in Nat /\ latest < t /\ t <= now /\ final < t
    BY <1>3, <2>1 DEF Block, ChainInv, DurableTypeOK
  <2>3. CASE UNCHANGED token
    BY <1>3, <2>1, <2>2, <2>3 DEF ChainInv, RetiredNeverMinted, DurableTypeOK
  <2>4. ASSUME NEW a \in made, t <= auth[a].deadline, token' = [a |-> a, at |-> t] PROVE ChainInv'
    <3>1. a \in Auths /\ auth[a].deadline \in Nat
      BY DEF DurableTypeOK, Rows
    <3>2. a \notin retired
      BY <2>2, <2>4, <3>1 DEF ChainInv, DurableTypeOK
    <3> QED BY <1>0, <1>3, <2>1, <2>2, <2>4, <3>1, <3>2 DEF ChainInv, RetiredNeverMinted, DurableTypeOK
  <2> QED BY <2>1, <2>3, <2>4
<1>4. ASSUME UNCHANGED <<auth, head, retired, made>>, Finalize PROVE ChainInv'
  <2>1. \A a \in retired : auth[a].deadline < latest
    BY <1>0, <1>4 DEF Finalize, ChainInv, DurableTypeOK, Rows
  <2> QED BY <1>4, <2>1 DEF Finalize, ChainInv, RetiredNeverMinted, DurableTypeOK
<1>5. ASSUME UNCHANGED <<auth, head, retired, made>>, Reorganize PROVE ChainInv'
  BY <1>0, <1>5 DEF Reorganize, ChainInv, RetiredNeverMinted, Unminted, DurableTypeOK
<1> QED BY <1>1, <1>2, <1>3, <1>4, <1>5, ChainSteps

-----------------------------------------------------------------------------
(* The theorems. *)

LEMMA DurableStep == DurableInv /\ [Next]_vars => DurableInv'
<1> SUFFICES ASSUME DurableInv, [Next]_vars PROVE DurableInv'
  OBVIOUS
<1> USE DEF DurableInv
<1>1. DurableTypeOK' /\ RowStep /\ CallsInv'
  BY TypesKept, RowSteps, CallsKept
<1>2. RowsInv' /\ SignerInv' /\ ChainInv' /\ ReleasedToOwner'
  BY <1>1, RowsKept, SignerKept, ChainKept, ReleasedKept
<1> QED BY <1>1, <1>2

\* The rows, the calls, the signer and the chain agree, in every reachable state.
THEOREM DurableInvariance == Spec => []DurableInv
BY DurableInit, DurableStep, PTL DEF Spec

\* The signer is asked at most once for a reservation, whatever timed out, crashed
\* or lost its reply (generativeAuthorizations.ts, issue).
THEOREM NeverSignedTwice == Spec => []SignedOnce
<1>1. DurableInv => SignedOnce
  BY DEF DurableInv, SignerInv, SignedOnce, DurableTypeOK
<1> QED BY <1>1, DurableInvariance, PTL

\* At most one signature of the handle can still be redeemed, although others were
\* made for reservations retired since.
THEOREM AtMostOneUsable == Spec => []OneUsable
<1>1. ASSUME DurableInv PROVE OneUsable
  <2> DEFINE usable == {a \in made : final < auth[a].deadline}
  <2>1. ASSUME NEW a \in usable PROVE a = head
    <3>1. a \in Auths /\ auth[a].state # "none" /\ final < auth[a].deadline
      BY <1>1 DEF DurableInv, SignerInv, DurableTypeOK
    <3>2. a \notin retired
      BY <1>1, <3>1 DEF DurableInv, ChainInv, DurableTypeOK, Rows
    <3> QED BY <1>1, <3>1, <3>2 DEF DurableInv, RowsInv
  <2>2. usable \subseteq {head}
    BY <2>1
  <2>3. IsFiniteSet({head}) /\ Cardinality({head}) = 1
    BY FS_Singleton
  <2>4. Cardinality(usable) <= Cardinality({head})
    BY <2>2, <2>3, FS_Subset
  <2>5. IsFiniteSet(usable) /\ Cardinality(usable) \in Nat
    BY <2>2, <2>3, FS_Subset, FS_CardinalityType
  <2> QED BY <2>3, <2>4 DEF OneUsable
<1> QED BY <1>1, DurableInvariance, PTL

\* A reservation has one owner from its row to its release, and what was retired is
\* never minted.
THEOREM ReservationsAreOwned == Spec => []OwnedReservations
<1>1. DurableInv => OwnedReservations
  BY DEF DurableInv, RowsInv, ChainInv, OwnedReservations
<1> QED BY <1>1, DurableInvariance, PTL

\* A call hands out a signature only while its request has a current proof and an
\* unexpired reservation that is still the handle's.
THEOREM HandedOutWhileProved == Spec => ReleasedWhileProved
<1>1. ASSUME DurableInv, [Next]_vars, NEW c \in Calls, call'[c].reply # call[c].reply
      PROVE  proof[call[c].q] /\ auth[call[c].a].deadline > now /\ head = call[c].a
  <2>1. Hands(c)
    BY <1>1, Replies DEF DurableInv
  <2>2. proof[call[c].q] /\ head = call[c].a /\ ~Expired(call[c].a)
    BY <2>1 DEF Hands, Releasable, Context
  <2>3. call[c].a \in Auths
    BY <1>1, <2>1 DEF DurableInv, CallsInv, CallOK, Hands, Release, At
  <2>4. auth[call[c].a].deadline \in Nat /\ now \in Nat
    BY <1>1, <2>3 DEF DurableInv, DurableTypeOK, Rows
  <2> QED BY <2>2, <2>4 DEF Expired
<1>2. DurableInv /\ [Next]_vars =>
         [\A c \in Calls : call'[c].reply # call[c].reply =>
             proof[call[c].q] /\ auth[call[c].a].deadline > now /\ head = call[c].a]_vars
  BY <1>1
<1> QED BY <1>2, DurableInvariance, PTL DEF Spec, ReleasedWhileProved

\* A reservation only moves forward, and leaves `signing' only in the process that
\* claimed it.
THEOREM ReservationsMoveForward == Spec => ForwardOnly
<1>1. ASSUME DurableInv, [Next]_vars, NEW a \in Auths, auth'[a].state # auth[a].state
      PROVE  \/ auth[a].state = "none" /\ auth'[a].state = "reserved"
             \/ auth[a].state = "reserved" /\ auth'[a].state = "signing"
             \/ auth[a].state = "signing" /\ auth[a].epoch = epoch /\ auth'[a].state \in {"unknown", "signed"}
  <2>1. RowStep /\ DurableTypeOK
    BY <1>1, RowSteps DEF DurableInv
  <2>2. CASE auth[a].state # "none"
    BY <1>1, <2>1, <2>2, RowsStay DEF Forward
  <2>3. CASE auth[a].state = "none"
    <3>1. ~RowMoved(a)
      BY <2>3 DEF RowMoved, Forward
    <3>2. RowAdded
      BY <1>1, <2>1, <3>1 DEF RowStep, RowMoved, RowRetired
    <3> QED BY <1>1, <2>1, <2>3, <3>2 DEF RowAdded, DurableTypeOK
  <2> QED BY <2>2, <2>3
<1>2. DurableInv /\ [Next]_vars =>
         [\A a \in Auths : auth'[a].state # auth[a].state =>
             \/ auth[a].state = "none" /\ auth'[a].state = "reserved"
             \/ auth[a].state = "reserved" /\ auth'[a].state = "signing"
             \/ auth[a].state = "signing" /\ auth[a].epoch = epoch /\ auth'[a].state \in {"unknown", "signed"}]_vars
  BY <1>1
<1> QED BY <1>2, DurableInvariance, PTL DEF Spec, ForwardOnly

-----------------------------------------------------------------------------
(* Paid assessments on PostgreSQL (repository.ts, assessmentWorker.ts).     *)

Attempts == {"none", "pending", "accepted", "closed"}
Jobs == [state : {"none", "queued", "running", "complete"}, epoch : Nat, by : Runs \cup {NoRun}]
Kinds == {"blocked", "uncertain", "invalid", "abstained"}
Receipts == [ok : BOOLEAN, cost : Int, present : BOOLEAN]
Terminals ==
    [kind : Kinds \cup {"none"}, phase : {"none", "before-dispatch", "x", "grok"}, by : Runs \cup {NoRun}]
Tables ==
    [epoch : Nat, proof : [Handles -> BOOLEAN], attempt : [Handles -> Attempts], day : [Handles -> Nat],
     job : [Handles -> Jobs], fence : [Handles -> [Paid!Legs -> Nat]],
     receipt : [Handles -> [Paid!Legs -> Receipts]], identity : [Handles -> BOOLEAN],
     result : [Handles -> BOOLEAN], terminal : [Handles -> Terminals]]

AtWork == {"fence", "call", "receipt", "identity", "accept", "abstain", "caught", "catch", "final"}
RunRecords ==
    [pc : AtWork \cup {"idle", "claim", "throw", "end"}, epoch : Nat, h : Handles \cup {NoHandle},
     leg : Paid!Legs \cup {"none"}, answer : Kinds \cup {"none", "accepted"},
     result : {"none", "good", "bad", "refused", "abstained"}, cost : Int,
     expired : BOOLEAN, broken : BOOLEAN, owned : BOOLEAN, cleanup : {"no", "wait", "done"},
     reply : Kinds \cup {"none", "accepted", "error"}]
Transactions ==
    [r : Runs, after : Tables, ack : RunRecords, kind : {"guarded", "plain", "cleanup"}, sent : BOOLEAN]

PaidTypeOK ==
    /\ db \in Tables /\ today \in Nat /\ live \in Nat
    /\ run \in [Runs -> RunRecords]
    /\ calls \in [Handles -> [Paid!Legs -> Nat]] /\ spent \in Nat
    /\ tx # NoTx => tx \in Transactions
    /\ indoubt # NoTx => indoubt \in Tables

\* What the tables say of one handle; `d' is the tables now or after a COMMIT.
Succeeded(d, h, l) == d.receipt[h][l].present /\ d.receipt[h][l].ok
PhaseIn(d, h) == IF d.fence[h]["grok"] # 0 THEN "grok"
                 ELSE IF d.fence[h]["x"] # 0 THEN "x" ELSE "before-dispatch"
Open(d, h) == d.attempt[h] = "pending" /\ d.job[h].state = "running"

\* Evidence comes in order, and an outcome or a result agrees with it.
EvidenceOK(d, h) ==
    /\ d.attempt[h] = "none" => d.job[h].state = "none" /\ d.fence[h]["x"] = 0
    /\ d.job[h].by \in Runs <=> d.job[h].state \in {"running", "complete"}
    /\ \A l \in Paid!Legs : Succeeded(d, h, l) => d.fence[h][l] # 0
    /\ d.fence[h]["grok"] # 0 => d.fence[h]["x"] # 0
    /\ d.identity[h] => Succeeded(d, h, "x")
OutcomeOK(d, h) ==
    LET t == d.terminal[h] IN
    /\ t.kind = "none" => t = Paid!NoTerminal
    /\ t.kind # "none" =>
          /\ t.phase = PhaseIn(d, h) /\ d.attempt[h] = "closed" /\ t.by = d.job[h].by
          /\ t.kind = "blocked" => t.phase = "before-dispatch"
          /\ t.kind = "abstained" => Succeeded(d, h, "grok") /\ d.identity[h]
          /\ t.kind = "invalid" => t.phase # "before-dispatch" /\ Succeeded(d, h, t.phase)
    /\ d.result[h] => d.attempt[h] = "accepted" /\ Succeeded(d, h, "grok") /\ d.identity[h]
TablesOK(d) == \A h \in Handles : EvidenceOK(d, h) /\ OutcomeOK(d, h)

\* What the transactions write.
Claiming(h, job) == [db EXCEPT !.job[h] = job]
Fencing(h, l, n) == [db EXCEPT !.fence[h][l] = n]
Receiving(h, l, receipt) == [db EXCEPT !.receipt[h][l] = receipt]
Identifying(h) == [db EXCEPT !.identity[h] = TRUE]
Accepting(h) == [db EXCEPT !.result[h] = TRUE, !.attempt[h] = "accepted", !.job[h].state = "complete"]

\* What the answer to a transaction makes of its run.
AfterCleanup(q, a) == [q EXCEPT !.cleanup = "done", !.reply = a]
AfterWork(k, q, a) == [k EXCEPT !.expired = q.expired, !.cleanup = q.cleanup, !.reply = a]

\* What a transaction never takes back: an attempt, a fence, a result, an outcome, a
\* claim, and that nothing is running.
Kept(d, e, h) ==
    /\ e.attempt[h] = "none" <=> d.attempt[h] = "none"
    /\ \A l \in Paid!Legs : d.fence[h][l] # 0 => e.fence[h][l] # 0
    /\ d.result[h] => e.result[h]
    /\ d.terminal[h].kind # "none" => e.terminal[h].kind = d.terminal[h].kind
    /\ d.job[h].by \in Runs => /\ e.job[h].by = d.job[h].by /\ e.job[h].epoch = d.job[h].epoch
                               /\ Open(e, h) => Open(d, h)
Same(d, e, h) ==
    /\ e.attempt[h] = d.attempt[h] /\ e.job[h] = d.job[h] /\ e.fence[h] = d.fence[h]
    /\ e.receipt[h] = d.receipt[h] /\ e.identity[h] = d.identity[h]
    /\ e.result[h] = d.result[h] /\ e.terminal[h] = d.terminal[h]
\* `e' is `d' after a transaction about the handle h.
Successor(d, e, h) ==
    /\ e \in Tables /\ e.epoch = d.epoch
    /\ \A k \in Handles : (k # h => Same(d, e, k)) /\ Kept(d, e, k)

\* A claim is of the run that made it.
Claimed(d) ==
    \A h \in Handles, r \in Runs : d.job[h].by = r => run[r].h = h /\ run[r].pc # "idle"

\* What a run record `q' has to expect of the tables `d'.  The legs are asked in order,
\* and only while its process is current does it go by what it remembers of them.
LegOK(d, q) ==
    q.pc \in AtWork =>
        /\ q.leg \in Paid!Legs
        /\ q.leg = "x" => ~d.identity[q.h] /\ d.fence[q.h]["grok"] = 0
        /\ q.leg = "grok" => d.identity[q.h]
        /\ q.pc = "receipt" => d.fence[q.h][q.leg] # 0 /\ (q.result = "abstained" => q.leg = "grok")
        /\ q.pc = "identity" => q.leg = "x"
        /\ q.pc \in {"accept", "abstain", "final"} => q.leg = "grok"
CallReady(d, q) ==
    q.pc = "call" => q.leg \in Paid!Legs /\ d.fence[q.h][q.leg] # 0 /\ calls[q.h][q.leg] = 0
ReplyOK(d, q) ==
    /\ q.pc = "final" => d.result[q.h]
    /\ q.reply = "accepted" => d.result[q.h]
    /\ q.reply \in Kinds => d.terminal[q.h].kind = q.reply
OwnerOK(d, q, r) ==
    q.owned => q.pc \notin {"idle", "claim"} /\ d.job[q.h].by = r /\ d.job[q.h].epoch = q.epoch
DoneOK(d, q) ==
    q.owned /\ q.cleanup = "done" /\ ~q.broken => ~Open(d, q.h)

\* What stands whatever becomes of the process, and what holds while it is current.
Stands(d, r, q) ==
    /\ q.pc = "idle" => q = Paid!Idle
    /\ q.pc # "idle" => q.h \in Handles /\ q.epoch \in 1..d.epoch
    /\ q.pc = "claim" => ~q.broken /\ q.cleanup # "done"
    /\ q.pc \in AtWork => q.owned
    /\ OwnerOK(d, q, r) /\ CallReady(d, q) /\ ReplyOK(d, q)
Current(d, r, q) ==
    q.pc # "idle" /\ q.epoch = live =>
        /\ LegOK(d, q) /\ DoneOK(d, q)
        /\ d.job[q.h].by = r => q.owned
RunFacts(r, q) == Stands(db, r, q) /\ Current(db, r, q)
RunOK(r) == RunFacts(r, run[r])

\* A transaction of the run r that is under way, from db to `after'; the run is as it
\* began it, but for the deadline and what the deadline does.
Begun(r, after, ack, kind) ==
    LET q == run[r] IN
    /\ q.pc # "idle" /\ q.epoch = live /\ live # 0
    /\ Successor(db, after, q.h) /\ TablesOK(after) /\ Claimed(after)
    /\ ack.h = q.h /\ ack.epoch = q.epoch
    /\ kind # "cleanup" =>
          /\ q.pc \in {"claim", "fence", "receipt", "identity", "accept", "abstain", "catch"}
          /\ ack.pc \notin {"idle", "claim"} /\ ack.owned /\ ack.broken = q.broken
          /\ q.broken \/ q.cleanup # "done"
          /\ OwnerOK(after, ack, r) /\ CallReady(after, ack) /\ LegOK(after, ack) /\ ReplyOK(after, ack)
    /\ kind = "cleanup" =>
          /\ q.pc # "claim" /\ q.owned
          /\ after.fence = db.fence /\ after.identity = db.identity
          /\ ~Open(after, q.h) /\ ack.reply \in Kinds
          /\ after.terminal[q.h].kind = ack.reply
TxOK == Begun(tx.r, tx.after, tx.ack, tx.kind)

\* What a successor may find of a COMMIT that was not answered.
DoubtOK ==
    /\ live = 0 /\ lock /\ TablesOK(indoubt) /\ Claimed(indoubt)
    /\ indoubt.epoch = db.epoch /\ \A h \in Handles : Kept(db, indoubt, h)

PaidInv ==
    /\ PaidTypeOK /\ TablesOK(db) /\ Claimed(db)
    /\ live # 0 => live = db.epoch /\ lock
    /\ Paid!OneCallPerLeg
    /\ \A r \in Runs : RunOK(r)
    /\ tx # NoTx => TxOK
    /\ indoubt # NoTx => DoubtOK

\* Each call costs no more than half a reservation, and is made for what is reserved.
Called == {c \in Handles \X Paid!Legs : calls[c[1]][c[2]] # 0}
SpentInv ==
    /\ IsFiniteSet(Paid!Reserved) /\ IsFiniteSet(Called)
    /\ 2 * spent <= Reservation * Cardinality(Called)

-----------------------------------------------------------------------------
(* What each transaction makes of the tables.                               *)

LEMMA AsIs ==
    ASSUME NEW h
    PROVE  /\ PhaseIn(db, h) = Paid!Phase(h) /\ \A l : Succeeded(db, h, l) <=> Paid!Success(h, l)
           /\ \A n : Paid!RunningUnder(h, n) <=> Open(db, h) /\ db.job[h].epoch = n
BY DEF PhaseIn, Paid!Phase, Succeeded, Paid!Success, Paid!RunningUnder, Open

\* Only rows of h change.
LEMMA OneHandle ==
    ASSUME PaidTypeOK, NEW h \in Handles, NEW e \in Tables, e.epoch = db.epoch,
           \A k \in Handles \ {h} : Same(db, e, k), Kept(db, e, h)
    PROVE  Successor(db, e, h)
BY ZenonT(40) DEF Successor, Kept, Same, Open

LEMMA SameIsKept == ASSUME NEW d, NEW e, NEW k, Same(d, e, k) PROVE Kept(d, e, k)
BY Zenon DEF Same, Kept, Open

LEMMA SameOK ==
    ASSUME NEW d, NEW e, NEW k, Same(d, e, k)
    PROVE  /\ EvidenceOK(d, k) <=> EvidenceOK(e, k)
           /\ OutcomeOK(d, k) <=> OutcomeOK(e, k)
BY DEF Same, EvidenceOK, OutcomeOK, Succeeded, PhaseIn

LEMMA ClaimRows ==
    ASSUME PaidTypeOK, NEW h \in Handles, NEW c \in Jobs, NEW e, e = Claiming(h, c)
    PROVE  /\ e \in Tables /\ e.epoch = db.epoch /\ \A k \in Handles \ {h} : Same(db, e, k)
           /\ e.job[h] = c
           /\ e.attempt = db.attempt /\ e.fence = db.fence /\ e.receipt = db.receipt
           /\ e.identity = db.identity /\ e.result = db.result /\ e.terminal = db.terminal
<1>0. db \in Tables
  BY DEF PaidTypeOK
<1>1. PICK j : j = [db.job EXCEPT ![h] = c]
  OBVIOUS
<1>2. e = [db EXCEPT !.job = j]
  BY <1>1 DEF Claiming
<1>3. j \in [Handles -> Jobs] /\ j[h] = c /\ \A k \in Handles \ {h} : j[k] = db.job[k]
  BY <1>0, <1>1 DEF Tables
<1>4. /\ e \in Tables /\ e.epoch = db.epoch /\ e.job = j
      /\ e.attempt = db.attempt /\ e.fence = db.fence /\ e.receipt = db.receipt
      /\ e.identity = db.identity /\ e.result = db.result /\ e.terminal = db.terminal
  BY <1>0, <1>2, <1>3 DEF Tables
<1> QED BY <1>3, <1>4 DEF Same

LEMMA FenceRows ==
    ASSUME PaidTypeOK, NEW h \in Handles, NEW l \in Paid!Legs, NEW n \in Nat, NEW e,
           e = Fencing(h, l, n)
    PROVE  /\ e \in Tables /\ e.epoch = db.epoch /\ \A k \in Handles \ {h} : Same(db, e, k)
           /\ e.fence[h][l] = n /\ \A m \in Paid!Legs \ {l} : e.fence[h][m] = db.fence[h][m]
           /\ e.attempt = db.attempt /\ e.job = db.job /\ e.receipt = db.receipt
           /\ e.identity = db.identity /\ e.result = db.result /\ e.terminal = db.terminal
<1>0. db \in Tables
  BY DEF PaidTypeOK
<1>1. PICK g : g = [db.fence[h] EXCEPT ![l] = n]
  OBVIOUS
<1>2. PICK f : f = [db.fence EXCEPT ![h] = g]
  OBVIOUS
<1>3. e = [db EXCEPT !.fence = f]
  BY <1>1, <1>2 DEF Fencing
<1>4. g \in [Paid!Legs -> Nat] /\ g[l] = n /\ \A m \in Paid!Legs \ {l} : g[m] = db.fence[h][m]
  BY <1>0, <1>1 DEF Tables
<1>5. f \in [Handles -> [Paid!Legs -> Nat]] /\ f[h] = g /\ \A k \in Handles \ {h} : f[k] = db.fence[k]
  BY <1>0, <1>2, <1>4 DEF Tables
<1>6. /\ e \in Tables /\ e.epoch = db.epoch /\ e.fence = f
      /\ e.attempt = db.attempt /\ e.job = db.job /\ e.receipt = db.receipt
      /\ e.identity = db.identity /\ e.result = db.result /\ e.terminal = db.terminal
  BY <1>0, <1>3, <1>5 DEF Tables
<1> QED BY <1>4, <1>5, <1>6 DEF Same

LEMMA ReceiptRows ==
    ASSUME PaidTypeOK, NEW h \in Handles, NEW l \in Paid!Legs, NEW c \in Receipts, NEW e,
           e = Receiving(h, l, c)
    PROVE  /\ e \in Tables /\ e.epoch = db.epoch /\ \A k \in Handles \ {h} : Same(db, e, k)
           /\ e.receipt[h][l] = c /\ \A m \in Paid!Legs \ {l} : e.receipt[h][m] = db.receipt[h][m]
           /\ e.attempt = db.attempt /\ e.job = db.job /\ e.fence = db.fence
           /\ e.identity = db.identity /\ e.result = db.result /\ e.terminal = db.terminal
<1>0. db \in Tables
  BY DEF PaidTypeOK
<1>1. PICK g : g = [db.receipt[h] EXCEPT ![l] = c]
  OBVIOUS
<1>2. PICK f : f = [db.receipt EXCEPT ![h] = g]
  OBVIOUS
<1>3. e = [db EXCEPT !.receipt = f]
  BY <1>1, <1>2 DEF Receiving
<1>4. g \in [Paid!Legs -> Receipts] /\ g[l] = c /\ \A m \in Paid!Legs \ {l} : g[m] = db.receipt[h][m]
  BY <1>0, <1>1 DEF Tables
<1>5. f \in [Handles -> [Paid!Legs -> Receipts]] /\ f[h] = g /\ \A k \in Handles \ {h} : f[k] = db.receipt[k]
  BY <1>0, <1>2, <1>4 DEF Tables
<1>6. /\ e \in Tables /\ e.epoch = db.epoch /\ e.receipt = f
      /\ e.attempt = db.attempt /\ e.job = db.job /\ e.fence = db.fence
      /\ e.identity = db.identity /\ e.result = db.result /\ e.terminal = db.terminal
  BY <1>0, <1>3, <1>5 DEF Tables
<1> QED BY <1>4, <1>5, <1>6 DEF Same

LEMMA IdentityRows ==
    ASSUME PaidTypeOK, NEW h \in Handles, NEW e, e = Identifying(h)
    PROVE  /\ e \in Tables /\ e.epoch = db.epoch /\ \A k \in Handles \ {h} : Same(db, e, k)
           /\ e.identity[h] = TRUE
           /\ e.attempt = db.attempt /\ e.job = db.job /\ e.fence = db.fence
           /\ e.receipt = db.receipt /\ e.result = db.result /\ e.terminal = db.terminal
<1>0. db \in Tables
  BY DEF PaidTypeOK
<1>1. PICK f : f = [db.identity EXCEPT ![h] = TRUE]
  OBVIOUS
<1>2. e = [db EXCEPT !.identity = f]
  BY <1>1 DEF Identifying
<1>3. f \in [Handles -> BOOLEAN] /\ f[h] = TRUE /\ \A k \in Handles \ {h} : f[k] = db.identity[k]
  BY <1>0, <1>1 DEF Tables
<1>4. /\ e \in Tables /\ e.epoch = db.epoch /\ e.identity = f
      /\ e.attempt = db.attempt /\ e.job = db.job /\ e.fence = db.fence
      /\ e.receipt = db.receipt /\ e.result = db.result /\ e.terminal = db.terminal
  BY <1>0, <1>2, <1>3 DEF Tables
<1> QED BY <1>3, <1>4 DEF Same

\* The job of h is complete.
LEMMA Completed ==
    ASSUME PaidTypeOK, NEW h \in Handles, NEW j, j = [db.job EXCEPT ![h].state = "complete"]
    PROVE  /\ j \in [Handles -> Jobs] /\ \A k \in Handles \ {h} : j[k] = db.job[k]
           /\ j[h].state = "complete" /\ j[h].by = db.job[h].by /\ j[h].epoch = db.job[h].epoch
<1>1. db.job \in [Handles -> Jobs]
  BY DEF PaidTypeOK, Tables
<1>2. PICK q : q = [db.job[h] EXCEPT !.state = "complete"]
  OBVIOUS
<1>3. q \in Jobs /\ q.state = "complete" /\ q.by = db.job[h].by /\ q.epoch = db.job[h].epoch
  BY <1>1, <1>2 DEF Jobs
<1>4. j = [db.job EXCEPT ![h] = q]
  BY <1>2
<1> QED BY <1>1, <1>3, <1>4

LEMMA AcceptRows ==
    ASSUME PaidTypeOK, NEW h \in Handles
    PROVE  LET e == Accepting(h) IN
           /\ e \in Tables /\ e.epoch = db.epoch /\ \A k \in Handles \ {h} : Same(db, e, k)
           /\ e.result[h] /\ e.attempt[h] = "accepted" /\ e.job[h].state = "complete"
           /\ e.job[h].by = db.job[h].by /\ e.job[h].epoch = db.job[h].epoch
           /\ e.fence = db.fence /\ e.receipt = db.receipt /\ e.identity = db.identity
           /\ e.terminal = db.terminal
<1>e. PICK e : e = Accepting(h)
  OBVIOUS
<1>0. db \in Tables
  BY DEF PaidTypeOK
<1>1. PICK j : j = [db.job EXCEPT ![h].state = "complete"]
  OBVIOUS
<1>2. PICK f : f = [db.result EXCEPT ![h] = TRUE]
  OBVIOUS
<1>3. PICK a : a = [db.attempt EXCEPT ![h] = "accepted"]
  OBVIOUS
<1>4. e = [db EXCEPT !.result = f, !.attempt = a, !.job = j]
  BY <1>e, <1>1, <1>2, <1>3 DEF Accepting
<1>5. f \in [Handles -> BOOLEAN] /\ f[h] = TRUE /\ \A k \in Handles \ {h} : f[k] = db.result[k]
  BY <1>0, <1>2 DEF Tables
<1>6. a \in [Handles -> Attempts] /\ a[h] = "accepted" /\ \A k \in Handles \ {h} : a[k] = db.attempt[k]
  BY <1>0, <1>3 DEF Tables, Attempts
<1>7. /\ j \in [Handles -> Jobs] /\ \A k \in Handles \ {h} : j[k] = db.job[k]
      /\ j[h].state = "complete" /\ j[h].by = db.job[h].by /\ j[h].epoch = db.job[h].epoch
  BY <1>1, Completed
<1>8. /\ e \in Tables /\ e.epoch = db.epoch /\ e.result = f /\ e.attempt = a /\ e.job = j
      /\ e.fence = db.fence /\ e.receipt = db.receipt /\ e.identity = db.identity
      /\ e.terminal = db.terminal
  BY <1>0, <1>4, <1>5, <1>6, <1>7 DEF Tables
<1>9. /\ e \in Tables /\ e.epoch = db.epoch /\ \A k \in Handles \ {h} : Same(db, e, k)
      /\ e.result[h] /\ e.attempt[h] = "accepted"
  BY <1>5, <1>6, <1>7, <1>8 DEF Same
<1> QED BY <1>e, <1>7, <1>8, <1>9

LEMMA FinishedRows ==
    ASSUME PaidTypeOK, NEW h \in Handles, NEW kind \in Kinds, NEW r \in Runs, NEW e,
           e = Paid!Finished(h, kind, r)
    PROVE  /\ e \in Tables /\ e.epoch = db.epoch /\ \A k \in Handles \ {h} : Same(db, e, k)
           /\ e.terminal[h] = [kind |-> kind, phase |-> PhaseIn(db, h), by |-> r]
           /\ e.attempt[h] = "closed" /\ e.job[h].state = "complete"
           /\ e.job[h].by = db.job[h].by /\ e.job[h].epoch = db.job[h].epoch
           /\ e.fence = db.fence /\ e.receipt = db.receipt /\ e.identity = db.identity
           /\ e.result = db.result
<1>0. db \in Tables
  BY DEF PaidTypeOK
<1>1. PICK j : j = [db.job EXCEPT ![h].state = "complete"]
  OBVIOUS
<1>2. PICK t : t = [kind |-> kind, phase |-> PhaseIn(db, h), by |-> r]
  OBVIOUS
<1>3. PICK f : f = [db.terminal EXCEPT ![h] = t]
  OBVIOUS
<1>4. PICK a : a = [db.attempt EXCEPT ![h] = "closed"]
  OBVIOUS
<1>5. e = [db EXCEPT !.terminal = f, !.attempt = a, !.job = j]
  BY <1>1, <1>2, <1>3, <1>4, AsIs DEF Paid!Finished
<1>6. t \in Terminals
  BY <1>2 DEF Terminals, PhaseIn
<1>7. f \in [Handles -> Terminals] /\ f[h] = t /\ \A k \in Handles \ {h} : f[k] = db.terminal[k]
  BY <1>0, <1>3, <1>6 DEF Tables
<1>8. a \in [Handles -> Attempts] /\ a[h] = "closed" /\ \A k \in Handles \ {h} : a[k] = db.attempt[k]
  BY <1>0, <1>4 DEF Tables, Attempts
<1>9. /\ j \in [Handles -> Jobs] /\ \A k \in Handles \ {h} : j[k] = db.job[k]
      /\ j[h].state = "complete" /\ j[h].by = db.job[h].by /\ j[h].epoch = db.job[h].epoch
  BY <1>1, Completed
<1>10. /\ e \in Tables /\ e.epoch = db.epoch /\ e.terminal = f /\ e.attempt = a /\ e.job = j
       /\ e.fence = db.fence /\ e.receipt = db.receipt /\ e.identity = db.identity
       /\ e.result = db.result
  BY <1>0, <1>5, <1>7, <1>8, <1>9 DEF Tables
<1> QED BY <1>2, <1>7, <1>8, <1>9, <1>10 DEF Same

-----------------------------------------------------------------------------
(* What the actions are made of.                                            *)

\* Where nothing else moves, a run that moves keeps everything but its own facts.
LEMMA RunMoves ==
    ASSUME PaidInv, NEW r \in Runs, NEW q \in RunRecords, run' = [run EXCEPT ![r] = q],
           UNCHANGED <<db, generating, today, live, lock, indoubt, tx, calls, spent>>,
           RunFacts(r, q), q.pc # "idle",
           run[r].pc # "idle" => q.h = run[r].h /\ q.epoch = run[r].epoch /\ q.owned = run[r].owned,
           (tx # NoTx /\ tx.r = r) =>
               /\ tx.kind = "cleanup" => q.pc # "claim"
               /\ tx.kind # "cleanup" => q.pc = run[r].pc /\ q.broken = run[r].broken /\ (q.broken \/ q.cleanup # "done")
    PROVE  PaidInv'
<1>1. run \in [Runs -> RunRecords] /\ run' \in [Runs -> RunRecords]
      /\ run'[r] = q /\ \A x \in Runs \ {r} : run'[x] = run[x]
  BY DEF PaidInv, PaidTypeOK
<1>2. PaidTypeOK'
  BY <1>1 DEF PaidInv, PaidTypeOK
<1>3. \A d : Claimed(d) => Claimed(d)'
  <2> SUFFICES ASSUME NEW d, Claimed(d) PROVE Claimed(d)'
    OBVIOUS
  <2> QED BY <1>1 DEF Claimed
<1>4. \A x \in Runs : \A y : RunFacts(x, y)' <=> RunFacts(x, y)
  BY DEF RunFacts, Stands, Current, OwnerOK, CallReady, ReplyOK, LegOK, DoneOK
<1>5. \A x \in Runs : RunOK(x)'
  BY <1>1, <1>4 DEF PaidInv, RunOK
<1>6. ASSUME tx # NoTx PROVE TxOK'
  <2>0. tx \in Transactions /\ tx.r \in Runs
    BY <1>6 DEF PaidInv, PaidTypeOK, Transactions
  <2>a. PICK x \in Runs, a \in Tables, k \in RunRecords, w \in {"guarded", "plain", "cleanup"} :
           x = tx.r /\ a = tx.after /\ k = tx.ack /\ w = tx.kind
    BY <2>0 DEF Transactions
  <2>1. Begun(x, a, k, w)
    BY <1>6, <2>a DEF PaidInv, TxOK
  <2>2. /\ run'[x].h = run[x].h /\ run'[x].epoch = run[x].epoch
        /\ run'[x].owned = run[x].owned /\ run'[x].pc # "idle"
        /\ w = "cleanup" => run'[x].pc # "claim"
        /\ w # "cleanup" => /\ run'[x].pc = run[x].pc /\ run'[x].broken = run[x].broken
                            /\ run'[x].broken \/ run'[x].cleanup # "done"
    BY <1>1, <1>6, <2>a, <2>1 DEF Begun
  <2>3. Claimed(a)'
    BY <1>3, <2>1 DEF Begun
  <2>4. UNCHANGED <<db, live, calls>>
    OBVIOUS
  <2>5. Begun(x, a, k, w)'
    BY <2>1, <2>2, <2>3, <2>4 DEF Begun, OwnerOK, CallReady, LegOK, ReplyOK, TablesOK, EvidenceOK, OutcomeOK,
                                  Successor, Same, Kept
  <2> QED BY <2>a, <2>5 DEF TxOK
<1>7. ASSUME indoubt # NoTx PROVE DoubtOK'
  BY <1>3, <1>7 DEF PaidInv, DoubtOK
<1>8. TablesOK(db)' /\ Claimed(db)' /\ (live # 0 => live = db.epoch /\ lock)' /\ Paid!OneCallPerLeg'
  BY <1>3 DEF PaidInv, TablesOK, EvidenceOK, OutcomeOK, Paid!OneCallPerLeg
<1> QED BY <1>2, <1>5, <1>6, <1>7, <1>8 DEF PaidInv

\* A transaction begins.
LEMMA Begins ==
    ASSUME PaidInv, NEW r \in Runs, NEW after \in Tables, NEW ack \in RunRecords,
           NEW kind \in {"guarded", "plain", "cleanup"}, Paid!Begin(r, after, ack, kind),
           Begun(r, after, ack, kind)
    PROVE  PaidInv'
<1>1. UNCHANGED <<db, generating, today, live, lock, indoubt, run, calls, spent>>
  BY DEF Paid!Begin, Paid!outside, Paid!process
<1>2. tx' = [r |-> r, after |-> after, ack |-> ack, kind |-> kind, sent |-> FALSE]
  BY DEF Paid!Begin
<1>3. tx' \in Transactions /\ tx'.r = r /\ tx'.after = after /\ tx'.ack = ack /\ tx'.kind = kind
  BY <1>2 DEF Transactions
<1>4. PaidTypeOK'
  BY <1>1, <1>3 DEF PaidInv, PaidTypeOK
<1>5. Begun(r, after, ack, kind)'
  BY <1>1 DEF Begun, Successor, Kept, Same, TablesOK, EvidenceOK, OutcomeOK, Claimed, OwnerOK, CallReady, LegOK, ReplyOK
<1>6. TxOK'
  BY <1>3, <1>5 DEF TxOK, Begun, OwnerOK, CallReady, LegOK, ReplyOK
<1>7. (TablesOK(db) /\ Claimed(db) /\ (live # 0 => live = db.epoch /\ lock) /\ Paid!OneCallPerLeg /\ \A x \in Runs : RunOK(x))'
  BY <1>1 DEF PaidInv, TablesOK, EvidenceOK, OutcomeOK, Claimed, Paid!OneCallPerLeg, RunOK, RunFacts, Stands, Current,
              OwnerOK, CallReady, ReplyOK, LegOK, DoneOK
<1>8. (indoubt # NoTx => DoubtOK)'
  BY <1>1 DEF PaidInv, DoubtOK, TablesOK, EvidenceOK, OutcomeOK, Claimed, Kept
<1> QED BY <1>4, <1>6, <1>7, <1>8 DEF PaidInv

-----------------------------------------------------------------------------
(* The steps of a run outside its transactions.                             *)

\* A run that gives up, or waits for its catch, expects no more than it did.
LEMMA Remains ==
    ASSUME PaidInv, NEW r \in Runs, NEW q \in RunRecords, run[r].pc # "idle",
           \/ q.pc \in {"throw", "end"}
           \/ q.pc \in {"caught", "catch"} /\ run[r].pc \in AtWork
           \/ q.pc = run[r].pc /\ run[r].pc # "claim"
           \/ q.pc = run[r].pc /\ ~q.broken /\ q.cleanup # "done",
           q.h = run[r].h, q.epoch = run[r].epoch, q.leg = run[r].leg, q.owned = run[r].owned,
           q.reply = run[r].reply \/ q.reply \in {"none", "error"} \/ ReplyOK(db, q)
    PROVE  Stands(db, r, q)
<1>1. RunOK(r)
  BY DEF PaidInv
<1>2. q.pc # "idle" /\ q.h \in Handles /\ q.epoch \in 1..db.epoch
  BY <1>1 DEF RunOK, RunFacts, Stands
<1>3. (q.pc = "claim" => ~q.broken /\ q.cleanup # "done") /\ (q.pc \in AtWork => q.owned)
  BY <1>1 DEF RunOK, RunFacts, Stands, AtWork
<1>4. OwnerOK(db, q, r) /\ CallReady(db, q)
  BY <1>1 DEF RunOK, RunFacts, Stands, OwnerOK, CallReady
<1>5. ReplyOK(db, q)
  BY <1>1 DEF RunOK, RunFacts, Stands, ReplyOK, Kinds
<1> QED BY <1>2, <1>3, <1>4, <1>5 DEF Stands

LEMMA Rests ==
    ASSUME PaidInv, NEW r \in Runs, NEW q \in RunRecords, run[r].pc # "idle",
           \/ q.pc \in {"throw", "end"}
           \/ q.pc \in {"caught", "catch"} /\ run[r].pc \in AtWork
           \/ q.pc = run[r].pc /\ run[r].pc # "claim"
           \/ q.pc = run[r].pc /\ ~q.broken /\ q.cleanup # "done",
           q.h = run[r].h, q.epoch = run[r].epoch, q.leg = run[r].leg, q.result = run[r].result,
           q.owned = run[r].owned,
           q.epoch = live => DoneOK(db, q),
           q.reply = run[r].reply \/ q.reply \in {"none", "error"} \/ ReplyOK(db, q)
    PROVE  RunFacts(r, q)
<1>1. RunOK(r)
  BY DEF PaidInv
<1>2. q.epoch = live => LegOK(db, q) /\ (db.job[q.h].by = r => q.owned)
  BY <1>1 DEF RunOK, RunFacts, Stands, Current, LegOK, AtWork
<1> QED BY <1>2, Remains DEF RunFacts, Current

\* A transaction of a run that is under way keeps the run where it is.
LEMMA Held ==
    ASSUME PaidInv, NEW r \in Runs, tx # NoTx, tx.r = r
    PROVE  /\ run[r].pc # "idle" /\ run[r].epoch = live
           /\ tx.kind # "cleanup" =>
                 /\ run[r].pc \in {"claim", "fence", "receipt", "identity", "accept", "abstain", "catch"}
                 /\ run[r].broken \/ run[r].cleanup # "done"
           /\ tx.kind = "cleanup" => run[r].pc # "claim" /\ run[r].owned
BY DEF PaidInv, TxOK, Begun

LEMMA Answers ==
    ASSUME PaidInv, NEW r \in Runs, Paid!Answer(r)
    PROVE  PaidInv'
<1>1. PICK q : q = IF db.proof[run[r].h] THEN [run[r] EXCEPT !.pc = "end", !.reply = "accepted"]
                   ELSE [run[r] EXCEPT !.pc = "caught"]
  OBVIOUS
<1>2. run' = [run EXCEPT ![r] = q] /\ tx = NoTx /\ run[r].pc = "final"
      /\ UNCHANGED <<db, generating, today, live, lock, indoubt, tx, calls, spent>>
  BY <1>1 DEF Paid!Answer, Paid!Set, Paid!Local, Paid!outside, Paid!process, Paid!At
<1>3. run[r] \in RunRecords /\ RunOK(r)
  BY DEF PaidInv, PaidTypeOK
<1>a. "caught" \in AtWork /\ "end" \notin AtWork
  BY DEF AtWork
<1>4. /\ q \in RunRecords /\ q.pc \in {"end", "caught"} /\ q.h = run[r].h /\ q.epoch = run[r].epoch
      /\ q.leg = run[r].leg /\ q.result = run[r].result /\ q.owned = run[r].owned /\ q.cleanup = run[r].cleanup /\ q.broken = run[r].broken
      /\ q.reply \in {run[r].reply, "accepted"}
  <2>1. CASE db.proof[run[r].h]
    <3>1. q = [run[r] EXCEPT !.pc = "end", !.reply = "accepted"]
      BY <1>1, <2>1
    <3> QED BY <1>3, <3>1 DEF RunRecords
  <2>2. CASE ~db.proof[run[r].h]
    <3>1. q = [run[r] EXCEPT !.pc = "caught"]
      BY <1>1, <2>2
    <3> QED BY <1>3, <1>a, <3>1 DEF RunRecords
  <2> QED BY <2>1, <2>2
<1>5. db.result[q.h]
  BY <1>2, <1>3, <1>4 DEF RunOK, RunFacts, Stands, Current, ReplyOK
<1>6. RunFacts(r, q)
  <2>1. q.epoch = live => DoneOK(db, q)
    BY <1>2, <1>3, <1>4 DEF RunOK, RunFacts, Stands, Current, DoneOK
  <2>2. q.reply = run[r].reply \/ ReplyOK(db, q)
    BY <1>4, <1>5 DEF ReplyOK, Kinds
  <2> QED BY <1>2, <1>4, <2>1, <2>2, Rests DEF AtWork
<1> QED BY <1>2, <1>4, <1>6, RunMoves

\* The steps that only make a run give up.
LEMMA GivesUp ==
    ASSUME PaidInv, NEW r \in Runs, NEW q \in RunRecords, run' = [run EXCEPT ![r] = q],
           UNCHANGED <<db, generating, today, live, lock, indoubt, tx, calls, spent>>,
           run[r].pc # "idle", tx # NoTx => tx.r # r \/ run[r].pc \notin {"claim", "fence", "receipt", "identity", "accept", "abstain", "catch"},
           \/ q.pc \in {"throw", "end"}
           \/ q.pc \in {"caught", "catch"} /\ run[r].pc \in AtWork,
           q.h = run[r].h, q.epoch = run[r].epoch, q.leg = run[r].leg, q.result = run[r].result,
           q.owned = run[r].owned, q.cleanup = run[r].cleanup, run[r].broken => q.broken,
           q.reply = run[r].reply \/ q.reply \in {"none", "error"} \/ ReplyOK(db, q)
    PROVE  PaidInv'
<1>1. q.epoch = live => DoneOK(db, q)
  BY DEF PaidInv, RunOK, RunFacts, Stands, Current, DoneOK
<1>2. RunFacts(r, q)
  BY <1>1, Rests
<1> QED BY <1>2, Held, RunMoves

LEMMA Stopping ==
    ASSUME PaidInv, NEW r \in Runs, Paid!Stops(r)
    PROVE  PaidInv'
<1>0. run[r] \in RunRecords
  BY DEF PaidInv, PaidTypeOK
<1>1. PICK b \in BOOLEAN : b = (~run[r].expired /\ run[r].pc \in {"receipt", "identity", "accept", "abstain"})
  OBVIOUS
<1>2. PICK c \in BOOLEAN : c = (run[r].broken \/ b)
  OBVIOUS
<1>3. PICK p : p = IF run[r].pc \in {"claim", "catch", "final"} THEN "throw" ELSE "caught"
  OBVIOUS
<1>4. PICK q : q = [run[r] EXCEPT !.pc = p, !.broken = c]
  OBVIOUS
<1>5. run' = [run EXCEPT ![r] = q] /\ (tx # NoTx => tx.r # r)
      /\ run[r].pc \in {"claim", "fence", "call", "receipt", "identity", "accept", "abstain", "final", "catch"}
      /\ UNCHANGED <<db, generating, today, live, lock, indoubt, tx, calls, spent>>
  BY <1>1, <1>2, <1>3, <1>4, Zenon
  DEF Paid!Stops, Paid!Throws, Paid!Set, Paid!Local, Paid!outside, Paid!process
<1>a. p \in AtWork \cup {"throw"}
  BY <1>3 DEF AtWork
<1>6. /\ q \in RunRecords /\ q.pc = p /\ q.h = run[r].h /\ q.epoch = run[r].epoch
      /\ q.leg = run[r].leg /\ q.result = run[r].result /\ q.owned = run[r].owned /\ q.cleanup = run[r].cleanup /\ q.broken = c
      /\ q.reply = run[r].reply
  BY <1>0, <1>a, <1>4 DEF RunRecords
<1>7. q.pc = "throw" \/ (q.pc = "caught" /\ run[r].pc \in AtWork)
  BY <1>3, <1>5, <1>6 DEF AtWork
<1> QED BY <1>2, <1>5, <1>6, <1>7, GivesUp

LEMMA Catches ==
    ASSUME PaidInv, NEW r \in Runs, Paid!Catch(r)
    PROVE  PaidInv'
<1>0. run[r] \in RunRecords
  BY DEF PaidInv, PaidTypeOK
<1>1. PICK p \in {"throw", "catch"} : run' = [run EXCEPT ![r] = [run[r] EXCEPT !.pc = p]]
  BY DEF Paid!Catch, Paid!Set
<1>2. run[r].pc = "caught" /\ UNCHANGED <<db, generating, today, live, lock, indoubt, tx, calls, spent>>
  BY DEF Paid!Catch, Paid!At, Paid!Local, Paid!outside, Paid!process
<1>3. PICK q : q = [run[r] EXCEPT !.pc = p]
  OBVIOUS
<1>4. /\ q \in RunRecords /\ q.pc = p /\ q.h = run[r].h /\ q.epoch = run[r].epoch
      /\ q.leg = run[r].leg /\ q.result = run[r].result /\ q.owned = run[r].owned /\ q.cleanup = run[r].cleanup /\ q.broken = run[r].broken
      /\ q.reply = run[r].reply
  BY <1>0, <1>1, <1>3 DEF RunRecords, AtWork
<1>5. run' = [run EXCEPT ![r] = q]
  BY <1>1, <1>3
<1>6. q.pc = "throw" \/ (q.pc = "catch" /\ run[r].pc \in AtWork)
  BY <1>2, <1>4 DEF AtWork
<1> QED BY <1>2, <1>4, <1>5, <1>6, GivesUp

LEMMA RejectsAtEnd ==
    ASSUME PaidInv, NEW r \in Runs, Paid!Rejects(r)
    PROVE  PaidInv'
<1>0. run[r] \in RunRecords
  BY DEF PaidInv, PaidTypeOK
<1>1. PICK a : a = IF run[r].reply = "none" /\ ~run[r].expired THEN "error" ELSE run[r].reply
  OBVIOUS
<1>2. PICK q : q = [run[r] EXCEPT !.pc = "end", !.reply = a]
  OBVIOUS
<1>3. run[r].pc = "throw" /\ run' = [run EXCEPT ![r] = q]
      /\ UNCHANGED <<db, generating, today, live, lock, indoubt, tx, calls, spent>>
  BY <1>1, <1>2 DEF Paid!Rejects, Paid!At, Paid!Set, Paid!Local, Paid!outside, Paid!process
<1>4. a \in {"error", run[r].reply}
  BY <1>1
<1>5. /\ q \in RunRecords /\ q.pc = "end" /\ q.h = run[r].h /\ q.epoch = run[r].epoch
      /\ q.leg = run[r].leg /\ q.result = run[r].result /\ q.owned = run[r].owned /\ q.cleanup = run[r].cleanup /\ q.broken = run[r].broken
      /\ q.reply = a
  BY <1>0, <1>2, <1>4 DEF RunRecords, AtWork
<1> QED BY <1>3, <1>4, <1>5, GivesUp

\* The deadline leaves a run where it is, and lets the cleanup begin.
LEMMA Expires ==
    ASSUME PaidInv, NEW r \in Runs, Paid!Expire(r)
    PROVE  PaidInv'
<1>0. run[r] \in RunRecords /\ RunOK(r)
  BY DEF PaidInv, PaidTypeOK
<1>1. PICK c : c = IF run[r].broken THEN "done" ELSE "wait"
  OBVIOUS
<1>2. PICK a : a = IF run[r].broken THEN "error" ELSE "none"
  OBVIOUS
<1>3. PICK q : q = [run[r] EXCEPT !.expired = TRUE, !.cleanup = c, !.reply = a]
  OBVIOUS
<1>4. run[r].pc # "idle" /\ run' = [run EXCEPT ![r] = q]
      /\ UNCHANGED <<db, generating, today, live, lock, indoubt, tx, calls, spent>>
  BY <1>1, <1>2, <1>3 DEF Paid!Expire, Paid!InProgress, Paid!Set, Paid!Local, Paid!outside, Paid!process
<1>5. /\ q \in RunRecords /\ q.pc = run[r].pc /\ q.h = run[r].h /\ q.epoch = run[r].epoch
      /\ q.leg = run[r].leg /\ q.result = run[r].result /\ q.owned = run[r].owned /\ q.cleanup = c /\ q.broken = run[r].broken
      /\ q.reply \in {"none", "error"}
  <2>1. c \in {"done", "wait"} /\ a \in {"error", "none"}
    BY <1>1, <1>2
  <2> QED BY <1>0, <1>3, <2>1 DEF RunRecords
<1>6. q.broken \/ q.cleanup # "done"
  BY <1>1, <1>5
<1>7. RunFacts(r, q)
  <2>1. DoneOK(db, q)
    BY <1>6 DEF DoneOK
  <2>2. run[r].pc = "claim" => ~q.broken
    BY <1>0, <1>5 DEF RunOK, RunFacts, Stands, Current
  <2> QED BY <1>4, <1>5, <1>6, <2>1, <2>2, Rests
<1>8. tx # NoTx /\ tx.r = r => (tx.kind = "cleanup" => q.pc # "claim")
  BY <1>5, Held
<1> QED BY <1>4, <1>5, <1>6, <1>7, <1>8, RunMoves

-----------------------------------------------------------------------------
(* What becomes of the tables, and of what a run expects of them.           *)

LEMMA StandsOn ==
    ASSUME NEW d, NEW e, NEW r \in Runs, NEW q \in RunRecords, Stands(d, r, q),
           d.epoch \in Nat, e.epoch \in Nat, d.epoch <= e.epoch, \A k \in Handles : Kept(d, e, k),
           d.terminal \in [Handles -> Terminals]
    PROVE  Stands(e, r, q)
<1>1. CASE q.pc = "idle"
  BY <1>1 DEF Stands, Paid!Idle, OwnerOK, CallReady, ReplyOK, Kinds, AtWork
<1>2. CASE q.pc # "idle"
  <2>1. q.h \in Handles /\ q.epoch \in 1..e.epoch /\ Kept(d, e, q.h)
    BY <1>2 DEF Stands
  <2>2. OwnerOK(e, q, r) /\ CallReady(e, q)
    BY <2>1 DEF Stands, OwnerOK, CallReady, Kept
  <2>3. ReplyOK(e, q)
    BY <2>1 DEF Stands, ReplyOK, Kept, Kinds
  <2> QED BY <1>2, <2>1, <2>2, <2>3 DEF Stands
<1> QED BY <1>1, <1>2

\* The transaction that was under way ends without its COMMIT, or leaves it in doubt.
LEMMA LetGo ==
    ASSUME PaidInv, UNCHANGED <<db, today, lock, calls, spent>>, tx' = NoTx, live' \in {live, 0},
           run' \in [Runs -> RunRecords], \A r \in Runs : RunOK(r)',
           \A r \in Runs : run'[r].h = run[r].h /\ (run[r].pc # "idle" => run'[r].pc # "idle"),
           indoubt' # NoTx => /\ live' = 0 /\ lock /\ indoubt' \in Tables /\ TablesOK(indoubt')
                              /\ \A h \in Handles, r \in Runs : indoubt'.job[h].by = r => run[r].h = h /\ run[r].pc # "idle"
                              /\ indoubt'.epoch = db.epoch /\ \A h \in Handles : Kept(db, indoubt', h)
    PROVE  PaidInv'
<1>1. PaidTypeOK'
  BY DEF PaidInv, PaidTypeOK
<1>2. Claimed(db)'
  BY DEF PaidInv, Claimed
<1>3. indoubt' # NoTx => DoubtOK'
  BY DEF DoubtOK, Claimed, TablesOK, EvidenceOK, OutcomeOK, Kept
<1>4. TablesOK(db)' /\ (live # 0 => live = db.epoch /\ lock)' /\ Paid!OneCallPerLeg'
  BY DEF PaidInv, TablesOK, EvidenceOK, OutcomeOK, Paid!OneCallPerLeg
<1> QED BY <1>1, <1>2, <1>3, <1>4 DEF PaidInv

\* What a transaction about the handle of a run has to show.
LEMMA Prepared ==
    ASSUME PaidInv, NEW r \in Runs, NEW h \in Handles, run[r].h = h, run[r].pc # "idle",
           NEW e \in Tables, e.epoch = db.epoch, \A k \in Handles \ {h} : Same(db, e, k),
           EvidenceOK(e, h), OutcomeOK(e, h), Kept(db, e, h), e.job[h].by \in {db.job[h].by, r}
    PROVE  Successor(db, e, h) /\ TablesOK(e) /\ Claimed(e)
<1>1. PaidTypeOK /\ TablesOK(db) /\ Claimed(db)
  BY DEF PaidInv
<1>2. Successor(db, e, h)
  BY <1>1, OneHandle
<1>3. TablesOK(e)
  <2>1. \A k \in Handles \ {h} : EvidenceOK(e, k) /\ OutcomeOK(e, k)
    BY <1>1, SameOK DEF TablesOK
  <2> QED BY <2>1 DEF TablesOK
<1>4. Claimed(e)
  BY <1>1 DEF Claimed, Same
<1> QED BY <1>2, <1>3, <1>4

-----------------------------------------------------------------------------
(* The steps of a run that begin a transaction.                             *)

LEMMA Starts ==
    ASSUME PaidInv, NEW r \in Runs, NEW h \in Handles, Paid!Start(r, h)
    PROVE  PaidInv'
<1>0. db \in Tables /\ live \in Nat /\ live # 0 /\ live = db.epoch /\ run[r].pc = "idle"
  BY DEF PaidInv, PaidTypeOK, Paid!Start, Paid!At
<1>1. PICK q : q = [Paid!Idle EXCEPT !.pc = "claim", !.epoch = live, !.h = h]
  OBVIOUS
<1>2. run' = [run EXCEPT ![r] = q]
      /\ UNCHANGED <<db, generating, today, live, lock, indoubt, tx, calls, spent>>
  BY <1>1 DEF Paid!Start, Paid!Set, Paid!Local, Paid!outside, Paid!process
<1>3. /\ q \in RunRecords /\ q.pc = "claim" /\ q.epoch = live /\ q.h = h /\ ~q.owned /\ ~q.broken
      /\ q.cleanup = "no" /\ q.reply = "none"
  <2>0. Paid!Idle \in RunRecords
    BY DEF Paid!Idle, RunRecords, Paid!Unknown
  <2>1. PICK i \in RunRecords : i = Paid!Idle
    BY <2>0
  <2>2. ~i.owned /\ ~i.broken /\ i.cleanup = "no" /\ i.reply = "none"
    BY <2>1 DEF Paid!Idle
  <2>3. q = [i EXCEPT !.pc = "claim", !.epoch = live, !.h = h]
    BY <1>1, <2>1
  <2> QED BY <1>0, <2>2, <2>3 DEF RunRecords
<1>4. db.job[h].by # r
  BY <1>0 DEF PaidInv, Claimed
<1>5. RunFacts(r, q)
  BY <1>0, <1>3, <1>4 DEF RunFacts, Stands, Current, OwnerOK, CallReady, ReplyOK, LegOK, DoneOK, AtWork, Kinds
<1>6. tx # NoTx => tx.r # r
  BY <1>0, Held
<1> QED BY <1>0, <1>2, <1>3, <1>5, <1>6, RunMoves

LEMMA Claims ==
    ASSUME PaidInv, NEW r \in Runs, Paid!Claim(r)
    PROVE  PaidInv'
<1> DEFINE h == run[r].h
           e == run[r].epoch
<1>0. /\ run[r] \in RunRecords /\ RunOK(r) /\ db \in Tables /\ run[r].pc = "claim" /\ e = live /\ tx = NoTx
      /\ TablesOK(db) /\ Claimed(db) /\ PaidTypeOK
  BY DEF PaidInv, PaidTypeOK, Paid!Claim, Paid!At, Paid!Stopped
<1>1. h \in Handles /\ e \in Nat /\ live # 0 /\ ~run[r].broken /\ run[r].cleanup # "done"
  BY <1>0 DEF RunOK, RunFacts, Stands, Tables
<1>2. CASE /\ db.proof[h] /\ db.result[h]
           /\ Paid!Set(r, [run[r] EXCEPT !.pc = "end", !.answer = "accepted",
                                         !.reply = IF @ = "none" THEN "accepted" ELSE @])
           /\ Paid!Local
  <2>1. PICK a : a = IF run[r].reply = "none" THEN "accepted" ELSE run[r].reply
    OBVIOUS
  <2>2. PICK q : q = [run[r] EXCEPT !.pc = "end", !.answer = "accepted", !.reply = a]
    OBVIOUS
  <2>3. run' = [run EXCEPT ![r] = q]
        /\ UNCHANGED <<db, generating, today, live, lock, indoubt, tx, calls, spent>>
    BY <1>2, <2>1, <2>2 DEF Paid!Set, Paid!Local, Paid!outside, Paid!process
  <2>4. a \in {"accepted", run[r].reply}
    BY <2>1
  <2>5. /\ q \in RunRecords /\ q.pc = "end" /\ q.h = run[r].h /\ q.epoch = run[r].epoch
        /\ q.leg = run[r].leg /\ q.result = run[r].result /\ q.owned = run[r].owned
        /\ q.cleanup = run[r].cleanup /\ q.broken = run[r].broken /\ q.reply = a
    BY <1>0, <2>2, <2>4 DEF RunRecords
  <2>6. q.reply = run[r].reply \/ ReplyOK(db, q)
    BY <1>2, <2>4, <2>5 DEF ReplyOK, Kinds
  <2> QED BY <1>0, <2>3, <2>5, <2>6, GivesUp
<1>3. CASE /\ Paid!Claimable(h)
           /\ Paid!Begin(r, [db EXCEPT !.job[h] = [state |-> "running", epoch |-> e, by |-> r]],
                         [run[r] EXCEPT !.pc = "fence", !.leg = "x", !.owned = TRUE], "guarded")
  <2>1. PICK d : d = [db EXCEPT !.job[h] = [state |-> "running", epoch |-> e, by |-> r]]
    OBVIOUS
  <2>2. PICK q : q = [run[r] EXCEPT !.pc = "fence", !.leg = "x", !.owned = TRUE]
    OBVIOUS
  <2>3. /\ q \in RunRecords /\ q.pc = "fence" /\ q.h = h /\ q.epoch = e /\ q.leg = "x" /\ q.owned
        /\ q.broken = run[r].broken /\ q.reply = run[r].reply
    BY <1>0, <2>2 DEF RunRecords, AtWork, Paid!Legs
  <2>4. /\ d \in Tables /\ d.epoch = db.epoch /\ \A k \in Handles \ {h} : Same(db, d, k)
        /\ d.job[h] = [state |-> "running", epoch |-> e, by |-> r]
        /\ d.attempt = db.attempt /\ d.fence = db.fence /\ d.receipt = db.receipt
        /\ d.identity = db.identity /\ d.result = db.result /\ d.terminal = db.terminal
    <3>1. PICK c \in Jobs : c = [state |-> "running", epoch |-> e, by |-> r]
      BY <1>1 DEF Jobs
    <3>2. PICK k \in Handles : k = h
      BY <1>1
    <3>3. d = Claiming(k, c)
      BY <2>1, <3>1, <3>2 DEF Claiming
    <3>4. /\ d \in Tables /\ d.epoch = db.epoch /\ \A x \in Handles \ {k} : Same(db, d, x)
          /\ d.job[k] = c
          /\ d.attempt = db.attempt /\ d.fence = db.fence /\ d.receipt = db.receipt
          /\ d.identity = db.identity /\ d.result = db.result /\ d.terminal = db.terminal
      BY <1>0, <3>3, ClaimRows
    <3> QED BY <3>1, <3>2, <3>4
  <2>5. /\ db.attempt[h] = "pending" /\ db.job[h].state = "queued"
        /\ db.fence[h]["x"] = 0 /\ db.fence[h]["grok"] = 0
    BY <1>3 DEF Paid!Claimable, Paid!Phase
  <2>6. EvidenceOK(db, h) /\ OutcomeOK(db, h)
    BY <1>0, <1>1 DEF TablesOK
  <2>7. EvidenceOK(d, h) /\ OutcomeOK(d, h) /\ Kept(db, d, h) /\ d.job[h].by = r
    BY <2>4, <2>5, <2>6 DEF EvidenceOK, OutcomeOK, Kept, Succeeded, PhaseIn
  <2>8. Successor(db, d, h) /\ TablesOK(d) /\ Claimed(d)
    BY <1>0, <1>1, <2>4, <2>7, Prepared
  <2>9. OwnerOK(d, q, r) /\ CallReady(d, q) /\ LegOK(d, q) /\ ReplyOK(d, q)
    <3>1. ~db.identity[h]
      BY <2>5, <2>6 DEF EvidenceOK, Paid!Legs
    <3>2. LegOK(d, q)
      BY <2>3, <2>4, <2>5, <3>1 DEF LegOK, Paid!Legs
    <3>3. ReplyOK(d, q)
      BY <1>0, <2>3, <2>4 DEF RunOK, RunFacts, Stands, ReplyOK
    <3> QED BY <2>3, <2>4, <3>2, <3>3 DEF OwnerOK, CallReady
  <2>10. Begun(r, d, q, "guarded")
    BY <1>0, <1>1, <2>3, <2>8, <2>9 DEF Begun
  <2> QED BY <1>3, <2>1, <2>2, <2>3, <2>4, <2>10, Begins
<1>4. CASE Paid!Set(r, [run[r] EXCEPT !.pc = "throw"]) /\ Paid!Local
  <2>1. PICK q : q = [run[r] EXCEPT !.pc = "throw"]
    OBVIOUS
  <2>2. run' = [run EXCEPT ![r] = q]
        /\ UNCHANGED <<db, generating, today, live, lock, indoubt, tx, calls, spent>>
    BY <1>4, <2>1 DEF Paid!Set, Paid!Local, Paid!outside, Paid!process
  <2>3. /\ q \in RunRecords /\ q.pc = "throw" /\ q.h = run[r].h /\ q.epoch = run[r].epoch
        /\ q.leg = run[r].leg /\ q.result = run[r].result /\ q.owned = run[r].owned
        /\ q.cleanup = run[r].cleanup /\ q.broken = run[r].broken /\ q.reply = run[r].reply
    BY <1>0, <2>1 DEF RunRecords
  <2> QED BY <1>0, <2>2, <2>3, GivesUp
<1> QED BY <1>2, <1>3, <1>4, Zenon DEF Paid!Claim

\* A run at work under the writer that claimed its attempt, and what it knows.
LEMMA Engaged ==
    ASSUME PaidInv, NEW r \in Runs, run[r].pc \in AtWork, run[r].epoch = live,
           Paid!RunningUnder(run[r].h, run[r].epoch)
    PROVE  /\ run[r].h \in Handles /\ run[r].leg \in Paid!Legs /\ live \in Nat /\ live # 0
           /\ run[r].owned /\ (run[r].broken \/ run[r].cleanup # "done")
           /\ db.attempt[run[r].h] = "pending" /\ db.job[run[r].h].state = "running"
           /\ db.job[run[r].h].by = r /\ db.job[run[r].h].epoch = run[r].epoch
           /\ db.terminal[run[r].h] = Paid!NoTerminal /\ ~db.result[run[r].h]
           /\ LegOK(db, run[r]) /\ ReplyOK(db, run[r])
           /\ EvidenceOK(db, run[r].h) /\ OutcomeOK(db, run[r].h)
<1>1. RunOK(r) /\ TablesOK(db) /\ db \in Tables
  BY DEF PaidInv, PaidTypeOK
<1>2. run[r].pc # "idle" /\ run[r].pc # "claim"
  BY DEF AtWork
<1>3. /\ run[r].h \in Handles /\ live \in Nat /\ live # 0 /\ run[r].owned
      /\ LegOK(db, run[r]) /\ DoneOK(db, run[r]) /\ ReplyOK(db, run[r]) /\ OwnerOK(db, run[r], r)
  BY <1>1, <1>2 DEF RunOK, RunFacts, Stands, Current, Tables
<1>4. /\ Open(db, run[r].h) /\ db.attempt[run[r].h] = "pending" /\ db.job[run[r].h].state = "running"
  BY DEF Paid!RunningUnder, Open
<1>5. EvidenceOK(db, run[r].h) /\ OutcomeOK(db, run[r].h)
  BY <1>1, <1>3 DEF TablesOK
<1>6. db.terminal[run[r].h] = Paid!NoTerminal /\ ~db.result[run[r].h]
  BY <1>4, <1>5 DEF OutcomeOK
<1>7. run[r].leg \in Paid!Legs
  BY <1>3 DEF LegOK
<1>8. run[r].broken \/ run[r].cleanup # "done"
  BY <1>3, <1>4 DEF DoneOK
<1>9. db.job[run[r].h].by = r /\ db.job[run[r].h].epoch = run[r].epoch
  BY <1>3 DEF OwnerOK
<1> QED BY <1>3, <1>4, <1>5, <1>6, <1>7, <1>8, <1>9

\* A guarded transaction of such a run, about its own handle.
LEMMA Writes ==
    ASSUME PaidInv, NEW r \in Runs, NEW h \in Handles, h = run[r].h,
           run[r].pc \in {"fence", "receipt", "identity", "accept", "abstain", "catch"},
           run[r].epoch = live, Paid!RunningUnder(run[r].h, run[r].epoch),
           NEW d \in Tables, d.epoch = db.epoch, \A k \in Handles \ {h} : Same(db, d, k),
           EvidenceOK(d, h), OutcomeOK(d, h), Kept(db, d, h),
           d.job[h].by = db.job[h].by, d.job[h].epoch = db.job[h].epoch,
           NEW q \in RunRecords, q.pc \notin {"idle", "claim"}, q.h = h, q.epoch = run[r].epoch,
           q.owned = run[r].owned, q.broken = run[r].broken,
           CallReady(d, q), LegOK(d, q), ReplyOK(d, q),
           NEW kind \in {"guarded", "plain"}, Paid!Begin(r, d, q, kind)
    PROVE  PaidInv'
<1>1. run[r].pc \in AtWork /\ run[r].pc # "idle"
  BY DEF AtWork
<1>2. /\ live # 0 /\ run[r].owned /\ (run[r].broken \/ run[r].cleanup # "done")
      /\ db.job[h].by = r /\ db.job[h].epoch = run[r].epoch
  BY <1>1, Engaged
<1>3. Successor(db, d, h) /\ TablesOK(d) /\ Claimed(d)
  BY <1>1, Prepared
<1>4. OwnerOK(d, q, r)
  BY <1>2 DEF OwnerOK
<1>5. Begun(r, d, q, kind)
  BY <1>1, <1>2, <1>3, <1>4 DEF Begun
<1> QED BY <1>5, Begins

LEMMA Dispatches ==
    ASSUME PaidInv, NEW r \in Runs, Paid!BeforeDispatch(r)
    PROVE  PaidInv'
<1>0. /\ run[r] \in RunRecords /\ run[r].pc = "fence" /\ run[r].epoch = live /\ tx = NoTx
      /\ run[r].pc \in AtWork /\ PaidTypeOK /\ Paid!OneCallPerLeg
  BY DEF PaidInv, PaidTypeOK, Paid!BeforeDispatch, Paid!At, Paid!Stopped, AtWork
<1>1. CASE /\ Paid!Dispatchable(run[r].h, run[r].leg, run[r].epoch)
           /\ Paid!Begin(r, [db EXCEPT !.fence[run[r].h][run[r].leg] = run[r].epoch],
                         [run[r] EXCEPT !.pc = "call"], "guarded")
  <2>1. Paid!RunningUnder(run[r].h, run[r].epoch)
    BY <1>1 DEF Paid!Dispatchable
  <2>2. PICK h \in Handles, l \in Paid!Legs : h = run[r].h /\ l = run[r].leg
    BY <1>0, <2>1, Engaged
  <2>3. /\ live \in Nat /\ live # 0 /\ run[r].owned /\ db.attempt[h] = "pending"
        /\ db.job[h].by = r /\ db.job[h].state = "running"
        /\ db.terminal[h] = Paid!NoTerminal /\ ~db.result[h]
        /\ LegOK(db, run[r]) /\ ReplyOK(db, run[r]) /\ EvidenceOK(db, h) /\ OutcomeOK(db, h)
    BY <1>0, <2>1, <2>2, Engaged
  <2>4. PICK d : d = Fencing(h, l, live)
    OBVIOUS
  <2>5. PICK q : q = [run[r] EXCEPT !.pc = "call"]
    OBVIOUS
  <2>6. /\ q \in RunRecords /\ q.pc = "call" /\ q.h = h /\ q.epoch = run[r].epoch /\ q.leg = l
        /\ q.owned = run[r].owned /\ q.broken = run[r].broken /\ q.reply = run[r].reply
    BY <1>0, <2>2, <2>5 DEF RunRecords, AtWork
  <2>7. /\ d \in Tables /\ d.epoch = db.epoch /\ \A k \in Handles \ {h} : Same(db, d, k)
        /\ d.fence[h][l] = live /\ \A m \in Paid!Legs \ {l} : d.fence[h][m] = db.fence[h][m]
        /\ d.attempt = db.attempt /\ d.job = db.job /\ d.receipt = db.receipt
        /\ d.identity = db.identity /\ d.result = db.result /\ d.terminal = db.terminal
    BY <1>0, <2>3, <2>4, FenceRows
  <2>8. db.fence[h][l] = 0 /\ (l = "grok" => Succeeded(db, h, "x"))
    BY <1>1, <2>2 DEF Paid!Dispatchable, Paid!Success, Succeeded
  <2>9. EvidenceOK(d, h)
    BY <2>3, <2>7, <2>8 DEF EvidenceOK, Succeeded, Paid!Legs
  <2>10. OutcomeOK(d, h)
    BY <2>3, <2>7 DEF OutcomeOK, Paid!NoTerminal, Succeeded
  <2>11. Kept(db, d, h)
    BY <2>3, <2>7 DEF Kept, Open
  <2>12. calls[h][l] = 0
    <3>1. calls[h][l] \in Nat
      BY <1>0 DEF PaidTypeOK
    <3>2. calls[h][l] <= 1 /\ (calls[h][l] = 1 => db.fence[h][l] # 0)
      BY <1>0 DEF Paid!OneCallPerLeg
    <3> QED BY <2>8, <3>1, <3>2
  <2>13. CallReady(d, q) /\ LegOK(d, q) /\ ReplyOK(d, q)
    BY <1>0, <2>2, <2>3, <2>6, <2>7, <2>12 DEF CallReady, LegOK, ReplyOK, Paid!Legs
  <2>14. Paid!Begin(r, d, q, "guarded")
    BY <1>0, <1>1, <2>2, <2>4, <2>5 DEF Fencing
  <2> QED BY <1>0, <2>1, <2>2, <2>6, <2>7, <2>9, <2>10, <2>11, <2>13, <2>14, Writes
<1>2. CASE Paid!Set(r, [run[r] EXCEPT !.pc = "caught"]) /\ Paid!Local
  <2>1. PICK q : q = [run[r] EXCEPT !.pc = "caught"]
    OBVIOUS
  <2>2. run' = [run EXCEPT ![r] = q]
        /\ UNCHANGED <<db, generating, today, live, lock, indoubt, tx, calls, spent>>
    BY <1>2, <2>1 DEF Paid!Set, Paid!Local, Paid!outside, Paid!process
  <2>3. /\ q \in RunRecords /\ q.pc = "caught" /\ q.h = run[r].h /\ q.epoch = run[r].epoch
        /\ q.leg = run[r].leg /\ q.result = run[r].result /\ q.owned = run[r].owned
        /\ q.cleanup = run[r].cleanup /\ q.broken = run[r].broken /\ q.reply = run[r].reply
    BY <1>0, <2>1 DEF RunRecords, AtWork
  <2> QED BY <1>0, <2>2, <2>3, GivesUp
<1> QED BY <1>1, <1>2, Zenon DEF Paid!BeforeDispatch

LEMMA Receipt ==
    ASSUME PaidInv, NEW r \in Runs, Paid!RecordReceipt(r)
    PROVE  PaidInv'
<1>0. /\ run[r] \in RunRecords /\ run[r].pc = "receipt" /\ run[r].epoch = live
      /\ run[r].pc \in AtWork /\ PaidTypeOK /\ Paid!RunningUnder(run[r].h, run[r].epoch)
  BY DEF PaidInv, PaidTypeOK, Paid!RecordReceipt, Paid!At, Paid!Stopped, AtWork
<1>1. PICK h \in Handles, l \in Paid!Legs : h = run[r].h /\ l = run[r].leg
  BY <1>0, Engaged
<1>2. /\ live \in Nat /\ live # 0 /\ run[r].owned /\ db.attempt[h] = "pending"
      /\ db.job[h].by = r /\ db.job[h].state = "running"
      /\ db.terminal[h] = Paid!NoTerminal /\ ~db.result[h]
      /\ LegOK(db, run[r]) /\ ReplyOK(db, run[r]) /\ EvidenceOK(db, h) /\ OutcomeOK(db, h)
  BY <1>0, <1>1, Engaged
<1>3. PICK c \in Receipts : c = [ok |-> run[r].result # "refused", cost |-> run[r].cost, present |-> TRUE]
  <2>1. PICK n \in Int : n = run[r].cost
    BY <1>0 DEF RunRecords
  <2>2. PICK b \in BOOLEAN : b = (run[r].result # "refused")
    OBVIOUS
  <2>3. [ok |-> b, cost |-> n, present |-> TRUE] \in Receipts
    BY <2>1, <2>2 DEF Receipts
  <2> QED BY <2>1, <2>2, <2>3
<1>4. PICK p : p = CASE run[r].result \in {"bad", "refused"} -> "caught"
                     [] run[r].result = "abstained" -> "abstain"
                     [] l = "x" -> "identity"
                     [] OTHER -> "accept"
  OBVIOUS
<1>5. PICK d : d = Receiving(h, l, c)
  OBVIOUS
<1>6. PICK q : q = [run[r] EXCEPT !.pc = p]
  OBVIOUS
<1>7. /\ p \in {"caught", "abstain", "identity", "accept"}
      /\ p = "abstain" => run[r].result = "abstained"
      /\ p = "identity" => l = "x"
      /\ p = "accept" => l # "x"
  BY <1>4
<1>8. /\ q \in RunRecords /\ q.pc = p /\ q.h = h /\ q.epoch = run[r].epoch /\ q.leg = l
      /\ q.owned = run[r].owned /\ q.broken = run[r].broken /\ q.reply = run[r].reply
  BY <1>0, <1>1, <1>6, <1>7 DEF RunRecords, AtWork
<1>9. /\ d \in Tables /\ d.epoch = db.epoch /\ \A k \in Handles \ {h} : Same(db, d, k)
      /\ d.receipt[h][l] = c /\ \A m \in Paid!Legs \ {l} : d.receipt[h][m] = db.receipt[h][m]
      /\ d.attempt = db.attempt /\ d.job = db.job /\ d.fence = db.fence
      /\ d.identity = db.identity /\ d.result = db.result /\ d.terminal = db.terminal
  BY <1>0, <1>5, ReceiptRows
<1>10. db.fence[h][l] # 0 /\ (l = "x" => ~db.identity[h])
       /\ (run[r].result = "abstained" => l = "grok")
  BY <1>0, <1>1, <1>2 DEF LegOK
<1>11. EvidenceOK(d, h)
  BY <1>2, <1>9, <1>10 DEF EvidenceOK, Succeeded, Paid!Legs
<1>12. OutcomeOK(d, h)
  BY <1>2, <1>9 DEF OutcomeOK, Paid!NoTerminal, Succeeded
<1>13. Kept(db, d, h)
  BY <1>2, <1>9 DEF Kept, Open
<1>14. CallReady(d, q) /\ LegOK(d, q) /\ ReplyOK(d, q)
  <2>1. LegOK(d, q)
    BY <1>0, <1>1, <1>2, <1>7, <1>8, <1>9, <1>10 DEF LegOK, Paid!Legs
  <2> QED BY <1>2, <1>7, <1>8, <1>9, <2>1, <1>1 DEF CallReady, ReplyOK
<1>15. Paid!Begin(r, d, q, "guarded")
  BY <1>1, <1>3, <1>4, <1>5, <1>6, Zenon DEF Paid!RecordReceipt, Receiving
<1> QED BY <1>0, <1>1, <1>7, <1>8, <1>9, <1>11, <1>12, <1>13, <1>14, <1>15, Writes

LEMMA Identity ==
    ASSUME PaidInv, NEW r \in Runs, Paid!RecordIdentity(r)
    PROVE  PaidInv'
<1>0. /\ run[r] \in RunRecords /\ run[r].pc = "identity" /\ run[r].epoch = live
      /\ run[r].pc \in AtWork /\ PaidTypeOK /\ Paid!RunningUnder(run[r].h, run[r].epoch)
  BY DEF PaidInv, PaidTypeOK, Paid!RecordIdentity, Paid!At, Paid!Stopped, AtWork
<1>1. PICK h \in Handles : h = run[r].h
  BY <1>0, Engaged
<1>2. /\ live \in Nat /\ live # 0 /\ run[r].owned /\ db.attempt[h] = "pending"
      /\ db.job[h].by = r /\ db.job[h].state = "running"
      /\ db.terminal[h] = Paid!NoTerminal /\ ~db.result[h]
      /\ LegOK(db, run[r]) /\ ReplyOK(db, run[r]) /\ EvidenceOK(db, h) /\ OutcomeOK(db, h)
  BY <1>0, <1>1, Engaged
<1>3. Succeeded(db, h, "x")
  BY <1>1 DEF Paid!RecordIdentity, Paid!Success, Succeeded
<1>4. PICK d : d = Identifying(h)
  OBVIOUS
<1>5. PICK q : q = [run[r] EXCEPT !.pc = "fence", !.leg = "grok"]
  OBVIOUS
<1>6. /\ q \in RunRecords /\ q.pc = "fence" /\ q.h = h /\ q.epoch = run[r].epoch /\ q.leg = "grok"
      /\ q.owned = run[r].owned /\ q.broken = run[r].broken /\ q.reply = run[r].reply
  BY <1>0, <1>1, <1>5 DEF RunRecords, AtWork, Paid!Legs
<1>7. /\ d \in Tables /\ d.epoch = db.epoch /\ \A k \in Handles \ {h} : Same(db, d, k)
      /\ d.identity[h] = TRUE
      /\ d.attempt = db.attempt /\ d.job = db.job /\ d.fence = db.fence
      /\ d.receipt = db.receipt /\ d.result = db.result /\ d.terminal = db.terminal
  BY <1>0, <1>4, IdentityRows
<1>8. EvidenceOK(d, h)
  BY <1>2, <1>3, <1>7 DEF EvidenceOK, Succeeded
<1>9. OutcomeOK(d, h)
  BY <1>2, <1>7 DEF OutcomeOK, Paid!NoTerminal, Succeeded
<1>10. Kept(db, d, h)
  BY <1>2, <1>7 DEF Kept, Open
<1>11. CallReady(d, q) /\ LegOK(d, q) /\ ReplyOK(d, q)
  <2>1. LegOK(d, q)
    BY <1>1, <1>6, <1>7 DEF LegOK, Paid!Legs
  <2> QED BY <1>1, <1>2, <1>6, <1>7, <2>1 DEF CallReady, ReplyOK
<1>12. Paid!Begin(r, d, q, "guarded")
  BY <1>1, <1>4, <1>5, Zenon DEF Paid!RecordIdentity, Identifying
<1> QED BY <1>0, <1>1, <1>6, <1>7, <1>8, <1>9, <1>10, <1>11, <1>12, Writes

LEMMA Accepts ==
    ASSUME PaidInv, NEW r \in Runs, Paid!Accept(r)
    PROVE  PaidInv'
<1>0. /\ run[r] \in RunRecords /\ run[r].pc = "accept" /\ run[r].epoch = live
      /\ run[r].pc \in AtWork /\ PaidTypeOK /\ Paid!RunningUnder(run[r].h, run[r].epoch)
  BY DEF PaidInv, PaidTypeOK, Paid!Accept, Paid!At, Paid!Stopped, AtWork
<1>1. PICK h \in Handles : h = run[r].h
  BY <1>0, Engaged
<1>2. /\ live \in Nat /\ live # 0 /\ run[r].owned /\ db.attempt[h] = "pending"
      /\ db.job[h].by = r /\ db.job[h].state = "running"
      /\ db.terminal[h] = Paid!NoTerminal /\ ~db.result[h]
      /\ LegOK(db, run[r]) /\ ReplyOK(db, run[r]) /\ EvidenceOK(db, h) /\ OutcomeOK(db, h)
  BY <1>0, <1>1, Engaged
<1>3. Succeeded(db, h, "grok") /\ db.identity[h]
  BY <1>1 DEF Paid!Accept, Paid!Success, Succeeded
<1>4. PICK d : d = Accepting(h)
  OBVIOUS
<1>5. PICK q : q = [run[r] EXCEPT !.pc = "final", !.answer = "accepted"]
  OBVIOUS
<1>6. /\ q \in RunRecords /\ q.pc = "final" /\ q.h = h /\ q.epoch = run[r].epoch /\ q.leg = run[r].leg
      /\ q.owned = run[r].owned /\ q.broken = run[r].broken /\ q.reply = run[r].reply
  BY <1>0, <1>1, <1>5 DEF RunRecords, AtWork
<1>7. /\ d \in Tables /\ d.epoch = db.epoch /\ \A k \in Handles \ {h} : Same(db, d, k)
      /\ d.result[h] /\ d.attempt[h] = "accepted" /\ d.job[h].state = "complete"
      /\ d.job[h].by = db.job[h].by /\ d.job[h].epoch = db.job[h].epoch
      /\ d.fence = db.fence /\ d.receipt = db.receipt /\ d.identity = db.identity
      /\ d.terminal = db.terminal
  BY <1>0, <1>4, AcceptRows
<1>8. EvidenceOK(d, h)
  BY <1>2, <1>7 DEF EvidenceOK, Succeeded
<1>9. OutcomeOK(d, h)
  BY <1>2, <1>3, <1>7 DEF OutcomeOK, Paid!NoTerminal, Succeeded
<1>10. Kept(db, d, h)
  BY <1>2, <1>7 DEF Kept, Open
<1>11. CallReady(d, q) /\ LegOK(d, q) /\ ReplyOK(d, q)
  <2>1. LegOK(d, q)
    BY <1>0, <1>1, <1>2, <1>6, <1>7 DEF LegOK, Paid!Legs
  <2> QED BY <1>1, <1>2, <1>6, <1>7, <2>1 DEF CallReady, ReplyOK
<1>12. Paid!Begin(r, d, q, "guarded")
  BY <1>1, <1>4, <1>5, Zenon DEF Paid!Accept, Accepting
<1> QED BY <1>0, <1>1, <1>6, <1>7, <1>8, <1>9, <1>10, <1>11, <1>12, Writes

\* The attempt is closed with an outcome that its evidence allows.
LEMMA Closes ==
    ASSUME PaidInv, NEW r \in Runs, run[r].pc \in AtWork, run[r].epoch = live,
           Paid!RunningUnder(run[r].h, run[r].epoch),
           NEW h \in Handles, h = run[r].h, NEW kind \in Kinds,
           kind = "blocked" => PhaseIn(db, h) = "before-dispatch",
           kind = "abstained" => Succeeded(db, h, "grok") /\ db.identity[h],
           kind = "invalid" => PhaseIn(db, h) # "before-dispatch" /\ Succeeded(db, h, PhaseIn(db, h)),
           NEW d, d = Paid!Finished(h, kind, r)
    PROVE  /\ d \in Tables /\ d.epoch = db.epoch /\ \A k \in Handles \ {h} : Same(db, d, k)
           /\ d.fence = db.fence /\ d.identity = db.identity /\ d.terminal[h].kind = kind
           /\ d.attempt[h] = "closed" /\ d.result = db.result
           /\ d.job[h].by = db.job[h].by /\ d.job[h].epoch = db.job[h].epoch
           /\ EvidenceOK(d, h) /\ OutcomeOK(d, h) /\ Kept(db, d, h)
<1>1. /\ db.attempt[h] = "pending" /\ db.job[h].by = r /\ db.job[h].state = "running"
      /\ db.terminal[h] = Paid!NoTerminal /\ ~db.result[h]
      /\ EvidenceOK(db, h) /\ OutcomeOK(db, h)
  BY Engaged
<1>2. /\ d \in Tables /\ d.epoch = db.epoch /\ \A k \in Handles \ {h} : Same(db, d, k)
      /\ d.terminal[h] = [kind |-> kind, phase |-> PhaseIn(db, h), by |-> r]
      /\ d.attempt[h] = "closed" /\ d.job[h].state = "complete"
      /\ d.job[h].by = db.job[h].by /\ d.job[h].epoch = db.job[h].epoch
      /\ d.fence = db.fence /\ d.receipt = db.receipt /\ d.identity = db.identity
      /\ d.result = db.result
  BY FinishedRows, SMTT(30) DEF PaidInv
<1>3. PhaseIn(d, h) = PhaseIn(db, h) /\ \A l : Succeeded(d, h, l) <=> Succeeded(db, h, l)
  BY <1>2 DEF PhaseIn, Succeeded
<1>4. d.terminal[h].kind = kind /\ d.terminal[h].phase = PhaseIn(db, h) /\ d.terminal[h].by = r
  BY <1>2
<1>5. EvidenceOK(d, h)
  BY <1>1, <1>2, <1>3 DEF EvidenceOK
<1>6. OutcomeOK(d, h)
  BY <1>1, <1>2, <1>3, <1>4 DEF OutcomeOK, Kinds
<1>7. Kept(db, d, h)
  BY <1>1, <1>2, <1>4 DEF Kept, Open, Paid!NoTerminal
<1> QED BY <1>2, <1>4, <1>5, <1>6, <1>7

LEMMA Abstains ==
    ASSUME PaidInv, NEW r \in Runs, Paid!Abstain(r)
    PROVE  PaidInv'
<1>0. /\ run[r] \in RunRecords /\ run[r].pc = "abstain" /\ run[r].epoch = live
      /\ run[r].pc \in AtWork /\ PaidTypeOK /\ Paid!RunningUnder(run[r].h, run[r].epoch)
  BY DEF PaidInv, PaidTypeOK, Paid!Abstain, Paid!At, Paid!Stopped, AtWork
<1>1. PICK h \in Handles : h = run[r].h
  BY <1>0, Engaged
<1>2. db.identity[h] /\ Succeeded(db, h, "grok")
  <2>1. LegOK(db, run[r])
    BY <1>0, Engaged
  <2>2. Succeeded(db, h, "grok")
    BY <1>1, AsIs DEF Paid!Abstain, Paid!Evident
  <2> QED BY <1>0, <1>1, <2>1, <2>2 DEF LegOK
<1>3. PICK d : d = Paid!Finished(h, "abstained", r)
  OBVIOUS
<1>4. PICK q : q = [run[r] EXCEPT !.pc = "end", !.answer = "abstained", !.reply = "abstained"]
  OBVIOUS
<1>5. /\ q \in RunRecords /\ q.pc = "end" /\ q.h = h /\ q.epoch = run[r].epoch
      /\ q.owned = run[r].owned /\ q.broken = run[r].broken /\ q.reply = "abstained"
  BY <1>0, <1>1, <1>4 DEF RunRecords, Kinds
<1>6. /\ d \in Tables /\ d.epoch = db.epoch /\ \A k \in Handles \ {h} : Same(db, d, k)
      /\ d.fence = db.fence /\ d.identity = db.identity /\ d.terminal[h].kind = "abstained"
      /\ d.attempt[h] = "closed" /\ d.result = db.result
      /\ d.job[h].by = db.job[h].by /\ d.job[h].epoch = db.job[h].epoch
      /\ EvidenceOK(d, h) /\ OutcomeOK(d, h) /\ Kept(db, d, h)
  BY <1>0, <1>1, <1>2, <1>3, Closes DEF Kinds
<1>7. CallReady(d, q) /\ LegOK(d, q) /\ ReplyOK(d, q)
  BY <1>5, <1>6 DEF CallReady, LegOK, ReplyOK, AtWork, Kinds
<1>8. Paid!Begin(r, d, q, "guarded")
  BY <1>1, <1>3, <1>4, Zenon DEF Paid!Abstain
<1> QED BY <1>0, <1>1, <1>5, <1>6, <1>7, <1>8, Writes

LEMMA Settles ==
    ASSUME PaidInv, NEW r \in Runs, Paid!Settle(r)
    PROVE  PaidInv'
<1>0. /\ run[r] \in RunRecords /\ run[r].pc = "catch" /\ run[r].epoch = live
      /\ run[r].pc \in AtWork /\ PaidTypeOK
  BY DEF PaidInv, PaidTypeOK, Paid!Settle, Paid!At, Paid!Stopped, AtWork
<1>1. CASE Paid!Interruptible(run[r].h, run[r].epoch)
  <2>1. Paid!RunningUnder(run[r].h, run[r].epoch)
    BY <1>1 DEF Paid!Interruptible
  <2>2. PICK h \in Handles : h = run[r].h
    BY <1>0, <2>1, Engaged
  <2>3. LegOK(db, run[r]) /\ EvidenceOK(db, h) /\ run[r].leg \in Paid!Legs
    BY <1>0, <2>1, <2>2, Engaged
  <2>4. PICK kind : kind = IF run[r].result = "bad" /\ Paid!Success(h, run[r].leg) THEN "invalid"
                           ELSE Paid!InterruptKind(h)
    OBVIOUS
  <2>5. PICK mode : mode = IF kind = "invalid" THEN "guarded" ELSE "plain"
    OBVIOUS
  <2>6. PICK d : d = Paid!Finished(h, kind, r)
    OBVIOUS
  <2>7. PICK q : q = [run[r] EXCEPT !.pc = "end", !.answer = kind, !.reply = kind]
    OBVIOUS
  <2>8. Paid!Begin(r, d, q, mode)
    BY <1>1, <2>2, <2>4, <2>5, <2>6, <2>7, Zenon DEF Paid!Settle
  <2>9. /\ kind \in {"blocked", "uncertain", "invalid"}
        /\ kind = "blocked" => PhaseIn(db, h) = "before-dispatch"
        /\ kind = "invalid" => Succeeded(db, h, run[r].leg)
    BY <2>4, AsIs DEF Paid!InterruptKind
  <2>10. kind = "invalid" => PhaseIn(db, h) # "before-dispatch" /\ Succeeded(db, h, PhaseIn(db, h))
    <3>1. ASSUME Succeeded(db, h, run[r].leg)
          PROVE  PhaseIn(db, h) = run[r].leg /\ run[r].leg # "before-dispatch"
      <4>1. db.fence[h][run[r].leg] # 0
        BY <2>3, <3>1 DEF EvidenceOK
      <4> QED BY <1>0, <2>2, <2>3, <4>1 DEF LegOK, PhaseIn, Paid!Legs
    <3> QED BY <2>9, <3>1
  <2>11. kind \in Kinds /\ kind # "abstained" /\ mode \in {"guarded", "plain"}
    BY <2>5, <2>9 DEF Kinds
  <2>12. /\ d \in Tables /\ d.epoch = db.epoch /\ \A k \in Handles \ {h} : Same(db, d, k)
         /\ d.fence = db.fence /\ d.identity = db.identity /\ d.terminal[h].kind = kind
         /\ d.attempt[h] = "closed" /\ d.result = db.result
         /\ d.job[h].by = db.job[h].by /\ d.job[h].epoch = db.job[h].epoch
         /\ EvidenceOK(d, h) /\ OutcomeOK(d, h) /\ Kept(db, d, h)
    BY <1>0, <2>1, <2>2, <2>6, <2>9, <2>10, <2>11, Closes
  <2>13. /\ q \in RunRecords /\ q.pc = "end" /\ q.h = h /\ q.epoch = run[r].epoch
         /\ q.owned = run[r].owned /\ q.broken = run[r].broken /\ q.reply = kind
    BY <1>0, <2>2, <2>7, <2>11 DEF RunRecords
  <2>14. CallReady(d, q) /\ LegOK(d, q) /\ ReplyOK(d, q)
    BY <2>11, <2>12, <2>13 DEF CallReady, LegOK, ReplyOK, AtWork, Kinds
  <2> QED BY <1>0, <2>1, <2>2, <2>8, <2>11, <2>12, <2>13, <2>14, Writes
<1>2. CASE ~Paid!Interruptible(run[r].h, run[r].epoch)
  <2>1. PICK q : q = [run[r] EXCEPT !.pc = "throw"]
    OBVIOUS
  <2>2. tx = NoTx /\ run' = [run EXCEPT ![r] = q]
        /\ UNCHANGED <<db, generating, today, live, lock, indoubt, tx, calls, spent>>
    BY <1>2, <2>1 DEF Paid!Settle, Paid!Set, Paid!Local, Paid!outside, Paid!process
  <2>3. /\ q \in RunRecords /\ q.pc = "throw" /\ q.h = run[r].h /\ q.epoch = run[r].epoch
        /\ q.leg = run[r].leg /\ q.result = run[r].result /\ q.owned = run[r].owned
        /\ q.cleanup = run[r].cleanup /\ q.broken = run[r].broken /\ q.reply = run[r].reply
    BY <1>0, <2>1 DEF RunRecords
  <2> QED BY <1>0, <2>2, <2>3, GivesUp
<1> QED BY <1>1, <1>2

\* The cleanup of a deadline.
LEMMA CleansUp ==
    ASSUME PaidInv, NEW r \in Runs, Paid!Cleanup(r)
    PROVE  PaidInv'
<1>0. /\ run[r] \in RunRecords /\ RunOK(r) /\ run[r].cleanup = "wait" /\ run[r].pc # "claim"
      /\ PaidTypeOK /\ (run[r].owned => tx = NoTx)
  BY DEF PaidInv, PaidTypeOK, Paid!Cleanup, Paid!ClaimSettled, Paid!Owns
<1>1. run[r].pc # "idle"
  BY <1>0 DEF RunOK, RunFacts, Stands, Paid!Idle
<1>2. PICK h \in Handles : h = run[r].h
  BY <1>0, <1>1 DEF RunOK, RunFacts, Stands
<1>3. CASE run[r].epoch = live /\ Paid!Owns(r) /\ Paid!Interruptible(run[r].h, run[r].epoch)
  <2>1. run[r].owned /\ db.attempt[h] = "pending" /\ db.job[h].state = "running" /\ live # 0
        /\ OwnerOK(db, run[r], r)
    BY <1>0, <1>1, <1>2, <1>3
    DEF Paid!Owns, Paid!Interruptible, Paid!RunningUnder, RunOK, RunFacts, Stands, PaidTypeOK, Tables
  <2>2. PICK kind : kind = Paid!InterruptKind(h)
    OBVIOUS
  <2>3. kind \in {"blocked", "uncertain"} /\ (kind = "blocked" => PhaseIn(db, h) = "before-dispatch")
    BY <2>2, AsIs DEF Paid!InterruptKind
  <2>4. PICK d : d = Paid!Finished(h, kind, r)
    OBVIOUS
  <2>5. PICK q : q = [run[r] EXCEPT !.reply = kind]
    OBVIOUS
  <2>6. Paid!Begin(r, d, q, "cleanup")
    BY <1>2, <1>3, <2>2, <2>4, <2>5, Zenon DEF Paid!Cleanup
  <2>7. kind \in Kinds
    BY <2>3 DEF Kinds
  <2>8. /\ q \in RunRecords /\ q.h = h /\ q.epoch = run[r].epoch /\ q.reply = kind
    BY <1>0, <1>2, <2>5, <2>7 DEF RunRecords
  <2>9. /\ d \in Tables /\ d.epoch = db.epoch /\ \A k \in Handles \ {h} : Same(db, d, k)
        /\ d.terminal[h] = [kind |-> kind, phase |-> PhaseIn(db, h), by |-> r]
        /\ d.attempt[h] = "closed" /\ d.job[h].state = "complete"
        /\ d.job[h].by = db.job[h].by /\ d.job[h].epoch = db.job[h].epoch
        /\ d.fence = db.fence /\ d.receipt = db.receipt /\ d.identity = db.identity
        /\ d.result = db.result
    BY <1>0, <2>4, <2>7, FinishedRows
  <2>10. EvidenceOK(db, h) /\ OutcomeOK(db, h) /\ db.job[h].by = r
    BY <1>2, <2>1 DEF PaidInv, TablesOK, OwnerOK
  <2>11. PhaseIn(d, h) = PhaseIn(db, h) /\ \A l : Succeeded(d, h, l) <=> Succeeded(db, h, l)
    BY <2>9 DEF PhaseIn, Succeeded
  <2>12. d.terminal[h].kind = kind /\ d.terminal[h].phase = PhaseIn(db, h) /\ d.terminal[h].by = r
    BY <2>9
  <2>13. EvidenceOK(d, h)
    BY <2>1, <2>9, <2>10, <2>11 DEF EvidenceOK
  <2>14. OutcomeOK(d, h)
    <3>1. ~db.result[h] /\ kind # "none" /\ kind # "abstained" /\ kind # "invalid"
      BY <2>1, <2>3, <2>10 DEF OutcomeOK
    <3> QED BY <2>3, <2>9, <2>10, <2>11, <2>12, <3>1 DEF OutcomeOK
  <2>15. Kept(db, d, h)
    <3>1. db.terminal[h].kind = "none"
      BY <2>1, <2>10 DEF OutcomeOK
    <3> QED BY <2>1, <2>9, <3>1 DEF Kept, Open
  <2>16. Successor(db, d, h) /\ TablesOK(d) /\ Claimed(d)
    BY <1>1, <1>2, <2>9, <2>13, <2>14, <2>15, Prepared
  <2>17. Begun(r, d, q, "cleanup")
    BY <1>0, <1>1, <1>2, <1>3, <2>1, <2>7, <2>8, <2>9, <2>12, <2>16 DEF Begun, Open
  <2> QED BY <2>6, <2>8, <2>9, <2>17, Begins
<1>4. CASE ~(run[r].epoch = live /\ Paid!Owns(r) /\ Paid!Interruptible(run[r].h, run[r].epoch))
  <2>1. PICK a : a = IF run[r].epoch = live /\ run[r].owned /\ db.terminal[run[r].h].kind # "none"
                     THEN db.terminal[run[r].h].kind ELSE "error"
    OBVIOUS
  <2>2. PICK q : q = [run[r] EXCEPT !.cleanup = "done", !.reply = a]
    OBVIOUS
  <2>3. run' = [run EXCEPT ![r] = q]
        /\ UNCHANGED <<db, generating, today, live, lock, indoubt, tx, calls, spent>>
    BY <1>4, <2>1, <2>2 DEF Paid!Cleanup, Paid!Set, Paid!Local, Paid!outside, Paid!process
  <2>4. a = "error" \/ (a \in Kinds /\ a = db.terminal[h].kind)
    BY <1>0, <1>2, <2>1 DEF PaidTypeOK, Tables, Terminals
  <2>5. /\ q \in RunRecords /\ q.pc = run[r].pc /\ q.h = run[r].h /\ q.epoch = run[r].epoch
        /\ q.leg = run[r].leg /\ q.result = run[r].result /\ q.owned = run[r].owned
        /\ q.cleanup = "done" /\ q.broken = run[r].broken /\ q.reply = a
    BY <1>0, <2>2, <2>4 DEF RunRecords
  <2>6. q.epoch = live => DoneOK(db, q)
    <3>1. ASSUME q.epoch = live, q.owned, Open(db, q.h) PROVE FALSE
      <4>1. db.job[run[r].h].epoch = run[r].epoch
        BY <1>0, <2>5, <3>1 DEF RunOK, RunFacts, Stands, OwnerOK
      <4> QED BY <1>4, <2>5, <3>1, <4>1, AsIs DEF Paid!Owns, Paid!Interruptible
    <3> QED BY <3>1 DEF DoneOK
  <2>7. q.reply \in {"none", "error"} \/ ReplyOK(db, q)
    BY <1>0, <1>2, <2>4, <2>5 DEF RunOK, RunFacts, Stands, ReplyOK, Kinds
  <2>8. RunFacts(r, q)
    BY <1>0, <1>1, <2>5, <2>6, <2>7, Rests
  <2>9. ASSUME tx # NoTx, tx.r = r PROVE FALSE
    <3>1. ~run[r].owned
      BY <1>0, <2>9
    <3>2. run[r].pc \in AtWork
      BY <1>0, <2>9, <3>1, Held DEF AtWork
    <3> QED BY <1>0, <3>1, <3>2 DEF RunOK, RunFacts, Stands
  <2> QED BY <1>1, <2>3, <2>5, <2>8, <2>9, RunMoves
<1> QED BY <1>3, <1>4

-----------------------------------------------------------------------------
(* The provider, and the end of a transaction.                              *)

\* Two runs do not own one attempt.
LEMMA OneOwner ==
    ASSUME NEW d, NEW r \in Runs, NEW x \in Runs, NEW p, NEW q, p.owned, q.owned, p.h = q.h,
           OwnerOK(d, p, r), OwnerOK(d, q, x)
    PROVE  r = x
BY DEF OwnerOK

LEMMA CallsOnce ==
    ASSUME PaidInv, NEW r \in Runs, Paid!Call(r), Paid!PolicyAssumption
    PROVE  /\ PaidInv'
           /\ \E h \in Handles, l \in Paid!Legs, c \in Charges :
                 /\ calls[h][l] = 0 /\ calls' = [calls EXCEPT ![h][l] = 1]
                 /\ spent' = spent + c /\ db.fence[h][l] # 0
<1>0. /\ run[r] \in RunRecords /\ run[r].pc = "call" /\ run[r].pc \in AtWork /\ PaidTypeOK
      /\ RunOK(r) /\ Paid!OneCallPerLeg /\ run \in [Runs -> RunRecords]
  BY DEF PaidInv, PaidTypeOK, Paid!Call, Paid!At, AtWork
<1>1. PICK h \in Handles, l \in Paid!Legs : h = run[r].h /\ l = run[r].leg
  BY <1>0 DEF RunOK, RunFacts, Stands, CallReady
<1>2. /\ run[r].owned /\ db.fence[h][l] # 0 /\ calls[h][l] = 0
      /\ OwnerOK(db, run[r], r) /\ ReplyOK(db, run[r]) /\ run[r].epoch \in 1..db.epoch
      /\ run[r].epoch = live => LegOK(db, run[r]) /\ DoneOK(db, run[r])
  BY <1>0, <1>1 DEF RunOK, RunFacts, Stands, Current, CallReady
<1>3. PICK a \in {"good", "bad", "refused", "abstained"}, c \in Charges, n \in BOOLEAN :
         /\ a = "abstained" => l = "grok"
         /\ calls' = [calls EXCEPT ![h][l] = @ + 1] /\ spent' = spent + c
         /\ run' = [run EXCEPT ![r] = [run[r] EXCEPT !.pc = "receipt", !.result = a,
                                                     !.cost = IF n THEN c ELSE Paid!Unknown]]
  BY <1>1, Zenon DEF Paid!Call, Paid!Set
<1>4. UNCHANGED <<db, generating, today, live, lock, indoubt, tx>>
  BY DEF Paid!Call, Paid!outside, Paid!process
<1>5. PICK m \in Int : m = IF n THEN c ELSE Paid!Unknown
  BY DEF Paid!PolicyAssumption, Paid!Unknown
<1>6. PICK q : q = [run[r] EXCEPT !.pc = "receipt", !.result = a, !.cost = m]
  OBVIOUS
<1>7. /\ q \in RunRecords /\ q.pc = "receipt" /\ q.h = h /\ q.epoch = run[r].epoch /\ q.leg = l
      /\ q.result = a /\ q.owned = run[r].owned /\ q.broken = run[r].broken /\ q.reply = run[r].reply
      /\ q.cleanup = run[r].cleanup
  <2>1. "receipt" \in AtWork
    BY DEF AtWork
  <2> QED BY <1>0, <1>1, <1>6, <2>1 DEF RunRecords
<1>8. run' = [run EXCEPT ![r] = q]
  BY <1>3, <1>5, <1>6
<1>9. run' \in [Runs -> RunRecords] /\ run'[r] = q /\ \A x \in Runs \ {r} : run'[x] = run[x]
  BY <1>0, <1>7, <1>8
<1>10. PICK g : g = [calls[h] EXCEPT ![l] = 1]
  OBVIOUS
<1>11. calls' = [calls EXCEPT ![h] = g] /\ calls' = [calls EXCEPT ![h][l] = 1]
  BY <1>2, <1>3, <1>10
<1>12. /\ g \in [Paid!Legs -> Nat] /\ g[l] = 1 /\ \A x \in Paid!Legs \ {l} : g[x] = calls[h][x]
  BY <1>0, <1>10 DEF PaidTypeOK
<1>13. /\ calls' \in [Handles -> [Paid!Legs -> Nat]] /\ calls'[h] = g
       /\ \A x \in Handles \ {h} : calls'[x] = calls[x]
  BY <1>0, <1>11, <1>12 DEF PaidTypeOK
<1>14. ASSUME NEW y, NEW d, y.h \in Handles, y.h # h \/ y.pc # "call", CallReady(d, y)
       PROVE  CallReady(d, y)'
  <2>1. y.pc = "call" => calls'[y.h] = calls[y.h]
    BY <1>13, <1>14
  <2> QED BY <1>14, <2>1 DEF CallReady
<1>15. PaidTypeOK'
  <2>1. spent' \in Nat
    BY <1>0, <1>3 DEF PaidTypeOK, Paid!PolicyAssumption
  <2> QED BY <1>0, <1>4, <1>9, <1>13, <2>1 DEF PaidTypeOK
<1>16. \A d : Claimed(d) => Claimed(d)'
  <2> SUFFICES ASSUME NEW d, Claimed(d) PROVE Claimed(d)'
    OBVIOUS
  <2> QED BY <1>0, <1>1, <1>7, <1>9 DEF Claimed
<1>17. RunOK(r)'
  <2>1. Stands(db, r, q)'
    <3>1. OwnerOK(db, q, r) /\ ReplyOK(db, q) /\ q.h \in Handles /\ q.owned
      BY <1>1, <1>2, <1>7 DEF OwnerOK, ReplyOK
    <3> QED BY <1>2, <1>4, <1>7, <3>1 DEF Stands, OwnerOK, ReplyOK, CallReady
  <2>2. Current(db, r, q)'
    <3>1. LegOK(db, q) \/ q.epoch # live
      BY <1>0, <1>1, <1>2, <1>3, <1>7 DEF LegOK
    <3>2. DoneOK(db, q) \/ q.epoch # live
      BY <1>1, <1>2, <1>7 DEF DoneOK
    <3> QED BY <1>2, <1>4, <1>7, <3>1, <3>2 DEF Current, LegOK, DoneOK
  <2> QED BY <1>4, <1>9, <2>1, <2>2 DEF RunOK, RunFacts
<1>18. ASSUME NEW x \in Runs \ {r} PROVE RunOK(x)'
  <2>1. PICK y \in RunRecords : y = run[x] /\ run'[x] = y
    BY <1>0, <1>9
  <2>2. Stands(db, x, y) /\ Current(db, x, y)
    BY <2>1 DEF PaidInv, RunOK, RunFacts
  <2>3. CallReady(db, y)'
    <3>1. CASE y.pc = "call"
      <4>1. y.owned /\ OwnerOK(db, y, x) /\ y.h \in Handles /\ CallReady(db, y)
        BY <2>2, <3>1 DEF Stands, AtWork
      <4>2. y.h # h
        BY <1>1, <1>2, <4>1, OneOwner
      <4> QED BY <1>4, <1>14, <4>1, <4>2
    <3> QED BY <3>1 DEF CallReady
  <2>4. Stands(db, x, y)'
    BY <1>4, <2>2, <2>3 DEF Stands, OwnerOK, ReplyOK
  <2>5. Current(db, x, y)'
    BY <1>4, <2>2 DEF Current, LegOK, DoneOK
  <2> QED BY <2>1, <2>4, <2>5 DEF RunOK, RunFacts
<1>19. ASSUME tx # NoTx PROVE TxOK'
  <2>0. tx \in Transactions
    BY <1>0, <1>19 DEF PaidTypeOK
  <2>1. PICK x \in Runs, b \in Tables, k \in RunRecords, w \in {"guarded", "plain", "cleanup"} :
           x = tx.r /\ b = tx.after /\ k = tx.ack /\ w = tx.kind
    BY <2>0 DEF Transactions
  <2>2. Begun(x, b, k, w)
    BY <1>19, <2>1 DEF PaidInv, TxOK
  <2>3. w # "cleanup" => x # r
    BY <1>0, <2>2 DEF Begun
  <2>4. /\ run'[x].h = run[x].h /\ run'[x].epoch = run[x].epoch /\ run'[x].owned = run[x].owned
        /\ run'[x].pc # "idle" /\ (w = "cleanup" => run'[x].pc # "claim")
        /\ w # "cleanup" => run'[x].pc = run[x].pc /\ run'[x].broken = run[x].broken /\ run'[x].cleanup = run[x].cleanup
    BY <1>1, <1>7, <1>9, <2>2, <2>3 DEF Begun
  <2>5. w # "cleanup" => CallReady(b, k)'
    <3>1. ASSUME w # "cleanup", k.pc = "call", k.h = h PROVE FALSE
      <4>1. k.owned /\ OwnerOK(b, k, x) /\ b.job[h].by = x
        BY <2>2, <3>1 DEF Begun, OwnerOK
      <4>2. Kept(db, b, h) /\ db.job[h].by = r
        BY <1>1, <1>2, <2>2 DEF Begun, Successor, OwnerOK
      <4> QED BY <2>3, <3>1, <4>1, <4>2 DEF Kept
    <3>2. ASSUME w # "cleanup" PROVE CallReady(b, k) /\ k.h \in Handles
      <4>1. k.h = run[x].h /\ run[x].pc # "idle" /\ CallReady(b, k)
        BY <2>2, <3>2 DEF Begun
      <4> QED BY <4>1 DEF PaidInv, RunOK, RunFacts, Stands
    <3> QED BY <1>14, <3>1, <3>2
  <2>6. Claimed(b)'
    BY <1>16, <2>2 DEF Begun
  <2>7. Begun(x, b, k, w)'
    BY <1>4, <2>2, <2>4, <2>5, <2>6 DEF Begun, OwnerOK, LegOK, ReplyOK, TablesOK, EvidenceOK, OutcomeOK,
                                       Successor, Same, Kept
  <2> QED BY <1>4, <2>1, <2>7 DEF TxOK
<1>20. Paid!OneCallPerLeg'
  <2>1. ASSUME NEW x \in Handles, NEW y \in Paid!Legs
        PROVE  calls'[x][y] <= 1 /\ (calls'[x][y] = 1 => db.fence[x][y] # 0)
    <3>1. CASE x = h /\ y = l
      BY <1>2, <1>12, <1>13, <3>1
    <3>2. CASE ~(x = h /\ y = l)
      <4>1. calls'[x][y] = calls[x][y]
        BY <1>12, <1>13, <3>2
      <4> QED BY <1>0, <4>1 DEF Paid!OneCallPerLeg
    <3> QED BY <3>1, <3>2
  <2> QED BY <1>4, <2>1 DEF Paid!OneCallPerLeg
<1>21. (TablesOK(db) /\ Claimed(db) /\ (live # 0 => live = db.epoch /\ lock) /\ (indoubt # NoTx => DoubtOK))'
  BY <1>4, <1>16 DEF PaidInv, TablesOK, EvidenceOK, OutcomeOK, DoubtOK, Kept
<1>22. PaidInv'
  BY <1>15, <1>17, <1>18, <1>19, <1>20, <1>21, <1>4 DEF PaidInv
<1> QED BY <1>2, <1>3, <1>11, <1>22

LEMMA Sends ==
    ASSUME PaidInv, Paid!SendCommit
    PROVE  PaidInv'
<1>1. UNCHANGED <<db, generating, today, live, lock, indoubt, run, calls, spent>> /\ tx # NoTx
  BY DEF Paid!SendCommit, Paid!outside, Paid!process
<1>2. tx \in Transactions
  BY <1>1 DEF PaidInv, PaidTypeOK
<1>3. PICK x \in Runs, d \in Tables, k \in RunRecords, w \in {"guarded", "plain", "cleanup"} :
         x = tx.r /\ d = tx.after /\ k = tx.ack /\ w = tx.kind
  BY <1>2 DEF Transactions
<1>4. tx' \in Transactions /\ tx'.r = x /\ tx'.after = d /\ tx'.ack = k /\ tx'.kind = w
  BY <1>2, <1>3 DEF Paid!SendCommit, Transactions
<1>5. PaidTypeOK'
  BY <1>1, <1>4 DEF PaidInv, PaidTypeOK
<1>6. Begun(x, d, k, w)
  BY <1>1, <1>3 DEF PaidInv, TxOK
<1>7. Begun(x, d, k, w)'
  BY <1>1, <1>6 DEF Begun, Successor, Kept, Same, TablesOK, EvidenceOK, OutcomeOK, Claimed, OwnerOK,
                    CallReady, LegOK, ReplyOK
<1>8. TxOK'
  BY <1>4, <1>7 DEF TxOK, Begun, OwnerOK, CallReady, LegOK, ReplyOK
<1>9. (TablesOK(db) /\ Claimed(db) /\ (live # 0 => live = db.epoch /\ lock) /\ Paid!OneCallPerLeg /\ \A r \in Runs : RunOK(r))'
  BY <1>1 DEF PaidInv, TablesOK, EvidenceOK, OutcomeOK, Claimed, Paid!OneCallPerLeg, RunOK, RunFacts,
              Stands, Current, OwnerOK, CallReady, ReplyOK, LegOK, DoneOK
<1>10. (indoubt # NoTx => DoubtOK)'
  BY <1>1 DEF PaidInv, DoubtOK, TablesOK, EvidenceOK, OutcomeOK, Claimed, Kept
<1> QED BY <1>5, <1>8, <1>9, <1>10 DEF PaidInv

LEMMA CleanedUp ==
    ASSUME NEW q \in RunRecords, NEW a \in Kinds \cup {"none", "accepted", "error"},
           NEW m, m = AfterCleanup(q, a)
    PROVE  /\ m \in RunRecords /\ m.pc = q.pc /\ m.h = q.h /\ m.epoch = q.epoch
           /\ m.leg = q.leg /\ m.result = q.result /\ m.owned = q.owned
           /\ m.cleanup = "done" /\ m.broken = q.broken /\ m.reply = a
<1>1. m = [q EXCEPT !.cleanup = "done", !.reply = a]
  BY DEF AfterCleanup
<1> QED BY <1>1, ZenonT(40) DEF RunRecords

LEMMA TakenOver ==
    ASSUME NEW k \in RunRecords, NEW a \in Kinds \cup {"none", "accepted", "error"},
           NEW q \in RunRecords, NEW m, m = AfterWork(k, q, a)
    PROVE  /\ m \in RunRecords /\ m.pc = k.pc /\ m.h = k.h /\ m.epoch = k.epoch /\ m.leg = k.leg
           /\ m.result = k.result /\ m.owned = k.owned /\ m.cleanup = q.cleanup
           /\ m.broken = k.broken /\ m.reply = a
<1>0. PICK e \in BOOLEAN, c \in {"no", "wait", "done"} : e = q.expired /\ c = q.cleanup
  BY DEF RunRecords
<1>1. PICK n : n = [k EXCEPT !.expired = e, !.cleanup = c]
  OBVIOUS
<1>2. /\ n \in RunRecords /\ n.pc = k.pc /\ n.h = k.h /\ n.epoch = k.epoch /\ n.leg = k.leg
      /\ n.result = k.result /\ n.owned = k.owned /\ n.cleanup = c /\ n.broken = k.broken
  <2>1. PICK o : o = [k EXCEPT !.cleanup = c]
    OBVIOUS
  <2>2. /\ o \in RunRecords /\ o.pc = k.pc /\ o.h = k.h /\ o.epoch = k.epoch /\ o.leg = k.leg
        /\ o.result = k.result /\ o.owned = k.owned /\ o.cleanup = c /\ o.broken = k.broken
    BY <2>1 DEF RunRecords
  <2>3. CASE e
    <3>1. n = [o EXCEPT !.expired = TRUE]
      BY <1>1, <2>1, <2>3 DEF RunRecords
    <3> QED BY <2>2, <3>1 DEF RunRecords
  <2>4. CASE ~e
    <3>1. n = [o EXCEPT !.expired = FALSE]
      BY <1>1, <2>1, <2>4 DEF RunRecords
    <3> QED BY <2>2, <3>1 DEF RunRecords
  <2> QED BY <2>3, <2>4
<1>3. m = [n EXCEPT !.reply = a]
  BY <1>0, <1>1 DEF AfterWork
<1> QED BY <1>0, <1>2, <1>3 DEF RunRecords

\* What a run is once its transaction has been answered.
LEMMA MergedOK ==
    ASSUME PaidInv, tx # NoTx, NEW x \in Runs, NEW d \in Tables, NEW k \in RunRecords,
           NEW w \in {"guarded", "plain", "cleanup"},
           x = tx.r, d = tx.after, k = tx.ack, w = tx.kind,
           NEW m, m = Paid!Merged(x, k)
    PROVE  /\ m \in RunRecords /\ m.h = run[x].h /\ m.pc # "idle"
           /\ Stands(d, x, m) /\ Current(d, x, m)
<1>0. Begun(x, d, k, w) /\ run[x] \in RunRecords /\ RunOK(x) /\ PaidTypeOK
  BY DEF PaidInv, PaidTypeOK, TxOK
<1>1. /\ run[x].pc # "idle" /\ run[x].h \in Handles /\ run[x].epoch \in 1..d.epoch
      /\ Kept(db, d, run[x].h) /\ k.h = run[x].h /\ k.epoch = run[x].epoch
  BY <1>0, SMTT(30) DEF Begun, Successor, RunOK, RunFacts, Stands
<1>2. ReplyOK(d, run[x])
  BY <1>0, <1>1 DEF RunOK, RunFacts, Stands, ReplyOK, Kept, Kinds
<1>3. CASE w = "cleanup"
  <2>1. m = [run[x] EXCEPT !.cleanup = "done", !.reply = k.reply]
    BY <1>3 DEF Paid!Merged
  <2>2. /\ m \in RunRecords /\ m.pc = run[x].pc /\ m.h = run[x].h /\ m.epoch = run[x].epoch
        /\ m.leg = run[x].leg /\ m.result = run[x].result /\ m.owned = run[x].owned
        /\ m.cleanup = "done" /\ m.broken = run[x].broken /\ m.reply = k.reply
    <3>1. PICK q \in RunRecords, a \in Kinds \cup {"none", "accepted", "error"} : q = run[x] /\ a = k.reply
      BY <1>0 DEF RunRecords
    <3>2. m = AfterCleanup(q, a)
      BY <2>1, <3>1 DEF AfterCleanup
    <3>3. /\ m \in RunRecords /\ m.pc = q.pc /\ m.h = q.h /\ m.epoch = q.epoch
          /\ m.leg = q.leg /\ m.result = q.result /\ m.owned = q.owned
          /\ m.cleanup = "done" /\ m.broken = q.broken /\ m.reply = a
      BY <3>2, CleanedUp
    <3> QED BY <3>1, <3>3
  <2>3. /\ run[x].pc # "claim" /\ run[x].owned /\ k.reply \in Kinds /\ d.terminal[run[x].h].kind = k.reply
        /\ ~Open(d, run[x].h) /\ d.fence = db.fence /\ d.identity = db.identity
    BY <1>0, <1>3 DEF Begun
  <2>4. OwnerOK(d, m, x)
    <3>1. OwnerOK(db, run[x], x)
      BY <1>0 DEF RunOK, RunFacts, Stands
    <3>2. PICK h \in Handles : h = run[x].h
      BY <1>1
    <3>3. SUFFICES ASSUME m.owned
                   PROVE  /\ m.pc \notin {"idle", "claim"}
                          /\ d.job[h].by = x /\ d.job[h].epoch = m.epoch
      BY <2>2, <3>2 DEF OwnerOK
    <3>4. /\ run[x].pc \notin {"idle", "claim"}
          /\ db.job[h].by = x /\ db.job[h].epoch = run[x].epoch
      BY <2>2, <3>1, <3>2, <3>3, SMTT(30) DEF OwnerOK
    <3>5. d.job[h].by = db.job[h].by /\ d.job[h].epoch = db.job[h].epoch
      <4>1. Kept(db, d, h) /\ db.job[h].by \in Runs
        BY <1>1, <3>2, <3>4
      <4> QED BY <4>1 DEF Kept
    <3> QED BY <2>2, <3>4, <3>5
  <2>5. CallReady(d, m)
    BY <1>0, <2>2, <2>3 DEF RunOK, RunFacts, Stands, CallReady
  <2>6. ReplyOK(d, m)
    BY <1>2, <2>2, <2>3 DEF ReplyOK, Kinds
  <2>7. Stands(d, x, m)
    BY <1>1, <2>2, <2>3, <2>4, <2>5, <2>6 DEF Stands
  <2>8. m.epoch = live => LegOK(d, m)
    BY <1>0, <1>1, <2>2, <2>3 DEF RunOK, RunFacts, Current, LegOK
  <2> QED BY <1>1, <2>2, <2>3, <2>7, <2>8 DEF Current, DoneOK
<1>4. CASE w # "cleanup"
  <2>1. PICK a : a = IF run[x].expired THEN run[x].reply ELSE k.reply
    OBVIOUS
  <2>2. PICK q \in RunRecords : q = run[x]
    BY <1>0
  <2>3. m = AfterWork(k, q, a)
    BY <1>4, <2>1, <2>2 DEF Paid!Merged, AfterWork
  <2>4. a \in {run[x].reply, k.reply} /\ a \in Kinds \cup {"none", "accepted", "error"}
    BY <1>0, <2>1 DEF RunRecords
  <2>5. /\ m \in RunRecords /\ m.pc = k.pc /\ m.h = k.h /\ m.epoch = k.epoch /\ m.leg = k.leg
        /\ m.result = k.result /\ m.owned = k.owned /\ m.cleanup = run[x].cleanup
        /\ m.broken = k.broken /\ m.reply = a
    <3>1. /\ m \in RunRecords /\ m.pc = k.pc /\ m.h = k.h /\ m.epoch = k.epoch /\ m.leg = k.leg
          /\ m.result = k.result /\ m.owned = k.owned /\ m.cleanup = q.cleanup
          /\ m.broken = k.broken /\ m.reply = a
      BY <2>3, <2>4, TakenOver
    <3> QED BY <2>2, <3>1
  <2>6. /\ k.pc \notin {"idle", "claim"} /\ k.owned /\ k.broken = run[x].broken
        /\ run[x].broken \/ run[x].cleanup # "done"
        /\ OwnerOK(d, k, x) /\ CallReady(d, k) /\ LegOK(d, k) /\ ReplyOK(d, k)
    BY <1>0, <1>4 DEF Begun
  <2>7. ReplyOK(d, m)
    BY <1>1, <1>2, <2>4, <2>5, <2>6 DEF ReplyOK
  <2>8. Stands(d, x, m)
    BY <1>1, <2>5, <2>6, <2>7 DEF Stands, OwnerOK, CallReady
  <2>9. Current(d, x, m)
    BY <2>5, <2>6 DEF Current, LegOK, DoneOK
  <2> QED BY <1>1, <2>5, <2>6, <2>8, <2>9
<1> QED BY <1>3, <1>4

\* The COMMIT of one run leaves the others as they are.
LEMMA OthersOK ==
    ASSUME PaidInv, tx # NoTx, NEW x \in Runs, NEW d \in Tables, NEW k \in RunRecords,
           NEW w \in {"guarded", "plain", "cleanup"},
           x = tx.r, d = tx.after, k = tx.ack, w = tx.kind, NEW y \in Runs \ {x}
    PROVE  Stands(d, y, run[y]) /\ Current(d, y, run[y])
<1>0. Begun(x, d, k, w) /\ run[y] \in RunRecords /\ RunOK(y) /\ RunOK(x) /\ PaidTypeOK
  BY DEF PaidInv, PaidTypeOK, TxOK
<1>1. /\ Successor(db, d, run[x].h) /\ d.epoch = db.epoch /\ \A h \in Handles : Kept(db, d, h)
  BY <1>0 DEF Begun, Successor
<1>2. Stands(db, y, run[y]) /\ Current(db, y, run[y])
  BY <1>0 DEF RunOK, RunFacts
<1>3. Stands(d, y, run[y])
  <2>1. db \in Tables
    BY <1>0 DEF PaidTypeOK
  <2>2. db.epoch \in Nat /\ db.terminal \in [Handles -> Terminals]
    BY <2>1 DEF Tables
  <2>3. PICK q \in RunRecords : q = run[y]
    BY <1>0
  <2>4. Stands(d, y, q)
    <3>1. db.epoch <= d.epoch /\ d.epoch \in Nat
      BY <1>1, <2>2
    <3>2. Stands(db, y, q)
      BY <1>2, <2>3
    <3>3. y \in Runs
      OBVIOUS
    <3>4. \A h \in Handles : Kept(db, d, h)
      BY <1>1
    <3> QED BY <2>2, <3>1, <3>2, <3>3, <3>4, StandsOn
  <2> QED BY <2>3, <2>4
<1>4. ASSUME run[y].pc # "idle", run[y].epoch = live PROVE Current(d, y, run[y])
  <2>1. run[y].h \in Handles
    BY <1>2, <1>4 DEF Stands
  <2>2. d.job[run[x].h].by = x
    <3>1. CASE w = "cleanup"
      <4>1. run[x].owned /\ run[x].pc # "idle"
        BY <1>0, <3>1 DEF Begun
      <4>2. db.job[run[x].h].by = x /\ run[x].h \in Handles
        BY <1>0, <4>1 DEF RunOK, RunFacts, Stands, OwnerOK
      <4> QED BY <1>1, <4>2 DEF Kept
    <3>2. CASE w # "cleanup"
      <4>1. k.owned /\ OwnerOK(d, k, x) /\ k.h = run[x].h
        BY <1>0, <3>2 DEF Begun
      <4> QED BY <4>1 DEF OwnerOK
    <3> QED BY <3>1, <3>2
  <2>3. CASE run[y].h = run[x].h
    <3>1. ~run[y].owned
      <4>1. Stands(d, y, run[y]) => (run[y].owned => d.job[run[y].h].by = y)
        BY DEF Stands, OwnerOK
      <4> QED BY <1>3, <2>2, <2>3, <4>1
    <3>2. run[y].pc \notin AtWork
      BY <1>2, <3>1 DEF Stands
    <3> QED BY <2>2, <2>3, <3>1, <3>2 DEF Current, LegOK, DoneOK
  <2>4. CASE run[y].h # run[x].h
    <3>1. Same(db, d, run[y].h)
      BY <1>1, <2>1, <2>4 DEF Successor
    <3>2. LegOK(d, run[y])
      BY <1>2, <1>4, <3>1 DEF Current, LegOK, Same
    <3>3. DoneOK(d, run[y]) /\ (d.job[run[y].h].by = y => run[y].owned)
      BY <1>2, <1>4, <3>1 DEF Current, DoneOK, Open, Same
    <3> QED BY <3>2, <3>3 DEF Current
  <2> QED BY <2>3, <2>4
<1> QED BY <1>3, <1>4 DEF Current

LEMMA Acknowledges ==
    ASSUME PaidInv, Paid!Acknowledge
    PROVE  PaidInv'
<1>0. UNCHANGED <<generating, today, live, lock, indoubt, calls, spent>> /\ tx # NoTx /\ tx' = NoTx
  BY DEF Paid!Acknowledge, Paid!outside, Paid!process
<1>1. PICK x \in Runs, d \in Tables, k \in RunRecords, w \in {"guarded", "plain", "cleanup"} :
         x = tx.r /\ d = tx.after /\ k = tx.ack /\ w = tx.kind
  BY <1>0 DEF PaidInv, PaidTypeOK, Transactions
<1>2. PICK m : m = Paid!Merged(x, k)
  OBVIOUS
<1>3. db' = d /\ run' = [run EXCEPT ![x] = m]
  BY <1>1, <1>2 DEF Paid!Acknowledge
<1>4. m \in RunRecords /\ m.h = run[x].h /\ m.pc # "idle" /\ Stands(d, x, m) /\ Current(d, x, m)
  BY <1>0, <1>1, <1>2, MergedOK
<1>5. \A y \in Runs \ {x} : Stands(d, y, run[y]) /\ Current(d, y, run[y])
  BY <1>0, <1>1, OthersOK
<1>6. run \in [Runs -> RunRecords] /\ Begun(x, d, k, w)
  BY <1>0, <1>1 DEF PaidInv, PaidTypeOK, TxOK
<1>7. run' \in [Runs -> RunRecords] /\ run'[x] = m /\ \A y \in Runs \ {x} : run'[y] = run[y]
  BY <1>3, <1>4, <1>6
<1>8. PaidTypeOK'
  BY <1>0, <1>3, <1>7 DEF PaidInv, PaidTypeOK
<1>9. ASSUME NEW y \in Runs, NEW q, q = run'[y], Stands(d, y, q), Current(d, y, q) PROVE RunOK(y)'
  <2>1. Stands(db, y, q)' /\ Current(db, y, q)'
    BY <1>0, <1>3, <1>9 DEF Stands, Current, OwnerOK, CallReady, ReplyOK, LegOK, DoneOK
  <2> QED BY <1>9, <2>1 DEF RunOK, RunFacts
<1>10. \A y \in Runs : RunOK(y)'
  <2>1. RunOK(x)'
    BY <1>4, <1>7, <1>9
  <2>2. ASSUME NEW y \in Runs \ {x} PROVE RunOK(y)'
    BY <1>5, <1>7, <1>9, <2>2
  <2> QED BY <2>1, <2>2
<1>11. /\ TablesOK(d) /\ Claimed(d) /\ d.epoch = db.epoch /\ \A h \in Handles : Kept(db, d, h)
       /\ live # 0
  BY <1>6 DEF Begun, Successor
<1>12. TablesOK(db)' /\ Claimed(db)'
  <2>1. Claimed(db)'
    BY <1>3, <1>4, <1>7, <1>11 DEF Claimed
  <2> QED BY <1>3, <1>11, <2>1 DEF TablesOK, EvidenceOK, OutcomeOK
<1>13. (live # 0 => live = db.epoch /\ lock)'
  BY <1>0, <1>3, <1>11 DEF PaidInv
<1>14. Paid!OneCallPerLeg'
  BY <1>0, <1>3, <1>11 DEF PaidInv, Paid!OneCallPerLeg, Kept
<1>15. indoubt' = NoTx
  BY <1>0, <1>11 DEF PaidInv, DoubtOK
<1> QED BY <1>0, <1>8, <1>10, <1>12, <1>13, <1>14, <1>15 DEF PaidInv

-----------------------------------------------------------------------------
(* What goes wrong: a deadline before COMMIT, a lost link, a crash.         *)

LEMMA StillOK ==
    ASSUME PaidInv, NEW r \in Runs, NEW q, q = run'[r], UNCHANGED <<db, calls>>, Stands(db, r, q),
           live' = 0 \/ (live' = live /\ Current(db, r, q))
    PROVE  RunOK(r)'
<1>1. Stands(db, r, q)'
  BY DEF Stands, OwnerOK, CallReady, ReplyOK
<1>2. CASE live' = 0
  <2>1. q.pc # "idle" => q.epoch # 0
    BY DEF Stands, PaidInv, PaidTypeOK, Tables
  <2> QED BY <1>1, <1>2, <2>1 DEF RunOK, RunFacts, Current
<1>3. CASE live' = live /\ Current(db, r, q)
  BY <1>1, <1>3 DEF RunOK, RunFacts, Current, LegOK, DoneOK
<1> QED BY <1>2, <1>3

LEMMA Thrown ==
    ASSUME PaidInv, NEW r \in Runs,
           run[r].pc \in {"claim", "fence", "receipt", "identity", "accept", "abstain", "catch"},
           NEW q, q = Paid!Throws(r, FALSE) \/ q = Paid!Throws(r, TRUE)
    PROVE  /\ q \in RunRecords /\ q.h = run[r].h
           /\ Stands(db, r, q) /\ (run[r].broken \/ run[r].cleanup # "done" => Current(db, r, q))
<1>0. run[r] \in RunRecords
  BY DEF PaidInv, PaidTypeOK
<1>1. PICK c \in BOOLEAN : c = run[r].broken \/ c = TRUE
  OBVIOUS
<1>2. PICK p : p = IF run[r].pc \in {"claim", "catch", "final"} THEN "throw" ELSE "caught"
  OBVIOUS
<1>a. p \in AtWork \cup {"throw"}
  BY <1>2 DEF AtWork
<1>3. q = [run[r] EXCEPT !.pc = p, !.broken = run[r].broken] \/ q = [run[r] EXCEPT !.pc = p, !.broken = TRUE]
  <2>1. CASE q = Paid!Throws(r, FALSE)
    <3>1. (run[r].broken \/ FALSE) = run[r].broken
      BY <1>0 DEF RunRecords
    <3> QED BY <1>2, <2>1, <3>1 DEF Paid!Throws
  <2>2. CASE q = Paid!Throws(r, TRUE)
    BY <1>2, <2>2 DEF Paid!Throws
  <2> QED BY <2>1, <2>2
<1>4. /\ q \in RunRecords /\ q.pc = p /\ q.h = run[r].h /\ q.epoch = run[r].epoch
      /\ q.leg = run[r].leg /\ q.result = run[r].result /\ q.owned = run[r].owned
      /\ q.cleanup = run[r].cleanup /\ (run[r].broken => q.broken) /\ q.reply = run[r].reply
  <2>1. CASE q = [run[r] EXCEPT !.pc = p, !.broken = run[r].broken]
    BY <1>0, <1>a, <2>1 DEF RunRecords
  <2>2. CASE q = [run[r] EXCEPT !.pc = p, !.broken = TRUE]
    BY <1>0, <1>a, <2>2 DEF RunRecords
  <2> QED BY <1>3, <2>1, <2>2
<1>5. run[r].pc # "idle" /\ (q.pc = "throw" \/ (q.pc = "caught" /\ run[r].pc \in AtWork))
  BY <1>2, <1>4 DEF AtWork
<1>6. Stands(db, r, q)
  BY <1>4, <1>5, Remains
<1>7. ASSUME run[r].broken \/ run[r].cleanup # "done" PROVE Current(db, r, q)
  <2>1. DoneOK(db, q)
    BY <1>4, <1>7 DEF DoneOK
  <2>2. RunFacts(r, q)
    BY <1>4, <1>5, <2>1, Rests
  <2> QED BY <2>2 DEF RunFacts
<1> QED BY <1>4, <1>6, <1>7

LEMMA GuardCatches ==
    ASSUME PaidInv, Paid!GuardFails
    PROVE  PaidInv'
<1>1. PICK r \in Runs : r = tx.r
  BY DEF PaidInv, PaidTypeOK, Transactions, Paid!GuardFails
<1>2. PICK q : q = Paid!Throws(r, FALSE)
  OBVIOUS
<1>3. /\ run' = [run EXCEPT ![r] = q] /\ tx' = NoTx /\ tx # NoTx /\ tx.kind = "guarded"
      /\ UNCHANGED <<db, generating, today, live, lock, indoubt, calls, spent>>
  BY <1>1, <1>2 DEF Paid!GuardFails, Paid!outside, Paid!process
<1>4. /\ run[r].pc \in {"claim", "fence", "receipt", "identity", "accept", "abstain", "catch"}
      /\ run[r].broken \/ run[r].cleanup # "done"
  BY <1>1, <1>3, Held
<1>5. q \in RunRecords /\ q.h = run[r].h /\ Stands(db, r, q) /\ Current(db, r, q) /\ q.pc # "idle"
  <2>1. q \in RunRecords /\ q.h = run[r].h /\ Stands(db, r, q) /\ Current(db, r, q)
    BY <1>2, <1>4, Thrown
  <2>2. q.pc \in {"throw", "caught"}
    BY <1>2, <2>1 DEF Paid!Throws, PaidInv, PaidTypeOK, RunRecords
  <2> QED BY <2>1, <2>2
<1>6. run' \in [Runs -> RunRecords] /\ run'[r] = q /\ \A x \in Runs \ {r} : run'[x] = run[x]
  BY <1>3, <1>5 DEF PaidInv, PaidTypeOK
<1>7. RunOK(r)'
  BY <1>3, <1>5, <1>6, StillOK
<1>8. ASSUME NEW x \in Runs \ {r} PROVE RunOK(x)'
  <2>1. Stands(db, x, run[x]) /\ Current(db, x, run[x])
    BY DEF PaidInv, RunOK, RunFacts
  <2> QED BY <1>3, <1>6, <2>1, StillOK
<1>9. \A x \in Runs : run'[x].h = run[x].h /\ (run[x].pc # "idle" => run'[x].pc # "idle")
  BY <1>5, <1>6
<1>10. indoubt' = NoTx
  <2>1. live # 0
    BY <1>3 DEF PaidInv, TxOK, Begun
  <2> QED BY <1>3, <2>1 DEF PaidInv, DoubtOK
<1> QED BY <1>3, <1>6, <1>7, <1>8, <1>9, <1>10, LetGo

\* What the server has of a COMMIT when its client is gone.
LEMMA Doubtful ==
    ASSUME PaidInv, live # 0, NEW d, d = Paid!Doubt, d # NoTx
    PROVE  /\ lock /\ d \in Tables /\ TablesOK(d) /\ Claimed(d)
           /\ d.epoch = db.epoch /\ \A h \in Handles : Kept(db, d, h)
<1>1. tx # NoTx /\ d = tx.after
  BY DEF Paid!Doubt
<1>2. PICK r, k, w : Begun(r, d, k, w)
  BY <1>1 DEF PaidInv, TxOK
<1>3. /\ d \in Tables /\ TablesOK(d) /\ Claimed(d) /\ d.epoch = db.epoch
      /\ \A h \in Handles : Kept(db, d, h)
  BY <1>2 DEF Begun, Successor
<1>4. lock
  BY DEF PaidInv
<1> QED BY <1>3, <1>4

LEMMA LinkLost ==
    ASSUME PaidInv, Paid!LoseLink
    PROVE  PaidInv'
<1>1. /\ live # 0 /\ live' = 0 /\ indoubt' = Paid!Doubt /\ tx' = NoTx
      /\ UNCHANGED <<db, generating, today, lock, calls, spent>>
  BY DEF Paid!LoseLink, Paid!outside
<1>2. indoubt' # NoTx => /\ lock /\ indoubt' \in Tables /\ TablesOK(indoubt')
                         /\ Claimed(indoubt') /\ indoubt'.epoch = db.epoch
                         /\ \A h \in Handles : Kept(db, indoubt', h)
  <2>1. PICK d : d = Paid!Doubt /\ indoubt' = d
    BY <1>1
  <2>2. d # NoTx => /\ lock /\ d \in Tables /\ TablesOK(d) /\ Claimed(d)
                    /\ d.epoch = db.epoch /\ \A h \in Handles : Kept(db, d, h)
    BY <1>1, <2>1, Doubtful
  <2> QED BY <2>1, <2>2
<1>3. run \in [Runs -> RunRecords]
  BY DEF PaidInv, PaidTypeOK
<1>4. /\ run' \in [Runs -> RunRecords]
      /\ \A x \in Runs : /\ Stands(db, x, run'[x]) /\ run'[x].h = run[x].h
                         /\ run[x].pc # "idle" => run'[x].pc # "idle"
  <2>1. CASE tx = NoTx
    BY <1>3, <2>1 DEF Paid!LoseLink, PaidInv, RunOK, RunFacts
  <2>2. CASE tx # NoTx
    <3>1. PICK r \in Runs : r = tx.r
      BY <2>2 DEF PaidInv, PaidTypeOK, Transactions
    <3>2. PICK q : q = Paid!Unanswered
      OBVIOUS
    <3>3. run' = [run EXCEPT ![r] = q]
      BY <2>2, <3>1, <3>2 DEF Paid!LoseLink
    <3>4. q \in RunRecords /\ q.h = run[r].h /\ q.pc # "idle" /\ Stands(db, r, q)
      <4>1. CASE tx.kind = "cleanup"
        <5>1. q = [run[r] EXCEPT !.cleanup = "done", !.reply = "error"]
          BY <3>1, <3>2, <4>1 DEF Paid!Unanswered
        <5>2. /\ q \in RunRecords /\ q.pc = run[r].pc /\ q.h = run[r].h /\ q.epoch = run[r].epoch
              /\ q.leg = run[r].leg /\ q.owned = run[r].owned /\ q.reply = "error"
          <6>1. run[r] \in RunRecords
            BY <1>3
          <6> QED BY <5>1, <6>1 DEF RunRecords
        <5>3. run[r].pc # "idle" /\ run[r].pc # "claim"
          BY <2>2, <3>1, <4>1, Held
        <5> QED BY <5>2, <5>3, Remains
      <4>2. CASE tx.kind # "cleanup"
        <5>1. run[r].pc \in {"claim", "fence", "receipt", "identity", "accept", "abstain", "catch"}
          BY <2>2, <3>1, <4>2, Held
        <5>2. q = Paid!Throws(r, run[r].pc \in {"receipt", "identity", "accept", "abstain"})
          BY <3>1, <3>2, <4>2 DEF Paid!Unanswered
        <5>3. q = Paid!Throws(r, FALSE) \/ q = Paid!Throws(r, TRUE)
          <6>1. CASE run[r].pc \in {"receipt", "identity", "accept", "abstain"}
            BY <5>2, <6>1 DEF Paid!Throws
          <6>2. CASE run[r].pc \notin {"receipt", "identity", "accept", "abstain"}
            BY <5>2, <6>2 DEF Paid!Throws
          <6> QED BY <6>1, <6>2
        <5>4. q \in RunRecords /\ q.h = run[r].h /\ Stands(db, r, q)
          BY <5>1, <5>3, Thrown
        <5>5. q.pc \in {"throw", "caught"}
          BY <1>3, <5>3 DEF Paid!Throws, RunRecords
        <5> QED BY <5>4, <5>5
      <4> QED BY <4>1, <4>2
    <3>5. run' \in [Runs -> RunRecords] /\ run'[r] = q /\ \A x \in Runs \ {r} : run'[x] = run[x]
      BY <1>3, <3>3, <3>4
    <3>6. \A x \in Runs \ {r} : Stands(db, x, run[x])
      BY DEF PaidInv, RunOK, RunFacts
    <3> QED BY <3>4, <3>5, <3>6
  <2> QED BY <2>1, <2>2
<1>5. \A x \in Runs : RunOK(x)'
  BY <1>1, <1>4, StillOK
<1>6. \A h \in Handles, x \in Runs : indoubt' # NoTx /\ indoubt'.job[h].by = x => run[x].h = h /\ run[x].pc # "idle"
  BY <1>2 DEF Claimed
<1> QED BY <1>1, <1>2, <1>4, <1>5, <1>6, LetGo

LEMMA Dies ==
    ASSUME PaidInv, Paid!Crash
    PROVE  PaidInv'
<1>1. /\ live # 0 /\ live' = 0 /\ indoubt' = Paid!Doubt /\ tx' = NoTx
      /\ UNCHANGED <<db, generating, today, lock, calls, spent>>
      /\ run' = [r \in Runs |-> IF run[r].epoch = live /\ run[r].pc # "idle"
                                THEN [run[r] EXCEPT !.pc = "end", !.cleanup = "done"] ELSE run[r]]
  BY DEF Paid!Crash, Paid!outside
<1>2. indoubt' # NoTx => /\ lock /\ indoubt' \in Tables /\ TablesOK(indoubt')
                         /\ Claimed(indoubt') /\ indoubt'.epoch = db.epoch
                         /\ \A h \in Handles : Kept(db, indoubt', h)
  <2>1. PICK d : d = Paid!Doubt /\ indoubt' = d
    BY <1>1
  <2>2. d # NoTx => /\ lock /\ d \in Tables /\ TablesOK(d) /\ Claimed(d)
                    /\ d.epoch = db.epoch /\ \A h \in Handles : Kept(db, d, h)
    BY <1>1, <2>1, Doubtful
  <2> QED BY <2>1, <2>2
<1>3. run \in [Runs -> RunRecords]
  BY DEF PaidInv, PaidTypeOK
<1>4. ASSUME NEW x \in Runs
      PROVE  /\ run'[x] \in RunRecords /\ Stands(db, x, run'[x]) /\ run'[x].h = run[x].h
             /\ run[x].pc # "idle" => run'[x].pc # "idle"
  <2>1. CASE run[x].epoch = live /\ run[x].pc # "idle"
    <3>1. PICK q : q = [run[x] EXCEPT !.pc = "end", !.cleanup = "done"]
      OBVIOUS
    <3>2. run'[x] = q
      BY <1>1, <2>1, <3>1
    <3>3. /\ q \in RunRecords /\ q.pc = "end" /\ q.h = run[x].h /\ q.epoch = run[x].epoch
          /\ q.leg = run[x].leg /\ q.owned = run[x].owned /\ q.reply = run[x].reply
      <4>1. run[x] \in RunRecords
        BY <1>3
      <4> QED BY <3>1, <4>1 DEF RunRecords
    <3>4. Stands(db, x, q)
      BY <2>1, <3>3, Remains
    <3> QED BY <3>2, <3>3, <3>4
  <2>2. CASE ~(run[x].epoch = live /\ run[x].pc # "idle")
    <3>1. run'[x] = run[x]
      BY <1>1, <2>2
    <3> QED BY <1>3, <3>1 DEF PaidInv, RunOK, RunFacts
  <2> QED BY <2>1, <2>2
<1>5. run' \in [Runs -> RunRecords]
  BY <1>1, <1>4
<1>6. \A x \in Runs : RunOK(x)'
  BY <1>1, <1>4, StillOK
<1>7. \A h \in Handles, x \in Runs : indoubt' # NoTx /\ indoubt'.job[h].by = x => run[x].h = h /\ run[x].pc # "idle"
  BY <1>2 DEF Claimed
<1> QED BY <1>1, <1>2, <1>4, <1>5, <1>6, <1>7, LetGo

-----------------------------------------------------------------------------
(* The writer, admission, and the world around them.                        *)

\* Nothing is under way; the tables change, the runs do not.
LEMMA TablesMove ==
    ASSUME PaidInv, NEW d \in Tables, db' = d, tx = NoTx, tx' = NoTx, indoubt' = NoTx,
           live' \in Nat, live' # 0 => live' = d.epoch /\ lock', UNCHANGED <<run, calls, spent>>, today' \in Nat,
           TablesOK(d), Claimed(d),
           \A h \in Handles, l \in Paid!Legs : db.fence[h][l] # 0 => d.fence[h][l] # 0,
           \A r \in Runs : /\ Stands(d, r, run[r])
                           /\ run[r].pc # "idle" /\ run[r].epoch = live' => live' = live /\ Current(d, r, run[r])
    PROVE  PaidInv'
<1>1. PaidTypeOK'
  BY DEF PaidInv, PaidTypeOK
<1>2. TablesOK(db)' /\ Claimed(db)'
  BY DEF TablesOK, EvidenceOK, OutcomeOK, Claimed
<1>3. Paid!OneCallPerLeg'
  BY DEF PaidInv, Paid!OneCallPerLeg
<1>4. ASSUME NEW r \in Runs PROVE RunOK(r)'
  <2>1. Stands(db, r, run[r])'
    BY DEF Stands, OwnerOK, CallReady, ReplyOK
  <2>2. Current(db, r, run[r])'
    BY DEF Current, LegOK, DoneOK
  <2> QED BY <2>1, <2>2 DEF RunOK, RunFacts
<1> QED BY <1>1, <1>2, <1>3, <1>4 DEF PaidInv

LEMMA Ends ==
    ASSUME PaidInv, Paid!SessionEnds
    PROVE  PaidInv'
<1>1. /\ live = 0 /\ live' = 0 /\ indoubt' = NoTx /\ tx' = tx /\ lock /\ lock' = FALSE
      /\ UNCHANGED <<today, run, calls, spent>>
      /\ db' \in {db} \cup (IF indoubt = NoTx THEN {} ELSE {indoubt})
  BY DEF Paid!SessionEnds, Paid!outside
<1>2. tx = NoTx
  BY <1>1 DEF PaidInv, TxOK, Begun
<1>3. PICK d : db' = d
  OBVIOUS
<1>4. /\ d \in Tables /\ TablesOK(d) /\ Claimed(d) /\ d.epoch = db.epoch
      /\ \A h \in Handles : Kept(db, d, h)
  <2>1. CASE d = db
    BY <2>1 DEF PaidInv, PaidTypeOK, Kept
  <2>2. CASE indoubt # NoTx /\ d = indoubt
    BY <2>2 DEF PaidInv, PaidTypeOK, DoubtOK
  <2> QED BY <1>1, <1>3, <2>1, <2>2
<1>5. db \in Tables /\ run \in [Runs -> RunRecords]
  BY DEF PaidInv, PaidTypeOK
<1>6. ASSUME NEW r \in Runs PROVE Stands(d, r, run[r]) /\ (run[r].pc # "idle" => run[r].epoch # 0)
  <2>1. PICK q \in RunRecords : q = run[r]
    BY <1>5
  <2>2. Stands(db, r, q)
    BY <2>1 DEF PaidInv, RunOK, RunFacts
  <2>3. d.epoch \in Nat /\ db.epoch \in Nat /\ db.epoch <= d.epoch /\ db.terminal \in [Handles -> Terminals]
    BY <1>4, <1>5 DEF Tables
  <2>4. \A h \in Handles : Kept(db, d, h)
    BY <1>4
  <2>5. Stands(d, r, q)
    BY <2>2, <2>3, <2>4, StandsOn
  <2>6. q.pc # "idle" => q.epoch # 0
    BY <2>2, <2>3 DEF Stands
  <2> QED BY <2>1, <2>5, <2>6
<1>7. today' \in Nat
  BY <1>1 DEF PaidInv, PaidTypeOK
<1>8. \A h \in Handles, l \in Paid!Legs : db.fence[h][l] # 0 => d.fence[h][l] # 0
  BY <1>4 DEF Kept
<1> QED BY <1>1, <1>2, <1>3, <1>4, <1>6, <1>7, <1>8, TablesMove

LEMMA Acquires ==
    ASSUME PaidInv, Paid!Acquire
    PROVE  PaidInv'
<1>1. /\ live = 0 /\ ~lock /\ lock' = TRUE /\ live' = db.epoch + 1 /\ tx' = tx /\ indoubt' = indoubt
      /\ UNCHANGED <<today, run, calls, spent>>
  BY DEF Paid!Acquire, Paid!outside
<1>2. tx = NoTx /\ indoubt = NoTx
  BY <1>1 DEF PaidInv, TxOK, Begun, DoubtOK
<1>3. PICK d : d = [db EXCEPT !.epoch = @ + 1]
  OBVIOUS
<1>4. db' = d
  BY <1>3 DEF Paid!Acquire
<1>5. db \in Tables /\ run \in [Runs -> RunRecords] /\ today \in Nat
  BY DEF PaidInv, PaidTypeOK
<1>6. /\ d \in Tables /\ d.epoch = db.epoch + 1 /\ d.attempt = db.attempt /\ d.job = db.job
      /\ d.fence = db.fence /\ d.receipt = db.receipt /\ d.identity = db.identity
      /\ d.result = db.result /\ d.terminal = db.terminal
  <2>1. PICK n \in Nat : n = db.epoch + 1
    BY <1>5 DEF Tables
  <2>2. d = [db EXCEPT !.epoch = n]
    BY <1>3, <2>1
  <2> QED BY <1>5, <2>1, <2>2 DEF Tables
<1>7. \A h : Same(db, d, h)
  BY <1>6 DEF Same
<1>8. TablesOK(d) /\ Claimed(d)
  <2>1. TablesOK(d)
    BY <1>7, SameOK DEF PaidInv, TablesOK
  <2> QED BY <1>6, <2>1 DEF PaidInv, Claimed
<1>9. ASSUME NEW r \in Runs
      PROVE  Stands(d, r, run[r]) /\ (run[r].pc # "idle" => run[r].epoch # live')
  <2>1. PICK q \in RunRecords : q = run[r]
    BY <1>5
  <2>2. Stands(db, r, q)
    BY <2>1 DEF PaidInv, RunOK, RunFacts
  <2>3. d.epoch \in Nat /\ db.epoch \in Nat /\ db.epoch <= d.epoch /\ db.terminal \in [Handles -> Terminals]
    BY <1>5, <1>6 DEF Tables
  <2>4. \A h \in Handles : Kept(db, d, h)
    BY <1>7, SameIsKept
  <2>5. Stands(d, r, q)
    BY <2>2, <2>3, <2>4, StandsOn
  <2>6. q.pc # "idle" => q.epoch # db.epoch + 1
    BY <2>2, <2>3 DEF Stands
  <2> QED BY <1>1, <2>1, <2>5, <2>6
<1>10. live' \in Nat /\ live' = d.epoch
  BY <1>1, <1>5, <1>6 DEF Tables
<1> QED BY <1>1, <1>2, <1>4, <1>5, <1>6, <1>8, <1>9, <1>10, TablesMove

LEMMA Admits ==
    ASSUME PaidInv, NEW h \in Handles, Paid!AdmitInitial(h)
    PROVE  PaidInv' /\ Paid!Reserved' = Paid!Reserved \cup {h}
<1>0. db \in Tables /\ run \in [Runs -> RunRecords] /\ today \in Nat /\ live \in Nat
      /\ TablesOK(db) /\ Claimed(db)
  BY DEF PaidInv, PaidTypeOK
<1>1. /\ live # 0 /\ tx = NoTx /\ tx' = tx /\ db.attempt[h] = "none"
      /\ UNCHANGED <<today, live, lock, indoubt, run, calls, spent>>
  BY DEF Paid!AdmitInitial, Paid!outside, Paid!process
<1>2. indoubt = NoTx
  BY <1>1 DEF PaidInv, DoubtOK
<1>3. PICK a : a = [db.attempt EXCEPT ![h] = "pending"]
  OBVIOUS
<1>4. PICK n : n = [db.day EXCEPT ![h] = today]
  OBVIOUS
<1>5. PICK i : i = [db.job[h] EXCEPT !.state = "queued"]
  OBVIOUS
<1>6. PICK j : j = [db.job EXCEPT ![h] = i]
  OBVIOUS
<1>7. PICK d : d = [db EXCEPT !.attempt = a, !.day = n, !.job = j]
  OBVIOUS
<1>8. db' = d
  BY <1>3, <1>4, <1>5, <1>6, <1>7 DEF Paid!AdmitInitial
<1>9. a \in [Handles -> Attempts] /\ a[h] = "pending" /\ \A k \in Handles \ {h} : a[k] = db.attempt[k]
  BY <1>0, <1>3 DEF Tables, Attempts
<1>10. n \in [Handles -> Nat]
  BY <1>0, <1>4 DEF Tables
<1>11. i \in Jobs /\ i.state = "queued" /\ i.by = db.job[h].by /\ i.epoch = db.job[h].epoch
  BY <1>0, <1>5, ZenonT(40) DEF Tables, Jobs
<1>12. j \in [Handles -> Jobs] /\ j[h] = i /\ \A k \in Handles \ {h} : j[k] = db.job[k]
  BY <1>0, <1>6, <1>11 DEF Tables
<1>13. /\ d \in Tables /\ d.epoch = db.epoch /\ d.attempt = a /\ d.job = j
       /\ d.fence = db.fence /\ d.receipt = db.receipt /\ d.identity = db.identity
       /\ d.result = db.result /\ d.terminal = db.terminal
  BY <1>0, <1>7, <1>9, <1>10, <1>12 DEF Tables
<1>14. EvidenceOK(db, h) /\ OutcomeOK(db, h) /\ db.job[h].by \notin Runs
  BY <1>0, <1>1 DEF TablesOK, EvidenceOK
<1>15. EvidenceOK(d, h) /\ OutcomeOK(d, h)
  <2>1. EvidenceOK(d, h)
    BY <1>9, <1>11, <1>12, <1>13, <1>14 DEF EvidenceOK, Succeeded
  <2>2. OutcomeOK(d, h)
    BY <1>1, <1>9, <1>13, <1>14 DEF OutcomeOK, Succeeded
  <2> QED BY <2>1, <2>2
<1>16. ASSUME NEW k \in Handles \ {h} PROVE EvidenceOK(d, k) /\ OutcomeOK(d, k)
  <2>1. Same(db, d, k)
    BY <1>9, <1>12, <1>13 DEF Same
  <2> QED BY <1>0, <2>1, SameOK DEF TablesOK
<1>17. TablesOK(d)
  BY <1>15, <1>16 DEF TablesOK
<1>18. \A k \in Handles : d.job[k].by = db.job[k].by /\ d.job[k].epoch = db.job[k].epoch
                          /\ (Open(d, k) => Open(db, k))
  BY <1>9, <1>11, <1>12, <1>13 DEF Open
<1>19. Claimed(d)
  BY <1>0, <1>18 DEF Claimed
<1>20. ASSUME NEW r \in Runs PROVE Stands(d, r, run[r]) /\ Current(d, r, run[r])
  <2>1. Stands(db, r, run[r]) /\ Current(db, r, run[r])
    BY DEF PaidInv, RunOK, RunFacts
  <2>2. CASE run[r].pc = "idle"
    BY <2>1, <2>2 DEF Stands, Current, Paid!Idle, OwnerOK, CallReady, ReplyOK, Kinds, AtWork
  <2>3. CASE run[r].pc # "idle"
    <3>1. run[r].h \in Handles
      BY <2>1, <2>3 DEF Stands
    <3>2. Stands(d, r, run[r])
      BY <1>13, <1>18, <2>1, <3>1 DEF Stands, OwnerOK, CallReady, ReplyOK
    <3>3. Current(d, r, run[r])
      BY <1>13, <1>18, <2>1, <3>1 DEF Current, LegOK, DoneOK
    <3> QED BY <3>2, <3>3
  <2> QED BY <2>2, <2>3
<1>21. live' # 0 => live' = d.epoch /\ lock'
  BY <1>1, <1>13 DEF PaidInv
<1>22. PaidInv'
  BY <1>0, <1>1, <1>2, <1>8, <1>13, <1>17, <1>19, <1>20, <1>21, TablesMove
<1>23. Paid!Reserved' = Paid!Reserved \cup {h}
  BY <1>8, <1>9, <1>13 DEF Paid!Reserved
<1> QED BY <1>22, <1>23

LEMMA ProofLost ==
    ASSUME PaidInv, NEW h \in Handles, Paid!LoseProof(h)
    PROVE  PaidInv' /\ db'.attempt = db.attempt
<1>0. db \in Tables /\ run \in [Runs -> RunRecords] /\ today \in Nat /\ live \in Nat
      /\ TablesOK(db) /\ Claimed(db)
  BY DEF PaidInv, PaidTypeOK
<1>1. /\ live # 0 /\ tx = NoTx /\ tx' = tx
      /\ UNCHANGED <<today, live, lock, indoubt, run, calls, spent>>
  BY DEF Paid!LoseProof, Paid!outside, Paid!process
<1>2. indoubt = NoTx
  BY <1>1 DEF PaidInv, DoubtOK
<1>3. PICK p : p = [db.proof EXCEPT ![h] = FALSE]
  OBVIOUS
<1>4. PICK d : d = [db EXCEPT !.proof = p]
  OBVIOUS
<1>5. db' = d
  BY <1>3, <1>4 DEF Paid!LoseProof
<1>6. p \in [Handles -> BOOLEAN]
  BY <1>0, <1>3 DEF Tables
<1>7. /\ d \in Tables /\ d.epoch = db.epoch /\ d.attempt = db.attempt /\ d.job = db.job
      /\ d.fence = db.fence /\ d.receipt = db.receipt /\ d.identity = db.identity
      /\ d.result = db.result /\ d.terminal = db.terminal
  BY <1>0, <1>4, <1>6 DEF Tables
<1>8. TablesOK(d) /\ Claimed(d)
  <2>1. \A k : Same(db, d, k)
    BY <1>7 DEF Same
  <2>2. TablesOK(d)
    BY <1>0, <2>1, SameOK DEF TablesOK
  <2> QED BY <1>0, <1>7, <2>2 DEF Claimed
<1>9. ASSUME NEW r \in Runs PROVE Stands(d, r, run[r]) /\ Current(d, r, run[r])
  <2>1. Stands(db, r, run[r]) /\ Current(db, r, run[r])
    BY DEF PaidInv, RunOK, RunFacts
  <2> QED BY <1>7, <2>1 DEF Stands, Current, OwnerOK, CallReady, ReplyOK, LegOK, DoneOK, Open
<1>10. live' # 0 => live' = d.epoch /\ lock'
  BY <1>1, <1>7 DEF PaidInv
<1>11. PaidInv'
  BY <1>0, <1>1, <1>2, <1>5, <1>7, <1>8, <1>9, <1>10, TablesMove
<1> QED BY <1>5, <1>7, <1>11

\* What the paid runs do not read.
LEMMA WorldMoves ==
    ASSUME PaidInv, UNCHANGED <<db, live, lock, tx, indoubt, run, calls, spent>>, today' \in Nat
    PROVE  PaidInv'
<1>1. PaidTypeOK'
  BY DEF PaidInv, PaidTypeOK
<1>2. (TablesOK(db) /\ Claimed(db) /\ (live # 0 => live = db.epoch /\ lock) /\ Paid!OneCallPerLeg)'
  BY DEF PaidInv, TablesOK, EvidenceOK, OutcomeOK, Claimed, Paid!OneCallPerLeg
<1>3. \A r \in Runs : RunOK(r)'
  BY DEF PaidInv, RunOK, RunFacts, Stands, Current, OwnerOK, CallReady, ReplyOK, LegOK, DoneOK
<1>4. ASSUME tx # NoTx PROVE TxOK'
  <2>1. PICK r, d, k, w : r = tx.r /\ d = tx.after /\ k = tx.ack /\ w = tx.kind
    OBVIOUS
  <2>2. Begun(r, d, k, w)
    BY <1>4, <2>1 DEF PaidInv, TxOK
  <2>3. Begun(r, d, k, w)'
    BY <2>2 DEF Begun, Successor, Kept, Same, TablesOK, EvidenceOK, OutcomeOK, Claimed, OwnerOK,
                CallReady, LegOK, ReplyOK
  <2> QED BY <2>1, <2>3 DEF TxOK
<1>5. (indoubt # NoTx => DoubtOK)'
  BY DEF PaidInv, DoubtOK, TablesOK, EvidenceOK, OutcomeOK, Claimed, Kept
<1> QED BY <1>1, <1>2, <1>3, <1>4, <1>5 DEF PaidInv

-----------------------------------------------------------------------------
(* The invariant, and what it promises.                                     *)

LEMMA PaidInit ==
    ASSUME Paid!PolicyAssumption, Paid!Init
    PROVE  PaidInv /\ SpentInv
<1>1. /\ live = 0 /\ today = 1 /\ tx = NoTx /\ indoubt = NoTx /\ spent = 0 /\ db.epoch = 0
      /\ run = [r \in Runs |-> Paid!Idle] /\ calls = [h \in Handles |-> [l \in Paid!Legs |-> 0]]
  BY DEF Paid!Init
<1>2. /\ db.attempt = [h \in Handles |-> "none"] /\ db.job = [h \in Handles |-> Paid!NoJob]
      /\ db.fence = [h \in Handles |-> [l \in Paid!Legs |-> 0]]
      /\ db.receipt = [h \in Handles |-> [l \in Paid!Legs |-> Paid!NoReceipt]]
      /\ db.identity = [h \in Handles |-> FALSE] /\ db.result = [h \in Handles |-> FALSE]
      /\ db.terminal = [h \in Handles |-> Paid!NoTerminal]
  BY DEF Paid!Init
<1>3. Paid!NoJob \in Jobs /\ Paid!NoReceipt \in Receipts /\ Paid!NoTerminal \in Terminals
  BY DEF Paid!NoJob, Paid!NoReceipt, Paid!NoTerminal, Jobs, Receipts, Terminals, Paid!Unknown
<1>4. db \in Tables
  <2>1. PICK a, n, p : a = [h \in Handles |-> "none"] /\ n = [h \in Handles |-> 0] /\ p = [h \in Handles |-> TRUE]
    OBVIOUS
  <2>2. a \in [Handles -> Attempts] /\ n \in [Handles -> Nat] /\ p \in [Handles -> BOOLEAN]
    BY <2>1 DEF Attempts
  <2>3. db = [epoch |-> 0, proof |-> p, attempt |-> a, day |-> n, job |-> db.job, fence |-> db.fence,
              receipt |-> db.receipt, identity |-> db.identity, result |-> db.result, terminal |-> db.terminal]
    BY <2>1 DEF Paid!Init
  <2>4. /\ db.job \in [Handles -> Jobs] /\ db.fence \in [Handles -> [Paid!Legs -> Nat]]
        /\ db.receipt \in [Handles -> [Paid!Legs -> Receipts]] /\ db.identity \in [Handles -> BOOLEAN]
        /\ db.result \in [Handles -> BOOLEAN] /\ db.terminal \in [Handles -> Terminals]
    BY <1>2, <1>3
  <2> QED BY <2>2, <2>3, <2>4 DEF Tables
<1>5. Paid!Idle \in RunRecords
  BY DEF Paid!Idle, RunRecords, Paid!Unknown
<1>6. PaidTypeOK
  BY <1>1, <1>4, <1>5 DEF PaidTypeOK
<1>7. TablesOK(db) /\ Claimed(db)
  <2>1. NoRun \notin Runs
    BY DEF Paid!PolicyAssumption
  <2>2. ASSUME NEW h \in Handles PROVE EvidenceOK(db, h) /\ OutcomeOK(db, h) /\ db.job[h].by = NoRun
    <3>1. /\ db.attempt[h] = "none" /\ db.job[h] = Paid!NoJob /\ db.fence[h] = [l \in Paid!Legs |-> 0]
          /\ db.receipt[h] = [l \in Paid!Legs |-> Paid!NoReceipt] /\ ~db.identity[h] /\ ~db.result[h]
          /\ db.terminal[h] = Paid!NoTerminal
      BY <1>2
    <3>2. \A l \in Paid!Legs : ~Succeeded(db, h, l) /\ db.fence[h][l] = 0
      BY <3>1 DEF Succeeded, Paid!NoReceipt
    <3>3. EvidenceOK(db, h)
      BY <2>1, <3>1, <3>2 DEF EvidenceOK, Paid!NoJob, Paid!Legs
    <3>4. OutcomeOK(db, h)
      BY <3>1 DEF OutcomeOK, Paid!NoTerminal
    <3> QED BY <3>1, <3>3, <3>4 DEF Paid!NoJob
  <2> QED BY <2>1, <2>2 DEF TablesOK, Claimed
<1>8. Paid!OneCallPerLeg
  BY <1>1 DEF Paid!OneCallPerLeg
<1>9. ASSUME NEW r \in Runs PROVE RunOK(r)
  <2>1. run[r] = Paid!Idle
    BY <1>1
  <2>2. RunFacts(r, Paid!Idle)
    BY DEF RunFacts, Stands, Current, Paid!Idle, OwnerOK, CallReady, ReplyOK, AtWork, Kinds
  <2> QED BY <2>1, <2>2 DEF RunOK
<1>10. PaidInv
  BY <1>1, <1>6, <1>7, <1>8, <1>9 DEF PaidInv
<1>11. Paid!Reserved = {} /\ Called = {}
  BY <1>1, <1>2 DEF Paid!Reserved, Called
<1>12. SpentInv
  BY <1>1, <1>11, FS_EmptySet DEF SpentInv, Paid!PolicyAssumption
<1> QED BY <1>10, <1>12

\* Only a call is charged, and only an admission reserves.
LEMMA Charged ==
    ASSUME PaidInv, UNCHANGED <<calls, spent>>, SpentInv,
           Paid!Reserved' = Paid!Reserved \/ \E h : Paid!Reserved' = Paid!Reserved \cup {h}
    PROVE  SpentInv'
<1>1. IsFiniteSet(Paid!Reserved')
  BY FS_AddElement DEF SpentInv
<1>2. Called' = Called
  BY DEF Called
<1> QED BY <1>1, <1>2 DEF SpentInv

LEMMA SameReserved ==
    ASSUME NEW d, db' = d, \A h \in Handles : d.attempt[h] = "none" <=> db.attempt[h] = "none"
    PROVE  Paid!Reserved' = Paid!Reserved
BY DEF Paid!Reserved

\* A call is charged at most half of what its attempt has reserved.
LEMMA CallCharged ==
    ASSUME PaidInv, SpentInv, Paid!PolicyAssumption, NEW r \in Runs, Paid!Call(r)
    PROVE  SpentInv'
<1>1. PICK h \in Handles, l \in Paid!Legs, c \in Charges :
         calls[h][l] = 0 /\ calls' = [calls EXCEPT ![h][l] = 1] /\ spent' = spent + c
  BY CallsOnce
<1>2. calls \in [Handles -> [Paid!Legs -> Nat]] /\ spent \in Nat /\ c \in Nat /\ Reservation \in Nat /\ 2 * c <= Reservation
  BY DEF PaidInv, PaidTypeOK, Paid!PolicyAssumption
<1>3. ASSUME NEW x \in Handles, NEW y \in Paid!Legs
      PROVE  calls'[x][y] # 0 <=> calls[x][y] # 0 \/ <<x, y>> = <<h, l>>
  BY <1>1, <1>2
<1>4. Called' = Called \cup {<<h, l>>} /\ <<h, l>> \notin Called
  <2>1. Called' = {e \in Handles \X Paid!Legs : calls'[e[1]][e[2]] # 0}
    BY DEF Called
  <2>2. ASSUME NEW e \in Handles \X Paid!Legs
        PROVE  calls'[e[1]][e[2]] # 0 <=> calls[e[1]][e[2]] # 0 \/ e = <<h, l>>
    BY <1>3
  <2> QED BY <1>1, <2>1, <2>2 DEF Called
<1>5. IsFiniteSet(Called') /\ Cardinality(Called') = Cardinality(Called) + 1 /\ Cardinality(Called) \in Nat
  BY <1>4, FS_AddElement, FS_CardinalityType DEF SpentInv
<1>6. PICK n \in Nat, s \in Nat : n = Cardinality(Called) /\ s = spent
  BY <1>2, <1>5
<1>7. 2 * s <= Reservation * n
  BY <1>6 DEF SpentInv
<1>8. Reservation * (n + 1) = Reservation * n + Reservation
  BY <1>2
<1>9. 2 * (s + c) <= Reservation * (n + 1)
  BY <1>2, <1>7, <1>8
<1>10. Paid!Reserved' = Paid!Reserved
  BY DEF Paid!Call, Paid!Reserved
<1> QED BY <1>1, <1>5, <1>6, <1>9, <1>10 DEF SpentInv

LEMMA WorkKeeps ==
    ASSUME PaidInv, SpentInv, Paid!PolicyAssumption, NEW r \in Runs, Paid!WorkStep(r)
    PROVE  PaidInv' /\ SpentInv'
<1>1. CASE Paid!Call(r)
  BY <1>1, CallsOnce, CallCharged
<1>2. ASSUME ~Paid!Call(r) PROVE UNCHANGED <<db, calls, spent>>
  BY <1>2 DEF Paid!WorkStep, Paid!Claim, Paid!BeforeDispatch, Paid!RecordReceipt, Paid!RecordIdentity,
              Paid!Accept, Paid!Abstain, Paid!Answer, Paid!Stops, Paid!Catch, Paid!Settle, Paid!Rejects,
              Paid!Begin, Paid!Local
<1>3. ASSUME ~Paid!Call(r) PROVE SpentInv'
  BY <1>2, <1>3, Charged DEF Paid!Reserved
<1>4. CASE Paid!Claim(r)
  BY <1>1, <1>3, <1>4, Claims
<1>5. CASE Paid!BeforeDispatch(r)
  BY <1>1, <1>3, <1>5, Dispatches
<1>6. CASE Paid!RecordReceipt(r)
  BY <1>1, <1>3, <1>6, Receipt
<1>7. CASE Paid!RecordIdentity(r)
  BY <1>1, <1>3, <1>7, Identity
<1>8. CASE Paid!Accept(r)
  BY <1>1, <1>3, <1>8, Accepts
<1>9. CASE Paid!Abstain(r)
  BY <1>1, <1>3, <1>9, Abstains
<1>10. CASE Paid!Answer(r)
  BY <1>1, <1>3, <1>10, Answers
<1>11. CASE Paid!Stops(r)
  BY <1>1, <1>3, <1>11, Stopping
<1>12. CASE Paid!Catch(r)
  BY <1>1, <1>3, <1>12, Catches
<1>13. CASE Paid!Settle(r)
  BY <1>1, <1>3, <1>13, Settles
<1>14. CASE Paid!Rejects(r)
  BY <1>1, <1>3, <1>14, RejectsAtEnd
<1> QED BY <1>1, <1>4, <1>5, <1>6, <1>7, <1>8, <1>9, <1>10, <1>11, <1>12, <1>13, <1>14 DEF Paid!WorkStep

LEMMA PaidStep ==
    ASSUME PaidInv, SpentInv, Paid!PolicyAssumption, Paid!Next \/ UNCHANGED PaidVars
    PROVE  PaidInv' /\ SpentInv'
<1>1. CASE Paid!Acquire
  <2>1. PICK d : db' = d
    OBVIOUS
  <2>2. UNCHANGED <<calls, spent>> /\ d.attempt = db.attempt
    BY <1>1, <2>1 DEF Paid!Acquire, PaidInv, PaidTypeOK, Tables
  <2>3. Paid!Reserved' = Paid!Reserved
    BY <2>1, <2>2, SameReserved
  <2> QED BY <1>1, <2>2, <2>3, Acquires, Charged
<1>2. CASE Paid!SendCommit
  <2>1. UNCHANGED <<db, calls, spent>>
    BY <1>2 DEF Paid!SendCommit
  <2> QED BY <1>2, <2>1, Sends, Charged DEF Paid!Reserved
<1>3. CASE Paid!Acknowledge
  <2>1. PICK r, d, k, w : Begun(r, d, k, w) /\ db' = d
    BY <1>3 DEF Paid!Acknowledge, PaidInv, TxOK
  <2>2. UNCHANGED <<calls, spent>> /\ \A h \in Handles : d.attempt[h] = "none" <=> db.attempt[h] = "none"
    BY <1>3, <2>1 DEF Paid!Acknowledge, Begun, Successor, Kept
  <2>3. Paid!Reserved' = Paid!Reserved
    BY <2>1, <2>2, SameReserved
  <2> QED BY <1>3, <2>2, <2>3, Acknowledges, Charged
<1>4. CASE Paid!GuardFails
  <2>1. UNCHANGED <<db, calls, spent>>
    BY <1>4 DEF Paid!GuardFails
  <2> QED BY <1>4, <2>1, GuardCatches, Charged DEF Paid!Reserved
<1>5. CASE Paid!LoseLink
  <2>1. UNCHANGED <<db, calls, spent>>
    BY <1>5 DEF Paid!LoseLink
  <2> QED BY <1>5, <2>1, LinkLost, Charged DEF Paid!Reserved
<1>6. CASE Paid!SessionEnds
  <2>1. PICK d : db' = d
    OBVIOUS
  <2>2. UNCHANGED <<calls, spent>> /\ (d = db \/ (indoubt # NoTx /\ d = indoubt))
    BY <1>6, <2>1 DEF Paid!SessionEnds
  <2>3. \A h \in Handles : d.attempt[h] = "none" <=> db.attempt[h] = "none"
    BY <2>2 DEF PaidInv, DoubtOK, Kept
  <2>4. Paid!Reserved' = Paid!Reserved
    BY <2>1, <2>3, SameReserved
  <2> QED BY <1>6, <2>2, <2>4, Ends, Charged
<1>7. CASE Paid!Crash
  <2>1. UNCHANGED <<db, calls, spent>>
    BY <1>7 DEF Paid!Crash
  <2> QED BY <1>7, <2>1, Dies, Charged DEF Paid!Reserved
<1>8. CASE Paid!SwitchPolicy \/ Paid!NextDay \/ UNCHANGED PaidVars
  <2>1. UNCHANGED <<db, live, lock, tx, indoubt, run, calls, spent>> /\ today' \in {today, today + 1}
    BY <1>8 DEF Paid!SwitchPolicy, Paid!NextDay, PaidVars, Paid!process
  <2>2. today' \in Nat
    BY <2>1 DEF PaidInv, PaidTypeOK
  <2> QED BY <2>1, <2>2, WorldMoves, Charged DEF Paid!Reserved
<1>9. ASSUME NEW h \in Handles, Paid!AdmitInitial(h) PROVE PaidInv' /\ SpentInv'
  <2>1. UNCHANGED <<calls, spent>>
    BY <1>9 DEF Paid!AdmitInitial
  <2> QED BY <1>9, <2>1, Admits, Charged
<1>10. ASSUME NEW h \in Handles, Paid!LoseProof(h) PROVE PaidInv' /\ SpentInv'
  <2>1. UNCHANGED <<calls, spent>>
    BY <1>10 DEF Paid!LoseProof
  <2>2. Paid!Reserved' = Paid!Reserved
    BY <1>10, ProofLost DEF Paid!Reserved
  <2> QED BY <1>10, <2>1, <2>2, ProofLost, Charged
<1>11. ASSUME NEW h \in Handles, NEW r \in Runs, Paid!Start(r, h) PROVE PaidInv' /\ SpentInv'
  <2>1. UNCHANGED <<db, calls, spent>>
    BY <1>11 DEF Paid!Start, Paid!Local
  <2> QED BY <1>11, <2>1, Starts, Charged DEF Paid!Reserved
<1>12. ASSUME NEW r \in Runs, Paid!Expire(r) PROVE PaidInv' /\ SpentInv'
  <2>1. UNCHANGED <<db, calls, spent>>
    BY <1>12 DEF Paid!Expire, Paid!Local
  <2> QED BY <1>12, <2>1, Expires, Charged DEF Paid!Reserved
<1>13. ASSUME NEW r \in Runs, Paid!Cleanup(r) PROVE PaidInv' /\ SpentInv'
  <2>1. UNCHANGED <<db, calls, spent>>
    BY <1>13 DEF Paid!Cleanup, Paid!Begin, Paid!Local
  <2> QED BY <1>13, <2>1, CleansUp, Charged DEF Paid!Reserved
<1> QED BY <1>1, <1>2, <1>3, <1>4, <1>5, <1>6, <1>7, <1>8, <1>9, <1>10, <1>11, <1>12, <1>13, WorkKeeps DEF Paid!Next

\* What was called is within what was reserved.
LEMMA CalledWhatIsReserved ==
    ASSUME PaidInv, SpentInv, Paid!PolicyAssumption
    PROVE  SpentAsReserved
<1>1. Called \subseteq Paid!Reserved \X Paid!Legs
  <2>1. ASSUME NEW h \in Handles, NEW l \in Paid!Legs, calls[h][l] # 0 PROVE h \in Paid!Reserved
    <3>1. calls[h][l] \in Nat /\ calls[h][l] <= 1 /\ (calls[h][l] = 1 => db.fence[h][l] # 0)
      BY DEF PaidInv, PaidTypeOK, Paid!OneCallPerLeg
    <3>2. db.fence[h][l] # 0
      BY <2>1, <3>1
    <3>3. EvidenceOK(db, h)
      BY DEF PaidInv, TablesOK
    <3>4. db.attempt[h] # "none"
      BY <3>2, <3>3 DEF EvidenceOK, Paid!Legs
    <3> QED BY <3>4 DEF Paid!Reserved
  <2> QED BY <2>1 DEF Called
<1>2. IsFiniteSet(Paid!Legs) /\ Cardinality(Paid!Legs) = 2
  <2>1. Paid!Legs = {"x"} \cup {"grok"} /\ "grok" \notin {"x"}
    BY DEF Paid!Legs
  <2>2. IsFiniteSet({"x"}) /\ Cardinality({"x"}) = 1
    BY FS_Singleton
  <2> QED BY <2>1, <2>2, FS_AddElement
<1>3. PICK n, m, s : n = Cardinality(Paid!Reserved) /\ m = Cardinality(Called) /\ s = spent
  OBVIOUS
<1>4. n \in Nat /\ m \in Nat /\ s \in Nat /\ Reservation \in Nat
  BY <1>3, FS_CardinalityType DEF SpentInv, PaidInv, PaidTypeOK, Paid!PolicyAssumption
<1>5. /\ IsFiniteSet(Paid!Reserved \X Paid!Legs)
      /\ Cardinality(Paid!Reserved \X Paid!Legs) = Cardinality(Paid!Reserved) * Cardinality(Paid!Legs)
  BY <1>2, FS_Product DEF SpentInv
<1>6. m <= n * 2
  BY <1>1, <1>2, <1>3, <1>5, FS_Subset
<1>7. 2 * s <= Reservation * m
  BY <1>3 DEF SpentInv
<1>8. Reservation * m <= Reservation * (n * 2)
  BY <1>4, <1>6
<1>9. Reservation * (n * 2) = 2 * (Reservation * n)
  BY <1>4
<1>10. s <= Reservation * n
  <2>1. PICK k \in Int : k = Reservation * n
    BY <1>4
  <2> QED BY <1>4, <1>7, <1>8, <1>9, <2>1
<1> QED BY <1>3, <1>10 DEF SpentAsReserved

LEMMA PaidPromises ==
    ASSUME PaidInv, SpentInv, Paid!PolicyAssumption
    PROVE  SpentOnce
<1>1. Paid!OneCallPerLeg
  BY DEF PaidInv
<1>2. ASSUME NEW h \in Handles
      PROVE  EvidenceOK(db, h) /\ OutcomeOK(db, h) /\ Paid!Phase(h) = PhaseIn(db, h)
  BY AsIs DEF PaidInv, TablesOK
<1>3. Paid!TerminalMatchesEvidence
  <2>1. ASSUME NEW h \in Handles, db.terminal[h].kind # "none"
        PROVE  /\ db.terminal[h].phase = Paid!Phase(h) /\ db.attempt[h] = "closed"
               /\ db.terminal[h].kind = "blocked" => calls[h]["x"] = 0 /\ calls[h]["grok"] = 0
               /\ db.terminal[h].kind = "abstained" => Paid!Success(h, "grok") /\ db.identity[h]
               /\ db.terminal[h].kind = "invalid" => Paid!Success(h, db.terminal[h].phase)
    <3>1. EvidenceOK(db, h) /\ OutcomeOK(db, h) /\ Paid!Phase(h) = PhaseIn(db, h)
      BY <1>2
    <3>2. ASSUME PhaseIn(db, h) = "before-dispatch" PROVE calls[h]["x"] = 0 /\ calls[h]["grok"] = 0
      <4>1. db.fence[h]["x"] = 0 /\ db.fence[h]["grok"] = 0
        BY <3>2 DEF PhaseIn
      <4>2. \A l \in Paid!Legs : calls[h][l] \in Nat /\ calls[h][l] <= 1 /\ (calls[h][l] = 1 => db.fence[h][l] # 0)
        BY <1>1 DEF PaidInv, PaidTypeOK, Paid!OneCallPerLeg
      <4>3. "x" \in Paid!Legs /\ "grok" \in Paid!Legs
        BY DEF Paid!Legs
      <4> QED BY <4>1, <4>2, <4>3
    <3> QED BY <2>1, <3>1, <3>2, AsIs DEF OutcomeOK
  <2> QED BY <2>1 DEF Paid!TerminalMatchesEvidence
<1>4. Paid!AcceptedIsNotInterrupted
  <2>1. ASSUME NEW h \in Handles, db.result[h]
        PROVE  /\ db.terminal[h] = Paid!NoTerminal /\ db.attempt[h] = "accepted"
               /\ Paid!Success(h, "x") /\ Paid!Success(h, "grok") /\ db.identity[h]
    <3>1. db.attempt[h] = "accepted" /\ db.identity[h] /\ Succeeded(db, h, "grok") /\ Succeeded(db, h, "x")
      BY <1>2, <2>1 DEF OutcomeOK, EvidenceOK
    <3>2. db.terminal[h] = Paid!NoTerminal
      BY <1>2, <3>1 DEF OutcomeOK
    <3> QED BY <3>1, <3>2, AsIs
  <2> QED BY <2>1 DEF Paid!AcceptedIsNotInterrupted
<1>5. Paid!ClosedByClaimer
  BY <1>2 DEF Paid!ClosedByClaimer, OutcomeOK
<1>6. Paid!AnswersAreDurable
  <2>1. ASSUME NEW r \in Runs PROVE ReplyOK(db, run[r]) /\ run[r].reply \in Kinds \cup {"none", "accepted", "error"}
    BY DEF PaidInv, PaidTypeOK, RunRecords, RunOK, RunFacts, Stands
  <2> QED BY <2>1 DEF Paid!AnswersAreDurable, ReplyOK
<1>7. Paid!NothingLeftRunning
  <2>1. ASSUME NEW r \in Runs, run[r].cleanup = "done", run[r].epoch = live, ~run[r].broken,
               db.job[run[r].h].by = r, Paid!RunningUnder(run[r].h, live)
        PROVE  FALSE
    <3>1. Stands(db, r, run[r]) /\ Current(db, r, run[r])
      BY DEF PaidInv, RunOK, RunFacts
    <3>2. run[r].pc # "idle"
      BY <2>1, <3>1 DEF Stands, Paid!Idle
    <3>3. run[r].owned /\ DoneOK(db, run[r])
      BY <2>1, <3>1, <3>2 DEF Current
    <3>4. Open(db, run[r].h)
      BY <2>1, AsIs
    <3> QED BY <2>1, <3>3, <3>4 DEF DoneOK
  <2> QED BY <2>1 DEF Paid!NothingLeftRunning
<1> QED BY <1>1, <1>3, <1>4, <1>5, <1>6, <1>7, CalledWhatIsReserved DEF SpentOnce

(* Whatever runs, processes, lost replies and deadlines there are: money is  *)
(* spent at most once per leg and behind a durable fence, outcomes agree     *)
(* with their evidence and are recorded by the run that claimed, an answer   *)
(* is durable before it is given, and what is charged was reserved.          *)
THEOREM SpentOnceAlways == PackSpec => []SpentOnce
<1>0. Paid!PolicyAssumption
  BY DurableAssumption
<1>1. PackInit => PaidInv /\ SpentInv
  BY <1>0, PaidInit DEF PackInit
<1>2. (PaidInv /\ SpentInv) /\ [PackNext]_All => (PaidInv /\ SpentInv)'
  <2> SUFFICES ASSUME PaidInv, SpentInv, [PackNext]_All PROVE (PaidInv /\ SpentInv)'
    OBVIOUS
  <2>1. Paid!Next \/ UNCHANGED PaidVars
    BY DEF PackNext, All
  <2> QED BY <1>0, <2>1, PaidStep
<1>3. PaidInv /\ SpentInv => SpentOnce
  BY <1>0, PaidPromises
<1> QED BY <1>1, <1>2, <1>3, PTL DEF PackSpec
=============================================================================
