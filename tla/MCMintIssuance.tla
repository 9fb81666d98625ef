--------------------------- MODULE MCMintIssuance ----------------------------
(***************************************************************************)
(* MintIssuance for TLC: a behaviour is one of three small sites.  In      *)
(* "session" one browser with two wallets is challenged again and again;   *)
(* in "race" two browsers mint one handle through two calls in flight; in  *)
(* "operators" the contract's roles act and the process may die.           *)
(***************************************************************************)
EXTENDS MintIssuance, TLC

CONSTANTS
    h1, s1, s2, s3, c1, c2, c3, k1, k2, w1, w2, ours, theirs

VARIABLE part    \* which of them this behaviour is of

BrowserSymmetry == Permutations({s1, s2}) \cup Permutations({c1, c2}) \cup Permutations(Calls)

Race == INSTANCE MintIssuance WITH
    Wallets <- {w1}, Keys <- {ours}, Sessions <- {s1, s2}, Codes <- {c1, c2},
    Scopes <- {AnyCode}, Operators <- {}, MaxTime <- 3, MaxGeneration <- 1,
    MaxFaults <- 0
Operated == INSTANCE MintIssuance WITH
    Wallets <- {w1}, Scopes <- {AnyCode},
    Operators <- {"authorizer manager", "nonce revoker", "pauser"},
    MaxTime <- 3, MaxGeneration <- 1, MaxFaults <- 1


All == <<part, vars>>

PackInit ==
    /\ part \in {"session", "race", "operators"}
    /\ \/ part \notin {"race", "operators"} /\ Init
       \/ part = "race" /\ Race!Init
       \/ part = "operators" /\ Operated!Init

PackNext ==
    \/ part = "session" /\ Next /\ UNCHANGED part
    \/ part = "race" /\ Race!Next /\ UNCHANGED part
    \/ part = "operators" /\ Operated!Next /\ UNCHANGED part

PackSpec == PackInit /\ [][PackNext]_All

==============================================================================
