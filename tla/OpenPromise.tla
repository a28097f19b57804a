---------------------------- MODULE OpenPromise -----------------------------
(***************************************************************************)
(* What the controller may rely on when it asks for a provider             *)
(* conversation under a stable request id: an id that is pending stays     *)
(* pending until it is settled, a settled id keeps its result until the    *)
(* bounded memory of results drops it, and every pending id is settled.    *)
(***************************************************************************)
CONSTANTS Req, Result, None

VARIABLES
    pending,   \* ids that were accepted and not settled
    kept       \* [Req -> Result \cup {None}]: results remembered

vars == <<pending, kept>>

Init == pending = {} /\ kept = [r \in Req |-> None]

Ask(r) ==
    /\ r \notin pending /\ kept[r] = None
    /\ pending' = pending \cup {r}
    /\ UNCHANGED kept

\* Settling one id may make room by dropping another result.
Settled(r) ==
    /\ r \in pending
    /\ pending' = pending \ {r}
    /\ \E x \in Result, old \in SUBSET (Req \ {r}) :
          kept' = [q \in Req |-> IF q = r THEN x ELSE IF q \in old THEN None ELSE kept[q]]

\* A lost connection cancels the ids that have not begun, all at once.
SettledTogether ==
    \E S \in SUBSET pending, old \in SUBSET Req :
      /\ S \ old # {} /\ pending' = pending \ S
      /\ \E x \in [S -> Result] :
            kept' = [q \in Req |-> IF q \in old THEN None ELSE IF q \in S THEN x[q] ELSE kept[q]]

Next == (\E r \in Req : Ask(r) \/ Settled(r)) \/ SettledTogether

Spec == Init /\ [][Next]_vars /\ \A r \in Req : (r \in pending) ~> (r \notin pending)
=============================================================================
