------------------------------ MODULE Pairing ------------------------------
(***************************************************************************)
(* What the claim protocol promises, without connections, files, locks or  *)
(* failures: a machine is paired with at most one manager, for ever, only  *)
(* with a manager it agreed on together with that manager, and only the    *)
(* manager it is paired with is ever handed the machine's document.        *)
(***************************************************************************)
CONSTANTS Managers, None

VARIABLES
    agreed,    \* managers whose claim both sides accepted
    owner,     \* the manager the machine regards as its own, or None
    holders    \* managers that hold write access to the machine's document

vars == <<agreed, owner, holders>>

Init ==
    /\ agreed = {}
    /\ owner = None
    /\ holders = {}

Agree(m) ==
    /\ agreed' = agreed \cup {m}
    /\ UNCHANGED <<owner, holders>>

Pair(m) ==
    /\ owner = None
    /\ m \in agreed
    /\ owner' = m
    /\ UNCHANGED <<agreed, holders>>

Grant(m) ==
    /\ owner = m
    /\ holders' = holders \cup {m}
    /\ UNCHANGED <<agreed, owner>>

\* A manager whose disk fails may lose its copy; it stays the owner.
Lose(m) ==
    /\ holders' = holders \ {m}
    /\ UNCHANGED <<agreed, owner>>

Next == \E m \in Managers : Agree(m) \/ Pair(m) \/ Grant(m) \/ Lose(m)

Spec == Init /\ [][Next]_vars
=============================================================================
