------------------------------ MODULE Rollout ------------------------------
(***************************************************************************)
(* What the configuration sync promises, without locks, listings, errors   *)
(* or restarts: a machine only ever gets a federation that was recorded as *)
(* the default, from an update that started while it was.  Updates may     *)
(* overlap, so the order is not promised.                                  *)
(***************************************************************************)
CONSTANTS Machines, Federations, None

VARIABLES
    chosen,    \* the recorded default federation, or None
    working,   \* the federations updates under way work on
    sent,      \* each machine's federation in the manager's replica
    held       \* ... and in the machine's

vars == <<chosen, working, sent, held>>

Init ==
    /\ chosen = None
    /\ working = {}
    /\ sent = [m \in Machines |-> None]
    /\ held = [m \in Machines |-> None]

Choose(f) ==
    /\ chosen' = f
    /\ UNCHANGED <<working, sent, held>>

\* The file is truncated.
Forget ==
    /\ chosen' = None
    /\ UNCHANGED <<working, sent, held>>

Start ==
    /\ chosen # None
    /\ working' = working \cup {chosen}
    /\ UNCHANGED <<chosen, sent, held>>

\* Updates end, or are cut short: all of them when the manager restarts.
End ==
    /\ working' \subseteq working
    /\ UNCHANGED <<chosen, sent, held>>

Send(m) ==
    /\ \E f \in working : sent' = [sent EXCEPT ![m] = f]
    /\ UNCHANGED <<chosen, working, held>>

Reach(m) ==
    /\ held' = [held EXCEPT ![m] = sent[m]]
    /\ UNCHANGED <<chosen, working, sent>>

Next ==
    \/ \E f \in Federations : Choose(f)
    \/ Forget
    \/ Start
    \/ End
    \/ \E m \in Machines : Send(m) \/ Reach(m)

Spec == Init /\ [][Next]_vars
=============================================================================
