------------------------------- MODULE Vault -------------------------------
(***************************************************************************)
(* What the data directory of a wallet promises, without tasks, locks,     *)
(* lost calls or restarts: one seed for ever; federations are joined one   *)
(* at a time, with that seed, and are never left; and the default          *)
(* federation is one whose join is over, if only because it was cut short. *)
(***************************************************************************)
EXTENDS Naturals

CONSTANTS Federations, None

VARIABLES
    seed,      \* the seed in the mnemonic, 0 until there is one
    status,    \* each federation: "none", "open", "cut" or "joined"
    under,     \* the seed a federation was joined with
    default    \* the default federation, or None

vars == <<seed, status, under, default>>

Init ==
    /\ seed = 0
    /\ status = [f \in Federations |-> "none"]
    /\ under = [f \in Federations |-> 0]
    /\ default = None

Generate ==
    /\ seed = 0
    /\ seed' \in Nat \ {0}
    /\ UNCHANGED <<status, under, default>>

Advance(f, from, to) ==
    /\ status[f] = from
    /\ status' = [status EXCEPT ![f] = to]

Open(f) ==
    /\ seed # 0
    /\ \A g \in Federations : status[g] # "open"
    /\ Advance(f, "none", "open")
    /\ UNCHANGED <<seed, under, default>>

Join(f) ==
    /\ Advance(f, "open", "joined")
    /\ under' = [under EXCEPT ![f] = seed]
    /\ UNCHANGED <<seed, default>>

\* The join fails, or nobody is left to finish it.
Cut(f) ==
    /\ Advance(f, "open", "cut")
    /\ UNCHANGED <<seed, under, default>>

\* The file is truncated ...
Erase ==
    /\ default' = None
    /\ UNCHANGED <<seed, status, under>>

\* ... and written.
Record(f) ==
    /\ status[f] \in {"joined", "cut"}
    /\ default' = f
    /\ UNCHANGED <<seed, status, under>>

Next ==
    \/ Generate
    \/ Erase
    \/ \E f \in Federations : Open(f) \/ Join(f) \/ Cut(f) \/ Record(f)

Spec == Init /\ [][Next]_vars
=============================================================================
