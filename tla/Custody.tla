------------------------------ MODULE Custody ------------------------------
(***************************************************************************)
(* What the payment path promises: a paid contract is always somewhere.    *)
(* It moves from the machine's wallet to the shared document to the        *)
(* manager's wallet, never back and never out of sight.                    *)
(***************************************************************************)
CONSTANT Contracts

VARIABLE where    \* who has each contract

Init == where = [k \in Contracts |-> "unpaid"]

Move(k, from, to) ==
    /\ where[k] = from
    /\ where' = [where EXCEPT ![k] = to]

Receive(k) == Move(k, "unpaid", "machine")
Share(k) == Move(k, "machine", "shared")
Credit(k) == Move(k, "shared", "manager")

Next == \E k \in Contracts : Receive(k) \/ Share(k) \/ Credit(k)

Spec == Init /\ [][Next]_where
=============================================================================
