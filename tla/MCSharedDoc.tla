---------------------------- MODULE MCSharedDoc ----------------------------
(* One key of the store begins with the other.  Written bare, the longer   *)
(* one would begin the contracts' keys; with the store's prefix it has the *)
(* length of a contract's key.                                             *)
EXTENDS SharedDoc
MCUserKeys == {<<>>, <<1, 255>>}
MCContracts == {[fed |-> <<1>>, contract |-> <<2>>]}
=============================================================================
