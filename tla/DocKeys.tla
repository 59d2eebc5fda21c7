------------------------------- MODULE DocKeys -------------------------------
(***************************************************************************)
(* The keys of the entries of a machine's document: sequences of bytes in  *)
(* three namespaces (vendimint_iroh/shared.rs).  Federation and contract   *)
(* identifiers are hashes of IdLen bytes, 32 in the program.               *)
(***************************************************************************)
EXTENDS Integers, Sequences, SequencesExt

CONSTANT IdLen

ASSUME IdLenAssumption == IdLen \in Nat

Byte == 0..255
Id == [1..IdLen -> Byte]

CLAIMABLE_CONTRACT_PREFIX == <<1, 255>>
MACHINE_CONFIG_KEY == <<2, 255>>
KV_PREFIX == <<3, 255>>

\* Mutant of ContractKey: the contract comes first.
ContractKeySwapped(f, c) == CLAIMABLE_CONTRACT_PREFIX \o c \o f

ContractKey(f, c) == CLAIMABLE_CONTRACT_PREFIX \o f \o c

\* Does parse_incoming_contract_machine_doc_key accept the key?
IsContractKey(k) ==
    /\ Len(k) = 2 + 2 * IdLen
    /\ IsPrefix(CLAIMABLE_CONTRACT_PREFIX, k)

ParseContractKey(k) ==
    [fed |-> SubSeq(k, 3, 2 + IdLen),
     contract |-> SubSeq(k, 3 + IdLen, 2 + 2 * IdLen)]

FullKey(u) == KV_PREFIX \o u

\* The caller's part of a key.
UserKey(k) ==
    IF IsPrefix(KV_PREFIX, k) THEN SubSeq(k, 1 + Len(KV_PREFIX), Len(k)) ELSE k
=============================================================================
