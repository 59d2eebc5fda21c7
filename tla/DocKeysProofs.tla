--------------------------- MODULE DocKeysProofs ---------------------------
(***************************************************************************)
(* The layout of the keys: what each parser returns for the keys the other *)
(* side builds, and that the three namespaces are apart.                   *)
(***************************************************************************)
EXTENDS DocKeys, SequenceTheorems, TLAPS

LEMMA IdIsSeq == \A f \in Id : f \in Seq(Byte) /\ Len(f) = IdLen
  BY IdLenAssumption DEF Id

LEMMA Joined ==
  \A s, t \in Seq(Byte) :
    /\ s \o t \in Seq(Byte) /\ Len(s \o t) = Len(s) + Len(t)
    /\ \A i \in 1..Len(s) : (s \o t)[i] = s[i]
    /\ \A i \in 1..Len(t) : (s \o t)[Len(s) + i] = t[i]
<1> SUFFICES ASSUME NEW s \in Seq(Byte), NEW t \in Seq(Byte)
             PROVE  /\ s \o t \in Seq(Byte) /\ Len(s \o t) = Len(s) + Len(t)
                    /\ \A i \in 1..Len(s) : (s \o t)[i] = s[i]
                    /\ \A i \in 1..Len(t) : (s \o t)[Len(s) + i] = t[i]
  OBVIOUS
<1>1. Len(s) \in Nat /\ Len(t) \in Nat
  BY LenProperties
<1>2. /\ s \o t \in Seq(Byte) /\ Len(s \o t) = Len(s) + Len(t)
      /\ \A i \in 1..(Len(s) + Len(t)) :
           (s \o t)[i] = IF i <= Len(s) THEN s[i] ELSE t[i - Len(s)]
  BY ConcatProperties
<1>3. \A i \in 1..Len(t) : (s \o t)[Len(s) + i] = t[i]
  <2> SUFFICES ASSUME NEW i \in 1..Len(t)
               PROVE  (s \o t)[Len(s) + i] = t[i]
    OBVIOUS
  <2>1. /\ Len(s) + i \in 1..(Len(s) + Len(t))
        /\ ~(Len(s) + i <= Len(s)) /\ (Len(s) + i) - Len(s) = i
    BY <1>1
  <2> QED BY <2>1, <1>2
<1> QED BY <1>1, <1>2, <1>3

LEMMA Cut ==
  ASSUME NEW k \in Seq(Byte), NEW n \in Nat, NEW m \in Nat,
         n + m <= Len(k)
  PROVE  /\ SubSeq(k, n + 1, n + m) \in Seq(Byte)
         /\ Len(SubSeq(k, n + 1, n + m)) = m
         /\ \A i \in 1..m : SubSeq(k, n + 1, n + m)[i] = k[n + i]
  BY LenProperties

LEMMA SameBytes ==
  ASSUME NEW s \in Seq(Byte), NEW t \in Seq(Byte), Len(s) = Len(t),
         \A i \in 1..Len(s) : s[i] = t[i]
  PROVE  s = t
  BY SeqEqual

(***************************************************************************)
(* Read byte by byte.                                                      *)
(***************************************************************************)
LEMMA ContractKeyBytes ==
  ASSUME NEW f \in Id, NEW c \in Id
  PROVE  /\ ContractKey(f, c) \in Seq(Byte)
         /\ Len(ContractKey(f, c)) = 2 + 2 * IdLen
         /\ ContractKey(f, c)[1] = 1 /\ ContractKey(f, c)[2] = 255
         /\ \A i \in 1..IdLen : ContractKey(f, c)[2 + i] = f[i]
         /\ \A i \in 1..IdLen : ContractKey(f, c)[2 + IdLen + i] = c[i]
<1> DEFINE p == <<1, 255>>
<1>1. f \in Seq(Byte) /\ Len(f) = IdLen /\ c \in Seq(Byte) /\ Len(c) = IdLen
  BY IdIsSeq
<1>2. p \in Seq(Byte) /\ Len(p) = 2 /\ p[1] = 1 /\ p[2] = 255
  BY DEF Byte
<1> HIDE DEF p
<1>3. /\ p \o f \in Seq(Byte) /\ Len(p \o f) = 2 + IdLen
      /\ (p \o f)[1] = 1 /\ (p \o f)[2] = 255
      /\ \A i \in 1..IdLen : (p \o f)[2 + i] = f[i]
  <2>0. p \in Seq(Byte) /\ f \in Seq(Byte)
    BY <1>1, <1>2
  <2>1. /\ p \o f \in Seq(Byte) /\ Len(p \o f) = Len(p) + Len(f)
        /\ \A i \in 1..Len(p) : (p \o f)[i] = p[i]
        /\ \A i \in 1..Len(f) : (p \o f)[Len(p) + i] = f[i]
    BY <2>0, Joined
  <2> QED BY <2>1, <1>1, <1>2, IdLenAssumption
<1> DEFINE q == p \o f
<1>4. /\ q \in Seq(Byte) /\ Len(q) = 2 + IdLen
      /\ q[1] = 1 /\ q[2] = 255
      /\ \A i \in 1..IdLen : q[2 + i] = f[i]
  BY <1>3
<1> HIDE DEF q
<1>5. /\ q \o c \in Seq(Byte) /\ Len(q \o c) = 2 + 2 * IdLen
      /\ \A i \in 1..(2 + IdLen) : (q \o c)[i] = q[i]
      /\ \A i \in 1..IdLen : (q \o c)[2 + IdLen + i] = c[i]
  <2>0. q \in Seq(Byte) /\ c \in Seq(Byte)
    BY <1>1, <1>4
  <2>1. /\ q \o c \in Seq(Byte) /\ Len(q \o c) = Len(q) + Len(c)
        /\ \A i \in 1..Len(q) : (q \o c)[i] = q[i]
        /\ \A i \in 1..Len(c) : (q \o c)[Len(q) + i] = c[i]
    BY <2>0, Joined
  <2>2. Len(q) = 2 + IdLen /\ Len(c) = IdLen /\ q \in Seq(Byte)
    BY <1>1, <1>4
  <2> QED BY <2>1, <2>2, IdLenAssumption
<1>6. ContractKey(f, c) = q \o c
  BY DEF ContractKey, CLAIMABLE_CONTRACT_PREFIX, p, q
<1> QED BY <1>4, <1>5, <1>6, IdLenAssumption

LEMMA PrefixBytes ==
  ASSUME NEW k \in Seq(Byte), NEW a, NEW b
  PROVE  IsPrefix(<<a, b>>, k) <=> Len(k) >= 2 /\ k[1] = a /\ k[2] = b
<1>1. CASE Len(k) < 2
  BY <1>1 DEF IsPrefix
<1>2. CASE Len(k) >= 2
  <2>1. SubSeq(k, 1, 2) \in Seq(Byte) /\ Len(SubSeq(k, 1, 2)) = 2
        /\ SubSeq(k, 1, 2)[1] = k[1] /\ SubSeq(k, 1, 2)[2] = k[2]
    BY <1>2
  <2>2. SubSeq(<<a, b>>, 1, 2) = <<a, b>>
    BY SubSeqFull, <<a, b>> \in Seq({a, b}), Len(<<a, b>>) = 2
  <2>3. ASSUME SubSeq(k, 1, 2) = <<a, b>>
        PROVE  k[1] = a /\ k[2] = b
    <3>1. <<a, b>>[1] = a /\ <<a, b>>[2] = b
      OBVIOUS
    <3> QED BY <2>1, <2>3, <3>1
  <2>4. ASSUME k[1] = a, k[2] = b
        PROVE  SubSeq(k, 1, 2) = <<a, b>>
    <3>1. a \in Byte /\ b \in Byte
      BY <1>2, <2>4, ElementOfSeq
    <3>2. /\ <<a, b>> \in Seq(Byte) /\ Len(<<a, b>>) = 2
          /\ <<a, b>>[1] = a /\ <<a, b>>[2] = b
      BY <3>1
    <3>3. \A i \in 1..2 : i = 1 \/ i = 2
      OBVIOUS
    <3>4. \A i \in 1..2 : SubSeq(k, 1, 2)[i] = <<a, b>>[i]
      BY <2>1, <2>4, <3>2, <3>3
    <3> QED BY <2>1, <3>2, <3>4, SameBytes
  <2>5. Len(<<a, b>>) = 2
    OBVIOUS
  <2> QED BY <1>2, <2>2, <2>3, <2>4, <2>5 DEF IsPrefix
<1> QED BY <1>1, <1>2

(***************************************************************************)
(* Beginnings of keys.                                                     *)
(***************************************************************************)
LEMMA PrefixPointwise ==
  ASSUME NEW s \in Seq(Byte), NEW t \in Seq(Byte)
  PROVE  IsPrefix(s, t) <=> /\ Len(s) <= Len(t)
                            /\ \A i \in 1..Len(s) : s[i] = t[i]
<1>1. CASE ~(Len(s) <= Len(t))
  BY <1>1 DEF IsPrefix
<1>2. CASE Len(s) <= Len(t)
  <2> DEFINE u == SubSeq(t, 1, Len(s))
  <2>1. Len(s) \in Nat /\ Len(t) \in Nat
    BY LenProperties
  <2>2. /\ u \in Seq(Byte) /\ Len(u) = Len(s)
        /\ \A i \in 1..Len(s) : u[i] = t[i]
    BY <1>2, <2>1
  <2>3. SubSeq(s, 1, Len(s)) = s
    BY SubSeqFull
  <2> HIDE DEF u
  <2>4. (\A i \in 1..Len(s) : s[i] = t[i]) => s = u
    BY <2>2, SameBytes
  <2>5. IsPrefix(s, t) <=> s = u
    BY <1>2, <2>3 DEF IsPrefix, u
  <2> QED BY <1>2, <2>2, <2>4, <2>5
<1> QED BY <1>1, <1>2

LEMMA PrefixReflexive == \A s \in Seq(Byte) : IsPrefix(s, s)
<1> SUFFICES ASSUME NEW s \in Seq(Byte) PROVE IsPrefix(s, s)
  OBVIOUS
<1>1. Len(s) \in Nat
  BY LenProperties
<1> QED BY <1>1, PrefixPointwise

LEMMA PrefixTransitive ==
  ASSUME NEW s \in Seq(Byte), NEW t \in Seq(Byte), NEW u \in Seq(Byte),
         IsPrefix(s, t), IsPrefix(t, u)
  PROVE  IsPrefix(s, u)
<1>1. Len(s) \in Nat /\ Len(t) \in Nat /\ Len(u) \in Nat
  BY LenProperties
<1>2. Len(s) <= Len(t) /\ \A i \in 1..Len(s) : s[i] = t[i]
  BY PrefixPointwise
<1>3. Len(t) <= Len(u) /\ \A i \in 1..Len(t) : t[i] = u[i]
  BY PrefixPointwise
<1>4. \A i \in 1..Len(s) : i \in 1..Len(t)
  BY <1>1, <1>2
<1>5. Len(s) <= Len(u) /\ \A i \in 1..Len(s) : s[i] = u[i]
  BY <1>1, <1>2, <1>3, <1>4
<1> QED BY <1>5, PrefixPointwise

\* The first two bytes tell the namespace, and a longer key has them too.
LEMMA PrefixNamespace ==
  ASSUME NEW s \in Seq(Byte), NEW t \in Seq(Byte), Len(s) >= 2,
         IsPrefix(s, t), NEW a, NEW b
  PROVE  IsPrefix(<<a, b>>, s) <=> IsPrefix(<<a, b>>, t)
<1>1. Len(s) \in Nat /\ Len(t) \in Nat
  BY LenProperties
<1>2. Len(s) <= Len(t) /\ \A i \in 1..Len(s) : s[i] = t[i]
  BY PrefixPointwise
<1>3. Len(t) >= 2 /\ s[1] = t[1] /\ s[2] = t[2]
  BY <1>1, <1>2
<1> QED BY <1>3, PrefixBytes

(***************************************************************************)
(* parse_incoming_contract_machine_doc_key accepts every key               *)
(* create_claimable_contract_machine_doc_key builds, and returns what it   *)
(* was built from.                                                         *)
(***************************************************************************)
THEOREM ParseAfterCreate ==
  \A f, c \in Id : /\ IsContractKey(ContractKey(f, c))
                   /\ ParseContractKey(ContractKey(f, c))
                        = [fed |-> f, contract |-> c]
<1> SUFFICES ASSUME NEW f \in Id, NEW c \in Id
             PROVE  /\ IsContractKey(ContractKey(f, c))
                    /\ ParseContractKey(ContractKey(f, c))
                         = [fed |-> f, contract |-> c]
  OBVIOUS
<1> DEFINE k == ContractKey(f, c)
<1>1. /\ k \in Seq(Byte) /\ Len(k) = 2 + 2 * IdLen
      /\ k[1] = 1 /\ k[2] = 255
      /\ \A i \in 1..IdLen : k[2 + i] = f[i]
      /\ \A i \in 1..IdLen : k[2 + IdLen + i] = c[i]
  BY ContractKeyBytes
<1> HIDE DEF k
<1>2. IsContractKey(k)
  <2>1. Len(k) >= 2
    BY <1>1, IdLenAssumption
  <2>2. IsPrefix(<<1, 255>>, k)
    BY <1>1, <2>1, PrefixBytes
  <2> QED BY <1>1, <2>2 DEF IsContractKey, CLAIMABLE_CONTRACT_PREFIX
<1>3. /\ f \in Seq(Byte) /\ Len(f) = IdLen
      /\ c \in Seq(Byte) /\ Len(c) = IdLen
  BY IdIsSeq
<1>4. SubSeq(k, 3, 2 + IdLen) = f
  <2>1. /\ SubSeq(k, 3, 2 + IdLen) \in Seq(Byte)
        /\ Len(SubSeq(k, 3, 2 + IdLen)) = IdLen
        /\ \A i \in 1..IdLen : SubSeq(k, 3, 2 + IdLen)[i] = k[2 + i]
    BY <1>1, IdLenAssumption
  <2> QED BY <2>1, <1>1, <1>3, SameBytes
<1>5. SubSeq(k, 3 + IdLen, 2 + 2 * IdLen) = c
  <2>1. /\ SubSeq(k, 3 + IdLen, 2 + 2 * IdLen) \in Seq(Byte)
        /\ Len(SubSeq(k, 3 + IdLen, 2 + 2 * IdLen)) = IdLen
        /\ \A i \in 1..IdLen :
             SubSeq(k, 3 + IdLen, 2 + 2 * IdLen)[i] = k[2 + IdLen + i]
    BY <1>1, IdLenAssumption
  <2>2. \A i \in 1..IdLen : SubSeq(k, 3 + IdLen, 2 + 2 * IdLen)[i] = c[i]
    BY <2>1, <1>1
  <2> QED BY <2>1, <2>2, <1>3, SameBytes
<1> QED BY <1>2, <1>4, <1>5 DEF ParseContractKey, k

(***************************************************************************)
(* One key of the store begins another as the caller's keys do.            *)
(***************************************************************************)
LEMMA FullKeyBytes ==
  ASSUME NEW u \in Seq(Byte)
  PROVE  /\ FullKey(u) \in Seq(Byte) /\ Len(FullKey(u)) = 2 + Len(u)
         /\ FullKey(u)[1] = 3 /\ FullKey(u)[2] = 255
         /\ \A i \in 1..Len(u) : FullKey(u)[2 + i] = u[i]
<1>1. <<3, 255>> \in Seq(Byte)
  BY DEF Byte
<1> QED BY <1>1 DEF FullKey, KV_PREFIX

LEMMA FullKeyPrefix ==
  ASSUME NEW u \in Seq(Byte), NEW v \in Seq(Byte),
         IsPrefix(FullKey(u), FullKey(v))
  PROVE  IsPrefix(u, v)
<1>1. /\ FullKey(u) \in Seq(Byte) /\ Len(FullKey(u)) = 2 + Len(u)
      /\ \A i \in 1..Len(u) : FullKey(u)[2 + i] = u[i]
  BY FullKeyBytes
<1>2. /\ FullKey(v) \in Seq(Byte) /\ Len(FullKey(v)) = 2 + Len(v)
      /\ \A i \in 1..Len(v) : FullKey(v)[2 + i] = v[i]
  BY FullKeyBytes
<1>3. Len(u) \in Nat /\ Len(v) \in Nat
  BY LenProperties
<1> DEFINE k == FullKey(u)
           l == FullKey(v)
<1>4. k \in Seq(Byte) /\ l \in Seq(Byte) /\ IsPrefix(k, l)
  BY <1>1, <1>2
<1>5. Len(k) <= Len(l) /\ \A i \in 1..Len(k) : k[i] = l[i]
  BY <1>4, PrefixPointwise
<1>6. Len(u) <= Len(v)
  BY <1>1, <1>2, <1>3, <1>5
<1>7. ASSUME NEW i \in 1..Len(u) PROVE u[i] = v[i]
  <2>1. 2 + i \in 1..Len(k) /\ i \in 1..Len(v)
    BY <1>1, <1>3, <1>6
  <2> QED BY <2>1, <1>1, <1>2, <1>5
<1> QED BY <1>6, <1>7, PrefixPointwise

(***************************************************************************)
(* from_iroh_entry returns the caller's key, whatever its bytes.           *)
(***************************************************************************)
THEOREM UserKeyAfterFullKey ==
  \A u \in Seq(Byte) : /\ FullKey(u) \in Seq(Byte)
                       /\ IsPrefix(KV_PREFIX, FullKey(u))
                       /\ UserKey(FullKey(u)) = u
<1> SUFFICES ASSUME NEW u \in Seq(Byte)
             PROVE  /\ FullKey(u) \in Seq(Byte)
                    /\ IsPrefix(KV_PREFIX, FullKey(u))
                    /\ UserKey(FullKey(u)) = u
  OBVIOUS
<1> DEFINE k == FullKey(u)
<1>2. /\ k \in Seq(Byte) /\ Len(k) = 2 + Len(u)
      /\ k[1] = 3 /\ k[2] = 255
      /\ \A i \in 1..Len(u) : k[2 + i] = u[i]
  BY FullKeyBytes
<1> HIDE DEF k
<1>3. IsPrefix(KV_PREFIX, k)
  BY <1>2, PrefixBytes DEF KV_PREFIX
<1>4. SubSeq(k, 3, Len(k)) = u
  <2>1. /\ SubSeq(k, 3, Len(k)) \in Seq(Byte)
        /\ Len(SubSeq(k, 3, Len(k))) = Len(u)
        /\ \A i \in 1..Len(u) : SubSeq(k, 3, Len(k))[i] = k[2 + i]
    BY <1>2
  <2> QED BY <2>1, <1>2
<1>5. UserKey(k) = u
  BY <1>3, <1>4 DEF UserKey, KV_PREFIX
<1> QED BY <1>2, <1>3, <1>5 DEF k

(***************************************************************************)
(* No key is in two namespaces: no caller's key can be taken for a         *)
(* contract or for the configuration.                                      *)
(***************************************************************************)
THEOREM NamespacesApart ==
  /\ \A k \in Seq(Byte) :
       /\ ~(IsPrefix(KV_PREFIX, k) /\ IsContractKey(k))
       /\ IsPrefix(KV_PREFIX, k) => k # MACHINE_CONFIG_KEY
       /\ IsContractKey(k) => k # MACHINE_CONFIG_KEY
  /\ MACHINE_CONFIG_KEY \in Seq(Byte)
<1>1. MACHINE_CONFIG_KEY \in Seq(Byte) /\ MACHINE_CONFIG_KEY[1] = 2
  BY DEF MACHINE_CONFIG_KEY, Byte
<1>2. \A k \in Seq(Byte) : IsPrefix(KV_PREFIX, k) => k[1] = 3
  BY PrefixBytes DEF KV_PREFIX
<1>3. \A k \in Seq(Byte) : IsContractKey(k) => k[1] = 1
  BY PrefixBytes DEF IsContractKey, CLAIMABLE_CONTRACT_PREFIX
<1> QED BY <1>1, <1>2, <1>3
=============================================================================
