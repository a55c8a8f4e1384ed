-------------------------- MODULE LedgerTablesProofs --------------------------
(***************************************************************************)
(* Facts about the queries and statements of LedgerTables, for tables of    *)
(* any size, which the proofs about LedgerStore and Ingestion rest on.      *)
(***************************************************************************)
EXTENDS LedgerTables, WellFoundedInduction, TLAPS

(* Sequence numbers are positive and bounded.                               *)
LEMMA LedgerSeqIsNat ==
    \A s \in LedgerSeqs : s \in Nat /\ s # 0 /\ FirstLedger <= s /\ s <= MaxLedger
BY LedgerBounds DEF LedgerSeqs

(* Every nonempty set of natural numbers has a smallest element.            *)
LEMMA NatHasMin ==
    ASSUME NEW S \in SUBSET Nat, S # {}
    PROVE  \E m \in S : \A s \in S : m <= s
<1>1. \E m \in S : \A s \in S : ~(<<s, m>> \in OpToRel(<, Nat))
  BY NatLessThanWellFounded, WFMin
<1>2. PICK m \in S : \A s \in S : ~(<<s, m>> \in OpToRel(<, Nat))
  BY <1>1
<1>3. \A s \in S : ~(s < m)
  BY <1>2 DEF OpToRel
<1> QED
  BY <1>3

(* MIN(sequence) of a nonempty table is a row of it, and none is older.     *)
LEMMA OldestIsMin ==
    ASSUME NEW S \in SUBSET Nat, S # {}
    PROVE  Oldest(S) \in S /\ \A s \in S : Oldest(S) <= s
<1>1. \E m \in S : \A s \in S : m <= s
  BY NatHasMin
<1> QED
  BY <1>1 DEF Oldest

(* MAX(sequence) of a nonempty table is a row of it, and none is newer.     *)
LEMMA LatestIsMax ==
    ASSUME NEW S \in SUBSET LedgerSeqs, S # {}
    PROVE  Latest(S) \in S /\ \A s \in S : s <= Latest(S)
<1> DEFINE D == {MaxLedger - s : s \in S}
<1>0. MaxLedger \in Nat /\ \A s \in S : s \in Nat /\ s <= MaxLedger
  BY LedgerBounds DEF LedgerSeqs
<1>1. D \in SUBSET Nat /\ D # {}
  <2>1. \A s \in S : MaxLedger - s \in Nat
    BY <1>0
  <2> QED
    BY <2>1
<1>2. PICK d \in D : \A e \in D : d <= e
  BY <1>1, NatHasMin
<1>3. PICK m \in S : d = MaxLedger - m
  OBVIOUS
<1>4. \A s \in S : s <= m
  <2>1. \A s \in S : MaxLedger - m <= MaxLedger - s
    BY <1>2, <1>3
  <2> QED
    BY <2>1, <1>0
<1> QED
  BY <1>4 DEF Latest

(* A row that no other is newer than is the one MAX(sequence) returns.      *)
LEMMA LatestIs ==
    ASSUME NEW S \in SUBSET Int, NEW m \in S, \A s \in S : s <= m
    PROVE  Latest(S) = m
<1>1. \A x \in S : (\A s \in S : s <= x) => x = m
  OBVIOUS
<1> QED
  BY <1>1 DEF Latest

(* The latest sequence number is 0 exactly when the table is empty.         *)
LEMMA LatestType ==
    ASSUME NEW S \in SUBSET LedgerSeqs
    PROVE  /\ Latest(S) \in LedgerSeqs \union {0}
           /\ Latest(S) \in Nat
           /\ Latest(S) = 0 <=> S = {}
<1>1. CASE S = {}
  BY <1>1 DEF Latest
<1>2. CASE S # {}
  <2>1. Latest(S) \in LedgerSeqs
    BY <1>2, LatestIsMax
  <2>2. Latest(S) \in Nat /\ Latest(S) # 0
    BY <2>1, LedgerBounds DEF LedgerSeqs
  <2> QED
    BY <1>2, <2>1, <2>2
<1> QED
  BY <1>1, <1>2

(* Inserting the next ledger and trimming keeps the new one, the newest     *)
(* there is, and drops exactly the ledgers the retention window has passed. *)
LEMMA TrimNext ==
    ASSUME NEW S \in SUBSET LedgerSeqs, NEW n \in LedgerSeqs, NEW w \in Nat \ {0},
           \A s \in S : s < n
    PROVE  LET T == Trim(S \union {n}, n, w)
           IN  /\ T \in SUBSET LedgerSeqs
               /\ n \in T
               /\ Latest(T) = n
               /\ T \subseteq S \union {n}
               /\ \A s \in S \union {n} : s \in T <=> s + w > n
<1> DEFINE T == Trim(S \union {n}, n, w)
<1>0. n \in Nat /\ \A s \in S : s \in Nat
  BY LedgerBounds DEF LedgerSeqs
<1>1. T \subseteq S \union {n} /\ n \in T
  BY <1>0 DEF Trim
<1>2. \A s \in S \union {n} : s \in T <=> s + w > n
  BY <1>0 DEF Trim
<1>3. Latest(T) = n
  <2>1. \A s \in S \union {n} : s \in Int /\ s <= n
    BY <1>0
  <2>2. T \in SUBSET Int /\ \A s \in T : s <= n
    BY <1>1, <2>1
  <2> QED
    BY <1>1, <2>2, LatestIs
<1> QED
  BY <1>1, <1>2, <1>3

(* Appending the ledger after the latest leaves no gap, nor does trimming.  *)
LEMMA TrimContiguous ==
    ASSUME NEW S \in SUBSET LedgerSeqs, NEW n \in LedgerSeqs, NEW w \in Nat \ {0},
           Contiguous(S), S # {} => n = Latest(S) + 1
    PROVE  Contiguous(Trim(S \union {n}, n, w))
<1> DEFINE U == S \union {n}
<1>0. n \in Nat /\ \A s \in S : s \in Nat
  BY LedgerBounds DEF LedgerSeqs
<1>1. \A a, b \in U : a .. b \subseteq U
  <2>1. CASE S = {}
    BY <2>1, <1>0
  <2>2. CASE S # {}
    <3>1. Latest(S) \in S /\ \A s \in S : s <= Latest(S)
      BY <2>2, LatestIsMax
    <3>2. n = Latest(S) + 1 /\ Latest(S) \in Nat
      BY <2>2, <3>1, <1>0
    <3>3. SUFFICES ASSUME NEW a \in U, NEW b \in U, NEW c \in a .. b
                   PROVE  c \in U
      OBVIOUS
    <3>4. a \in Nat /\ b \in Nat /\ c \in Nat /\ a <= c /\ c <= b
      BY <1>0
    <3>5. CASE c = n
      BY <3>5
    <3>6. CASE c # n
      <4>1. b <= n /\ a < n /\ a \in S
        BY <3>1, <3>2, <3>4, <3>6, <1>0
      <4>2. c <= Latest(S)
        BY <4>1, <3>2, <3>4, <3>6
      <4>3. c \in a .. Latest(S)
        BY <4>2, <3>2, <3>4
      <4> QED
        BY <4>1, <4>3, <3>1 DEF Contiguous
    <3> QED
      BY <3>5, <3>6
  <2> QED
    BY <2>1, <2>2
<1>2. \A s \in U : s \in Nat
  BY <1>0
<1> QED
  BY <1>0, <1>1, <1>2 DEF Trim, Contiguous
=============================================================================
