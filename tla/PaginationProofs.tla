-------------------------- MODULE PaginationProofs --------------------------
(***************************************************************************)
(* Following cursors for every limit of a page, every limit of a search,    *)
(* every retention window and whatever the ledgers hold: no item is skipped *)
(* and no ledger and no event is delivered twice.                           *)
(***************************************************************************)
EXTENDS Pagination, FiniteSetTheorems, FunctionTheorems, WellFoundedInduction, TLAPS

(* Places in the history of a network.                                      *)
Places == Nat \X Nat \X Nat

(* All cursors and items.                                                   *)
Box == (0 .. MaxLedger) \X (0 .. TxMax) \X (0 .. EventMax)

(* The listing of a client.                                                 *)
ListingType ==
    [at : {"idle", "listing", "refused"}, kind : Kinds, from : LedgerSeqs \union {0},
     end : LedgerSeqs \union {0}, cursor : Box, before : SUBSET Box, page : SUBSET Box]

TypeInv ==
    /\ chain \in [LedgerSeqs -> Contents]
    /\ last \in LedgerSeqs
    /\ client \in ListingType

(* A cursor never points past the latest ledger, and its form tells what it *)
(* was made from: the last item of a page, or the end of a search window.   *)
(* An end is only asked for before there is a cursor.                       *)
CursorShape ==
    /\ client.cursor[1] <= last
    /\ client.cursor = NoCursor => Delivered = {}
    /\ client.end # 0 => client.cursor = NoCursor
    /\ client.kind = "ledgers" => client.cursor[2] = 0 /\ client.cursor[3] = 0
    /\ client.kind = "events" =>
          client.cursor[3] < EventMax \/ client.cursor = <<client.cursor[1], TxMax, EventMax>>

(* No ledger and no event that was delivered lies after the cursor.         *)
DeliveredUpToCursor ==
    client.kind # "transactions" => \A x \in Delivered : ~Precedes(client.cursor, x)

(* The inductive invariant.                                                 *)
ListInv ==
    /\ TypeInv
    /\ CursorShape
    /\ DeliveredUpToCursor
    /\ NothingSkipped
    /\ NothingRepeated

-----------------------------------------------------------------------------
(* The order of cursors.                                                    *)

(* The constants are natural numbers.                                       *)
LEMMA Bounds ==
    /\ FirstLedger \in Nat \ {0} /\ MaxLedger \in Nat /\ Window \in Nat \ {0}
    /\ Limit \in Nat \ {0} /\ ScanLimit \in Nat /\ ScanLimit > 1
    /\ TxMax \in Nat \ {0} /\ EventMax \in Nat \ {0}
BY PaginationBounds, ContentsFit

(* The parts of a cursor or an item.                                        *)
LEMMA BoxParts ==
    ASSUME NEW x \in Box
    PROVE  /\ x \in Places /\ x = <<x[1], x[2], x[3]>>
           /\ x[1] \in Nat /\ x[2] \in Nat /\ x[3] \in Nat
           /\ x[1] <= MaxLedger /\ x[2] <= TxMax /\ x[3] <= EventMax
BY Bounds DEF Box, Places

(* The order is total.                                                      *)
LEMMA PrecedesTotal ==
    ASSUME NEW x \in Places, NEW y \in Places
    PROVE  /\ ~Precedes(x, x)
           /\ Precedes(x, y) => ~Precedes(y, x)
           /\ Precedes(x, y) \/ Precedes(y, x) \/ x = y
BY DEF Precedes, Places

(* The order is transitive.                                                 *)
LEMMA PrecedesTrans ==
    ASSUME NEW x \in Places, NEW y \in Places, NEW z \in Places,
           ~Precedes(y, x), ~Precedes(z, y)
    PROVE  ~Precedes(z, x) /\ (Precedes(x, y) \/ Precedes(y, z) => Precedes(x, z))
BY DEF Precedes, Places

(* Every nonempty set of natural numbers has a smallest element.            *)
LEMMA LeastNumber ==
    ASSUME NEW S \in SUBSET Nat, S # {}
    PROVE  \E m \in S : \A s \in S : m <= s
<1>1. PICK m \in S : \A s \in S : ~(<<s, m>> \in OpToRel(<, Nat))
  BY NatLessThanWellFounded, WFMin
<1>2. \A s \in S : ~(s < m)
  BY <1>1 DEF OpToRel
<1> QED
  BY <1>2

(* Every nonempty set of items has a first one.                             *)
LEMMA LeastItem ==
    ASSUME NEW S \in SUBSET Places, S # {}
    PROVE  \E m \in S : \A x \in S : ~Precedes(x, m)
<1>0. \A x \in S : x[1] \in Nat /\ x[2] \in Nat /\ x[3] \in Nat
  BY DEF Places
<1>1. PICK a \in S : \A x \in S : a[1] <= x[1]
  <2>1. {x[1] : x \in S} \in SUBSET Nat /\ {x[1] : x \in S} # {}
    BY <1>0
  <2>2. PICK n \in {x[1] : x \in S} : \A k \in {x[1] : x \in S} : n <= k
    BY <2>1, LeastNumber
  <2> QED
    BY <2>2
<1> DEFINE S1 == {x \in S : x[1] = a[1]}
<1>2. PICK b \in S1 : \A x \in S1 : b[2] <= x[2]
  <2>1. {x[2] : x \in S1} \in SUBSET Nat /\ {x[2] : x \in S1} # {}
    BY <1>0
  <2>2. PICK n \in {x[2] : x \in S1} : \A k \in {x[2] : x \in S1} : n <= k
    BY <2>1, LeastNumber
  <2> QED
    BY <2>2
<1> DEFINE S2 == {x \in S1 : x[2] = b[2]}
<1>3. PICK c \in S2 : \A x \in S2 : c[3] <= x[3]
  <2>1. {x[3] : x \in S2} \in SUBSET Nat /\ {x[3] : x \in S2} # {}
    BY <1>0
  <2>2. PICK n \in {x[3] : x \in S2} : \A k \in {x[3] : x \in S2} : n <= k
    BY <2>1, LeastNumber
  <2> QED
    BY <2>2
<1>4. ASSUME NEW x \in S PROVE ~Precedes(x, c)
  <2>1. c[1] = a[1] /\ c[2] = b[2] /\ b[1] = a[1]
    OBVIOUS
  <2>2. a[1] <= x[1] /\ (x[1] = a[1] => b[2] <= x[2])
    BY <1>1, <1>2
  <2>3. x[1] = a[1] /\ x[2] = b[2] => c[3] <= x[3]
    BY <1>3
  <2> QED
    BY <1>0, <2>1, <2>2, <2>3 DEF Precedes
<1> QED
  BY <1>4

(* Every nonempty set of items has a last one, which LastOf picks.          *)
LEMMA LastOfIsLast ==
    ASSUME NEW S \in SUBSET Box, S # {}
    PROVE  LastOf(S) \in S /\ \A x \in S : ~Precedes(LastOf(S), x)
<1> DEFINE Mirror(x) == <<MaxLedger - x[1], TxMax - x[2], EventMax - x[3]>>
           D == {Mirror(x) : x \in S}
<1>0. /\ MaxLedger \in Nat /\ TxMax \in Nat /\ EventMax \in Nat
      /\ \A x \in S : /\ x[1] \in Nat /\ x[2] \in Nat /\ x[3] \in Nat
                      /\ x[1] <= MaxLedger /\ x[2] <= TxMax /\ x[3] <= EventMax
  BY Bounds, BoxParts
<1>1. D \in SUBSET Places /\ D # {}
  <2>1. ASSUME NEW x \in S PROVE Mirror(x) \in Places
    <3>1. MaxLedger - x[1] \in Nat /\ TxMax - x[2] \in Nat /\ EventMax - x[3] \in Nat
      BY <1>0
    <3> QED
      BY <3>1 DEF Places
  <2> QED
    BY <2>1
<1>2. PICK d \in D : \A y \in D : ~Precedes(y, d)
  BY <1>1, LeastItem
<1>3. PICK m \in S : d = Mirror(m)
  BY <1>2
<1>4. ASSUME NEW x \in S PROVE ~Precedes(m, x)
  <2>1. ~Precedes(Mirror(x), Mirror(m))
    BY <1>2, <1>3
  <2> QED
    BY <1>0, <2>1 DEF Precedes
<1> QED
  BY <1>4 DEF LastOf

(* There are finitely many places for items.                                *)
LEMMA BoxIsFinite == IsFiniteSet(Box)
<1> DEFINE A == 0 .. MaxLedger
           B == 0 .. TxMax
           C == 0 .. EventMax
           f == [p \in (A \X B) \X C |-> <<p[1][1], p[1][2], p[2]>>]
<1>1. IsFiniteSet(A) /\ IsFiniteSet(B) /\ IsFiniteSet(C)
  BY Bounds, FS_Interval
<1>2. IsFiniteSet((A \X B) \X C)
  BY <1>1, FS_Product
<1> HIDE DEF A, B, C
<1>3. f \in [(A \X B) \X C -> A \X B \X C]
  OBVIOUS
<1>4. ASSUME NEW t \in A \X B \X C PROVE \E p \in (A \X B) \X C : f[p] = t
  <2>1. << <<t[1], t[2]>>, t[3]>> \in (A \X B) \X C
    OBVIOUS
  <2>2. f[<< <<t[1], t[2]>>, t[3]>>] = t
    BY <2>1
  <2> QED
    BY <2>1, <2>2
<1>5. f \in Surjection((A \X B) \X C, A \X B \X C)
  BY <1>3, <1>4, Fun_IsSurj
<1> QED
  BY <1>2, <1>5, FS_Surjection DEF Box, A, B, C

-----------------------------------------------------------------------------
(* Pages.                                                                   *)

(* The first items of a set: none before them is left out, and all are      *)
(* taken unless the page is full.                                           *)
LEMMA FirstOfFacts ==
    ASSUME NEW S \in SUBSET Box
    PROVE  /\ FirstOf(S) \subseteq S
           /\ \A x \in FirstOf(S) : \A y \in S : ~Precedes(x, y) => y \in FirstOf(S)
           /\ Cardinality(FirstOf(S)) = Limit => FirstOf(S) # {}
           /\ Cardinality(FirstOf(S)) # Limit => FirstOf(S) = S
<1> DEFINE Before(x) == {y \in S : Precedes(y, x)}
           F == FirstOf(S)
<1>0. Limit \in Nat \ {0} /\ S \subseteq Places
  BY Bounds, BoxParts
<1>1. F = {x \in S : Cardinality(Before(x)) < Limit}
  BY DEF FirstOf
<1>2. \A T \in SUBSET S : IsFiniteSet(T) /\ Cardinality(T) \in Nat
  BY BoxIsFinite, FS_Subset, FS_CardinalityType
<1>3. \A T \in SUBSET S : \A U \in SUBSET T : Cardinality(U) <= Cardinality(T)
  BY <1>2, FS_Subset
<1> HIDE DEF F
<1>4. ASSUME NEW x \in F, NEW y \in S, ~Precedes(x, y) PROVE y \in F
  <2>1. x \in S
    BY <1>1
  <2>2. Before(y) \in SUBSET Before(x)
    <3> SUFFICES ASSUME NEW z \in S, Precedes(z, y) PROVE Precedes(z, x)
      OBVIOUS
    <3> QED
      BY <1>0, <1>4, <2>1, PrecedesTotal, PrecedesTrans
  <2>3. Cardinality(Before(y)) <= Cardinality(Before(x))
    BY <1>3, <2>2
  <2>4. Cardinality(Before(y)) \in Nat /\ Cardinality(Before(x)) \in Nat
    BY <1>2
  <2>5. Cardinality(Before(x)) < Limit
    BY <1>1
  <2> HIDE DEF Before
  <2>6. Cardinality(Before(y)) < Limit
    BY <1>0, <2>3, <2>4, <2>5
  <2> QED
    BY <1>1, <2>6 DEF Before
<1>5. F \subseteq S
  BY <1>1
<1>6. ASSUME F # S PROVE Cardinality(F) = Limit
  <2>1. PICK x \in S \ F : \A y \in S \ F : ~Precedes(y, x)
    BY <1>0, <1>5, <1>6, LeastItem
  <2>2. F = Before(x)
    <3>1. ASSUME NEW y \in F PROVE Precedes(y, x)
      <4>1. ~(~Precedes(y, x))
        BY <1>4, <2>1, <3>1
      <4> QED
        BY <4>1
    <3>2. ASSUME NEW y \in S, Precedes(y, x) PROVE y \in F
      BY <2>1, <3>2
    <3> QED
      BY <1>5, <3>1, <3>2
  <2>3. Cardinality(F) >= Limit
    <3>1. ~(Cardinality(Before(x)) < Limit)
      BY <1>1, <2>1
    <3>2. Cardinality(Before(x)) \in Nat
      BY <1>2
    <3> HIDE DEF Before
    <3> QED
      BY <1>0, <2>2, <3>1, <3>2
  <2>4. F # {}
    BY <1>0, <2>3, FS_EmptySet
  <2> DEFINE y == LastOf(F)
  <2>5. y \in F /\ \A z \in F : ~Precedes(y, z)
    BY <1>5, <2>4, LastOfIsLast
  <2> HIDE DEF y
  <2>6. F \in SUBSET (Before(y) \union {y})
    <3> SUFFICES ASSUME NEW z \in F, z # y PROVE Precedes(z, y)
      BY <1>5
    <3> QED
      BY <1>0, <1>5, <2>5, PrecedesTotal
  <2>7. Cardinality(F) <= Cardinality(Before(y)) + 1
    <3>1. y \in S /\ y \notin Before(y)
      BY <1>0, <1>5, <2>5, PrecedesTotal
    <3>2. Before(y) \in SUBSET S /\ Before(y) \union {y} \in SUBSET S
      BY <3>1
    <3>3. Cardinality(F) <= Cardinality(Before(y) \union {y})
      BY <1>3, <2>6, <3>2
    <3>4. Cardinality(Before(y) \union {y}) = Cardinality(Before(y)) + 1
      BY <1>2, <3>1, <3>2, FS_AddElement
    <3> QED
      BY <3>3, <3>4
  <2>8. /\ Cardinality(Before(y)) < Limit
        /\ Cardinality(F) \in Nat /\ Cardinality(Before(y)) \in Nat
    BY <1>1, <1>2, <1>5, <2>5
  <2> HIDE DEF Before
  <2> QED
    BY <1>0, <2>3, <2>7, <2>8
<1>7. Cardinality(F) = Limit => F # {}
  BY <1>0, FS_EmptySet
<1> QED
  BY <1>4, <1>5, <1>6, <1>7 DEF F

(* A page of the rest of a listing and the cursor that goes with it: a full *)
(* page has all that is left up to its last item, any other has it all.     *)
LEMMA PageFacts ==
    ASSUME NEW rest \in SUBSET Box
    PROVE  LET page == FirstOf(rest)
           IN  /\ page \subseteq rest
               /\ Cardinality(page) = Limit =>
                     /\ LastOf(page) \in page
                     /\ \A x \in page : ~Precedes(LastOf(page), x)
                     /\ \A x \in rest : ~Precedes(LastOf(page), x) => x \in page
               /\ Cardinality(page) # Limit => page = rest
<1> DEFINE page == FirstOf(rest)
<1>1. /\ page \subseteq rest
      /\ \A x \in page : \A y \in rest : ~Precedes(x, y) => y \in page
      /\ Cardinality(page) = Limit => page # {}
      /\ Cardinality(page) # Limit => page = rest
  BY FirstOfFacts
<1>2. page # {} => LastOf(page) \in page /\ \A x \in page : ~Precedes(LastOf(page), x)
  BY <1>1, LastOfIsLast
<1> HIDE DEF page
<1> QED
  BY <1>1, <1>2 DEF page

(* What an item looks like.                                                 *)
LEMMA ItemFacts ==
    ASSUME TypeInv, NEW kind \in Kinds, NEW lo \in Nat, NEW hi \in Nat
    PROVE  /\ ItemsBetween(kind, lo, hi) \in SUBSET Box
           /\ \A x \in ItemsBetween(kind, lo, hi) :
                /\ x[1] \in LedgerSeqs /\ lo <= x[1] /\ x[1] <= hi
                /\ x \in ItemsOf(kind, x[1])
                /\ kind = "ledgers" => x[2] = 0 /\ x[3] = 0
                /\ kind = "transactions" => x[2] >= 1 /\ x[3] = 0
                /\ kind = "events" => x[2] < TxMax /\ x[3] < EventMax
<1> SUFFICES ASSUME NEW x \in ItemsBetween(kind, lo, hi)
             PROVE  /\ x \in Box
                    /\ x[1] \in LedgerSeqs /\ lo <= x[1] /\ x[1] <= hi
                    /\ x \in ItemsOf(kind, x[1])
                    /\ kind = "ledgers" => x[2] = 0 /\ x[3] = 0
                    /\ kind = "transactions" => x[2] >= 1 /\ x[3] = 0
                    /\ kind = "events" => x[2] < TxMax /\ x[3] < EventMax
  OBVIOUS
<1>1. PICK l \in LedgerSeqs : lo <= l /\ l <= hi /\ x \in ItemsOf(kind, l)
  BY DEF ItemsBetween
<1>2. l \in Nat /\ l <= MaxLedger
  BY Bounds DEF LedgerSeqs
<1>3. /\ Len(chain[l]) \in Nat /\ Len(chain[l]) < TxMax
      /\ \A t \in 1 .. Len(chain[l]) : chain[l][t] \in Nat /\ chain[l][t] < EventMax
  BY ContentsFit DEF TypeInv
<1>4. CASE kind = "ledgers"
  BY <1>1, <1>2, <1>4, Bounds DEF ItemsOf, Box
<1>5. CASE kind = "transactions"
  <2>1. PICK t \in 1 .. Len(chain[l]) : x = <<l, t, 0>>
    BY <1>1, <1>5 DEF ItemsOf
  <2>2. t \in 0 .. TxMax /\ 0 \in 0 .. EventMax /\ l \in 0 .. MaxLedger /\ t >= 1
    BY <1>2, <1>3, Bounds
  <2> QED
    BY <1>1, <1>5, <2>1, <2>2 DEF Box
<1>6. CASE kind = "events"
  <2>1. PICK t \in 1 .. Len(chain[l]) : \E e \in 0 .. chain[l][t] - 1 : x = <<l, t, e>>
    BY <1>1, <1>6 DEF ItemsOf
  <2>2. PICK e \in 0 .. chain[l][t] - 1 : x = <<l, t, e>>
    BY <2>1
  <2>3. chain[l][t] \in Nat /\ chain[l][t] < EventMax
    BY <1>3
  <2>4. t \in 0 .. TxMax /\ e \in 0 .. EventMax /\ l \in 0 .. MaxLedger /\ t < TxMax /\ e < EventMax
    BY <1>2, <1>3, <2>3, Bounds
  <2> QED
    BY <1>1, <1>6, <2>2, <2>4 DEF Box
<1> QED
  BY <1>4, <1>5, <1>6 DEF Kinds

(* Items are told by their ledger: another range holds them if it holds     *)
(* their ledger.                                                            *)
LEMMA ItemsOfRange ==
    ASSUME TypeInv, NEW kind \in Kinds, NEW lo \in Nat, NEW hi \in Nat,
           NEW lo2 \in Nat, NEW hi2 \in Nat,
           NEW x \in ItemsBetween(kind, lo, hi), lo2 <= x[1], x[1] <= hi2
    PROVE  x \in ItemsBetween(kind, lo2, hi2)
<1>1. x[1] \in LedgerSeqs /\ x \in ItemsOf(kind, x[1])
  BY ItemFacts
<1> QED
  BY <1>1 DEF ItemsBetween

-----------------------------------------------------------------------------
(* The invariant.                                                           *)

(* Before its first page a listing has no cursor and has delivered nothing; *)
(* no item lies at or before that.                                          *)
LEMMA NoCursorFacts ==
    /\ NoCursor \in Box /\ NoCursor \in Places
    /\ \A x \in Places : x[1] # 0 => Precedes(NoCursor, x)
BY Bounds DEF NoCursor, Box, Places, Precedes

(* Ledgers are positive.                                                    *)
LEMMA LedgerIsPositive == \A l \in LedgerSeqs : l \in Nat /\ l # 0 /\ l >= FirstLedger
BY Bounds DEF LedgerSeqs

(* Nothing has been delivered yet.                                          *)
FreshListing == client.cursor = NoCursor /\ client.before = {} /\ client.page = {}

(* A listing that begins satisfies the invariant.                           *)
LEMMA NewListing == TypeInv /\ FreshListing => ListInv
<1> SUFFICES ASSUME TypeInv, FreshListing PROVE ListInv
  OBVIOUS
<1> USE DEF FreshListing
<1>1. last \in Nat
  BY LedgerIsPositive DEF TypeInv
<1>2. Delivered = {}
  BY DEF Delivered
<1>3. CursorShape
  BY <1>1, <1>2, Bounds DEF CursorShape, NoCursor
<1>4. NothingSkipped
  <2>1. client.kind \in Kinds /\ client.from \in Nat
    BY LedgerIsPositive DEF TypeInv, ListingType
  <2>2. \A x \in ItemsBetween(client.kind, client.from, last) : x \in Places /\ x[1] # 0
    BY <1>1, <2>1, ItemFacts, BoxParts, LedgerIsPositive
  <2> QED
    BY <2>2, NoCursorFacts DEF NothingSkipped
<1>5. DeliveredUpToCursor /\ NothingRepeated
  BY <1>2 DEF DeliveredUpToCursor, NothingRepeated, DeliveredOnce
<1> QED
  BY <1>3, <1>4, <1>5 DEF ListInv

(* Initially no listing has begun.                                          *)
LEMMA InitList == Init => ListInv
<1> SUFFICES ASSUME Init PROVE ListInv
  OBVIOUS
<1>1. last \in LedgerSeqs
  BY PaginationBounds DEF Init, LedgerSeqs
<1>2. client \in ListingType
  BY NoCursorFacts DEF Init, ListingType, Kinds
<1>3. TypeInv
  BY <1>1, <1>2 DEF Init, TypeInv
<1> QED
  BY <1>3, NewListing DEF Init, FreshListing

(* A new ledger lies after every cursor.                                    *)
LEMMA CloseLedgerList == ASSUME ListInv, CloseLedger PROVE ListInv'
<1>1. /\ last' = last + 1 /\ last < MaxLedger /\ UNCHANGED <<chain, client>>
      /\ last \in LedgerSeqs /\ last \in Nat
      /\ client \in ListingType /\ client.cursor \in Box /\ client.cursor[1] \in Nat
      /\ client.kind \in Kinds /\ client.from \in Nat /\ client.cursor[1] <= last
  BY BoxParts, LedgerIsPositive DEF CloseLedger, ListInv, TypeInv, ListingType, CursorShape
<1>2. TypeInv'
  BY <1>1, Bounds DEF ListInv, TypeInv, LedgerSeqs
<1>3. CursorShape'
  BY <1>1 DEF ListInv, CursorShape, Delivered
<1>4. NothingSkipped'
  <2>0. ItemsBetween(client.kind, client.from, last)' =
            ItemsBetween(client.kind, client.from, last + 1)
    BY <1>1 DEF ItemsBetween, ItemsOf
  <2> SUFFICES ASSUME client.at # "idle",
                      NEW x \in ItemsBetween(client.kind, client.from, last + 1),
                      ~Precedes(client.cursor, x)
               PROVE  x \in Delivered
    BY <1>1, <2>0 DEF NothingSkipped, Delivered
  <2>1. x \in Box /\ x[1] \in Nat /\ client.from <= x[1]
    BY <1>1, ItemFacts, BoxParts DEF ListInv
  <2>2. x[1] <= client.cursor[1]
    BY <1>1, <2>1 DEF Precedes
  <2>3. x[1] <= last
    BY <1>1, <2>1, <2>2
  <2>4. x \in ItemsBetween(client.kind, client.from, last)
    BY <1>1, <2>1, <2>3, ItemsOfRange DEF ListInv
  <2> QED
    BY <2>4 DEF ListInv, NothingSkipped
<1>5. DeliveredUpToCursor' /\ NothingRepeated'
  BY <1>1 DEF ListInv, DeliveredUpToCursor, Delivered, NothingRepeated, DeliveredOnce
<1> QED
  BY <1>2, <1>3, <1>4, <1>5 DEF ListInv

(* A client starts over.                                                    *)
LEMMA StartListingList ==
    ASSUME ListInv, NEW k \in Kinds, NEW from \in LedgerSeqs,
           NEW end \in LedgerSeqs \union {0}, StartListing(k, from, end)
    PROVE  ListInv'
<1>1. /\ client' = [at |-> "listing", kind |-> k, from |-> from, end |-> end,
                    cursor |-> NoCursor, before |-> {}, page |-> {}]
      /\ UNCHANGED <<chain, last>>
  BY DEF StartListing
<1>2. TypeInv'
  BY <1>1, NoCursorFacts DEF ListInv, TypeInv, ListingType
<1>3. FreshListing'
  BY <1>1 DEF FreshListing
<1> QED
  BY <1>2, <1>3, NewListing, PTL

(* A refusal changes nothing that was delivered.                            *)
LEMMA RefuseList ==
    ASSUME ListInv, client.at = "listing", Refuse, UNCHANGED <<chain, last>> PROVE ListInv'
<1>1. /\ client \in ListingType /\ client'.at = "refused" /\ client' \in ListingType
      /\ client'.kind = client.kind /\ client'.from = client.from /\ client'.end = client.end
      /\ client'.cursor = client.cursor /\ client'.before = client.before
      /\ client'.page = client.page
  BY DEF Refuse, ListInv, TypeInv, ListingType
<1>2. TypeInv' /\ CursorShape' /\ DeliveredUpToCursor' /\ NothingRepeated'
  BY <1>1 DEF ListInv, TypeInv, CursorShape, DeliveredUpToCursor, NothingRepeated, DeliveredOnce,
     Delivered
<1>3. NothingSkipped'
  <2>1. ItemsBetween(client.kind, client.from, last)' =
            ItemsBetween(client.kind, client.from, last)
    BY <1>1 DEF ItemsBetween, ItemsOf
  <2> QED
    BY <1>1, <2>1 DEF ListInv, NothingSkipped, Delivered
<1> QED
  BY <1>2, <1>3 DEF ListInv

(* The next page keeps the invariant if it has every item between the old   *)
(* cursor and the new one and, except for transactions, only such items.    *)
LEMMA TurnList ==
    ASSUME ListInv, client.at = "listing", NEW page \in SUBSET Box, NEW c \in Box,
           Turn(page, c), UNCHANGED <<chain, last>>,
           c # NoCursor, c[1] <= last,
           client.kind = "ledgers" => c[2] = 0 /\ c[3] = 0,
           client.kind = "events" => c[3] < EventMax \/ c = <<c[1], TxMax, EventMax>>,
           \A x \in ItemsBetween(client.kind, client.from, last) :
              ~Precedes(c, x) => ~Precedes(client.cursor, x) \/ x \in page,
           client.kind # "transactions" =>
              /\ \A x \in page : Precedes(client.cursor, x) /\ ~Precedes(c, x)
              /\ \A x \in Delivered : ~Precedes(c, x)
    PROVE  ListInv'
<1>1. /\ client \in ListingType /\ client' \in ListingType
      /\ client'.kind = client.kind /\ client'.from = client.from /\ client'.end = 0
      /\ client'.cursor = c /\ client'.before = client.before \union client.page
      /\ client'.page = page /\ client'.at = client.at
  BY DEF Turn, ListInv, TypeInv, ListingType
<1>2. Delivered' = Delivered \union page /\ client'.before = Delivered
  BY <1>1 DEF Delivered
<1>3. TypeInv'
  BY <1>1 DEF ListInv, TypeInv
<1>4. CursorShape'
  BY <1>1 DEF CursorShape
<1>5. DeliveredUpToCursor'
  BY <1>1, <1>2 DEF DeliveredUpToCursor
<1>6. NothingRepeated'
  <2>1. client.kind # "transactions" => page \intersect Delivered = {}
    BY DEF ListInv, DeliveredUpToCursor
  <2> QED
    BY <1>1, <1>2, <2>1 DEF NothingRepeated, DeliveredOnce
<1>7. NothingSkipped'
  <2>1. ItemsBetween(client.kind, client.from, last)' =
            ItemsBetween(client.kind, client.from, last)
    BY <1>1 DEF ItemsBetween, ItemsOf
  <2> SUFFICES ASSUME NEW x \in ItemsBetween(client.kind, client.from, last), ~Precedes(c, x)
               PROVE  x \in Delivered \union page
    BY <1>1, <1>2, <2>1 DEF NothingSkipped
  <2> QED
    BY DEF ListInv, NothingSkipped
<1> QED
  BY <1>3, <1>4, <1>5, <1>6, <1>7 DEF ListInv

(* A step that changes nothing.                                             *)
LEMMA UnchangedList == ASSUME ListInv, UNCHANGED <<chain, last, client>> PROVE ListInv'
<1>1. ItemsBetween(client.kind, client.from, last)' =
          ItemsBetween(client.kind, client.from, last)
  BY DEF ItemsBetween, ItemsOf
<1>2. NothingSkipped'
  BY <1>1 DEF ListInv, NothingSkipped, Delivered
<1>3. TypeInv' /\ CursorShape' /\ DeliveredUpToCursor' /\ NothingRepeated'
  BY DEF ListInv, TypeInv, CursorShape, DeliveredUpToCursor, NothingRepeated, DeliveredOnce,
     Delivered
<1> QED
  BY <1>2, <1>3 DEF ListInv

(* What a request finds.                                                    *)
LEMMA RequestFacts ==
    ASSUME ListInv
    PROVE  /\ last \in LedgerSeqs /\ last \in Nat /\ last # 0 /\ last >= FirstLedger
           /\ first \in Nat /\ first >= FirstLedger /\ FirstLedger \in Nat \ {0}
           /\ client \in ListingType /\ client.kind \in Kinds /\ client.from \in Nat
           /\ client.cursor \in Box /\ client.cursor \in Places
           /\ client.cursor = <<client.cursor[1], client.cursor[2], client.cursor[3]>>
           /\ client.cursor[1] \in Nat /\ client.cursor[2] \in Nat /\ client.cursor[3] \in Nat
           /\ client.cursor[2] <= TxMax /\ client.cursor[3] <= EventMax
           /\ client.cursor[1] <= last
           /\ Delivered \subseteq Box
<1>1. /\ last \in LedgerSeqs /\ client \in ListingType /\ client.kind \in Kinds
      /\ client.cursor \in Box /\ client.from \in LedgerSeqs \union {0}
      /\ Delivered \subseteq Box /\ client.cursor[1] <= last
  BY DEF ListInv, TypeInv, ListingType, CursorShape, Delivered
<1>2. last \in Nat /\ last # 0 /\ last >= FirstLedger /\ client.from \in Nat
  BY <1>1, LedgerIsPositive
<1>3. first \in Nat /\ first >= FirstLedger
  BY <1>2, Bounds DEF first
<1> QED
  BY <1>1, <1>2, <1>3, Bounds, BoxParts

(* A page of ledgers begins right after the cursor.                         *)
LEMMA GetLedgersList == ASSUME ListInv, GetLedgers PROVE ListInv'
<1> DEFINE start == StartOfLedgers(client)
           rest == ItemsBetween("ledgers", start, last)
           page == FirstOf(rest)
           c == LastOf(page)
           old == client.cursor
<1>1. /\ client.at = "listing" /\ client.kind = "ledgers" /\ UNCHANGED <<chain, last>>
      /\ IF start < first THEN Refuse
         ELSE IF start > last THEN UNCHANGED client
         ELSE Turn(page, c)
  BY DEF GetLedgers
<1>2. CASE start < first
  BY <1>1, <1>2, RefuseList
<1>3. CASE ~(start < first) /\ start > last
  <2>1. UNCHANGED <<chain, last, client>>
    BY <1>1, <1>3
  <2> QED
    BY <2>1, UnchangedList
<1>4. CASE ~(start < first) /\ ~(start > last)
  <2>1. /\ start \in Nat /\ start <= last /\ start >= FirstLedger
        /\ old[2] = 0 /\ old[3] = 0 /\ old[1] \in Nat
        /\ start = IF old = NoCursor THEN client.from ELSE old[1] + 1
    BY <1>1, <1>4, RequestFacts DEF StartOfLedgers, ListInv, CursorShape
  <2> HIDE DEF start
  <2>2. /\ rest \in SUBSET Box
        /\ \A x \in rest : /\ x[1] \in LedgerSeqs /\ start <= x[1] /\ x[1] <= last
                           /\ x[2] = 0 /\ x[3] = 0
    BY <2>1, RequestFacts, ItemFacts DEF ListInv, Kinds
  <2>3. rest # {}
    <3>1. last \in LedgerSeqs /\ start <= last
      BY <2>1, RequestFacts
    <3>2. <<last, 0, 0>> \in ItemsOf("ledgers", last)
      BY DEF ItemsOf
    <3> QED
      BY <3>1, <3>2, RequestFacts DEF ItemsBetween
  <2> HIDE DEF rest
  <2>4. page \subseteq rest /\ page # {}
        /\ \A x \in page : \A y \in rest : ~Precedes(x, y) => y \in page
    BY <2>2, <2>3, FirstOfFacts
  <2>5. c \in page /\ \A x \in page : ~Precedes(c, x)
    BY <2>2, <2>4, LastOfIsLast
  <2> HIDE DEF page, c
  <2>6. /\ c \in Box /\ c[1] \in LedgerSeqs /\ c[1] \in Nat /\ c[1] # 0 /\ start <= c[1]
        /\ c[1] <= last /\ c[2] = 0 /\ c[3] = 0
    BY <2>2, <2>4, <2>5, LedgerIsPositive
  <2>7. c # NoCursor
    BY <2>6 DEF NoCursor
  <2>8. ASSUME NEW x \in ItemsBetween(client.kind, client.from, last), ~Precedes(c, x)
        PROVE  ~Precedes(old, x) \/ x \in page
    <3>1. /\ x \in Box /\ x[1] \in Nat /\ client.from <= x[1] /\ x[1] <= last
          /\ x[2] = 0 /\ x[3] = 0
      BY <1>1, <2>8, RequestFacts, ItemFacts, BoxParts DEF ListInv
    <3>2. CASE start <= x[1]
      <4>1. x \in ItemsBetween("ledgers", client.from, last) /\ "ledgers" \in Kinds
        BY <1>1, <2>8 DEF Kinds
      <4>2. TypeInv /\ client.from \in Nat /\ last \in Nat
        BY RequestFacts DEF ListInv
      <4>3. x \in rest
        BY <2>1, <3>1, <3>2, <4>1, <4>2, ItemsOfRange DEF rest
      <4> QED
        BY <2>4, <2>5, <2>8, <4>3
    <3>3. CASE ~(start <= x[1])
      <4>1. x[1] <= old[1]
        BY <2>1, <3>1, <3>3, RequestFacts
      <4> QED
        BY <2>1, <3>1, <4>1 DEF Precedes
    <3> QED
      BY <3>2, <3>3
  <2>9. ASSUME NEW x \in Delivered PROVE ~Precedes(c, x)
    <3>1. ~Precedes(old, x) /\ x \in Places /\ old # NoCursor
      BY <1>1, <2>9, RequestFacts, BoxParts DEF ListInv, DeliveredUpToCursor, CursorShape
    <3>2. Precedes(old, c)
      BY <2>1, <2>6, <3>1 DEF Precedes
    <3> QED
      BY <2>6, <3>1, <3>2, RequestFacts, BoxParts, PrecedesTotal, PrecedesTrans
  <2>10. ASSUME NEW x \in page PROVE Precedes(old, x)
    <3>1. x[1] \in LedgerSeqs /\ start <= x[1] /\ x \in Places
      BY <2>2, <2>4, BoxParts
    <3>2. CASE old = NoCursor
      BY <3>1, <3>2, NoCursorFacts, LedgerIsPositive
    <3>3. CASE old # NoCursor
      BY <2>1, <3>1, <3>3, LedgerIsPositive DEF Precedes
    <3> QED
      BY <3>2, <3>3
  <2>11. Turn(page, c) /\ page \in SUBSET Box
    BY <1>1, <1>4, <2>2, <2>4
  <2> QED
    BY <1>1, <2>5, <2>6, <2>7, <2>8, <2>9, <2>10, <2>11, TurnList
<1> QED
  BY <1>2, <1>3, <1>4

(* A page of transactions begins right after the cursor.                    *)
LEMMA GetTransactionsList == ASSUME ListInv, GetTransactions PROVE ListInv'
<1> DEFINE start == StartOfTransactions(client)
           all == ItemsBetween("transactions", start[1], last)
           rest == {x \in all : ~Precedes(x, start)}
           page == FirstOf(rest)
           c == IF Cardinality(page) = Limit THEN LastOf(page) ELSE EndOfLedger(start)
           old == client.cursor
<1>1. /\ client.at = "listing" /\ client.kind = "transactions" /\ UNCHANGED <<chain, last>>
      /\ IF start[1] < first THEN Refuse ELSE Turn(page, c)
  BY DEF GetTransactions
<1>2. CASE start[1] < first
  BY <1>1, <1>2, RefuseList
<1>3. CASE ~(start[1] < first)
  <2>1. /\ TypeInv /\ "transactions" \in Kinds /\ client.from \in Nat
        /\ last \in Nat /\ last # 0 /\ last \in LedgerSeqs
        /\ old[1] \in Nat /\ old[2] \in Nat /\ old[3] \in Nat
    BY RequestFacts DEF ListInv, Kinds
  <2>2. /\ start = IF old = NoCursor THEN <<client.from, 1, 0>> ELSE <<old[1], old[2] + 1, 0>>
        /\ start[1] \in Nat /\ start[2] \in Nat /\ start[3] = 0
    BY <2>1 DEF StartOfTransactions
  <2> HIDE DEF start
  <2>3. /\ all \in SUBSET Box
        /\ \A x \in all : x[1] \in LedgerSeqs /\ x[1] <= last
    BY <2>1, <2>2, ItemFacts
  <2> HIDE DEF all
  <2>4. /\ page \subseteq rest /\ rest \in SUBSET Box
        /\ Cardinality(page) = Limit =>
              /\ LastOf(page) \in page
              /\ \A x \in rest : ~Precedes(LastOf(page), x) => x \in page
        /\ Cardinality(page) # Limit => page = rest
    BY <2>3, PageFacts
  <2> HIDE DEF page
  <2>5. c \in Box /\ c # NoCursor /\ c[1] <= last
    <3>1. CASE Cardinality(page) = Limit
      <4>1. c \in all
        BY <2>4, <3>1
      <4>2. c \in Box /\ c[1] \in LedgerSeqs /\ c[1] <= last
        BY <2>3, <4>1
      <4> QED
        BY <4>2, LedgerIsPositive DEF NoCursor
    <3>2. CASE Cardinality(page) # Limit
      <4>1. PICK n \in 0 .. Len(chain[last]) : c = <<last, n, 0>>
        <5>1. Len(chain[last]) \in Nat
          BY <2>1, ContentsFit DEF TypeInv
        <5> QED
          BY <3>2, <5>1 DEF EndOfLedger
      <4>2. n \in 0 .. TxMax
        BY <2>1, ContentsFit DEF TypeInv
      <4>3. last \in 0 .. MaxLedger
        BY <2>1, Bounds DEF LedgerSeqs
      <4>4. 0 \in 0 .. EventMax
        BY Bounds
      <4> HIDE DEF c
      <4>5. c \in Box
        BY <4>1, <4>2, <4>3, <4>4 DEF Box
      <4>6. c[1] = last
        BY <4>1
      <4>7. c # NoCursor /\ c[1] <= last
        BY <2>1, <4>6 DEF NoCursor
      <4> QED
        BY <4>5, <4>7
    <3> QED
      BY <3>1, <3>2
  <2>6. ASSUME NEW x \in ItemsBetween(client.kind, client.from, last), ~Precedes(c, x)
        PROVE  ~Precedes(old, x) \/ x \in page
    <3>1. x \in ItemsBetween("transactions", client.from, last)
      BY <1>1, <2>6
    <3>2. /\ x \in Box /\ x[1] \in Nat /\ x[2] \in Nat /\ client.from <= x[1] /\ x[1] <= last
          /\ x[2] >= 1 /\ x[3] = 0
      BY <2>1, <3>1, ItemFacts, BoxParts
    <3>3. CASE x \in rest
      <4>1. CASE Cardinality(page) = Limit
        BY <2>4, <2>6, <3>3, <4>1
      <4>2. CASE Cardinality(page) # Limit
        BY <2>4, <3>3, <4>2
      <4> QED
        BY <4>1, <4>2
    <3>4. CASE x \notin rest
      <4>1. x[1] < start[1] \/ Precedes(x, start)
        <5>1. start[1] <= x[1] => x \in all
          BY <2>1, <2>2, <3>1, <3>2, ItemsOfRange DEF all
        <5> QED
          BY <2>2, <3>2, <3>4, <5>1
      <4>2. old # NoCursor
        BY <2>1, <2>2, <3>2, <4>1 DEF Precedes
      <4> QED
        BY <2>1, <2>2, <3>2, <4>1, <4>2 DEF Precedes
    <3> QED
      BY <3>3, <3>4
  <2>7. Turn(page, c) /\ page \in SUBSET Box
    BY <1>1, <1>3, <2>4
  <2> HIDE DEF c
  <2> QED
    BY <1>1, <2>5, <2>6, <2>7, TurnList
<1> QED
  BY <1>2, <1>3

(* The event after the cursor.  After the end of a search window the index  *)
(* of the event wraps around, behind all transactions of the ledger.        *)
LEMMA StartOfEventsFacts ==
    ASSUME ListInv, client.kind = "events"
    PROVE  LET start == StartOfEvents(client)
               old == client.cursor
           IN  \/ old = NoCursor /\ start = <<client.from, 0, 0>>
               \/ old # NoCursor /\ old[3] < EventMax /\ start = <<old[1], old[2], old[3] + 1>>
               \/ /\ old # NoCursor /\ old = <<old[1], TxMax, EventMax>>
                  /\ start = <<old[1], TxMax, 0>>
<1> DEFINE old == client.cursor
<1>1. /\ old[3] < EventMax \/ old = <<old[1], TxMax, EventMax>>
      /\ old[3] \in Nat
  BY RequestFacts DEF ListInv, CursorShape
<1>2. ASSUME NEW n \in Nat, NEW a \in Nat, a <= n PROVE a % (n + 1) = a
  BY <1>2
<1>3. ASSUME NEW n \in Nat PROVE (n + 1) % (n + 1) = 0
  BY <1>3
<1>4. CASE old = NoCursor
  BY <1>4 DEF StartOfEvents
<1>5. CASE old # NoCursor /\ old[3] < EventMax
  <2>1. (old[3] + 1) % (EventMax + 1) = old[3] + 1
    BY <1>1, <1>2, <1>5, Bounds
  <2> QED
    BY <1>5, <2>1 DEF StartOfEvents
<1>6. CASE old # NoCursor /\ ~(old[3] < EventMax)
  <2>1. old = <<old[1], TxMax, EventMax>> /\ old[2] = TxMax /\ old[3] = EventMax
    BY <1>1, <1>6
  <2>2. (old[3] + 1) % (EventMax + 1) = 0
    BY <1>3, <2>1, Bounds
  <2> QED
    BY <1>6, <2>1, <2>2 DEF StartOfEvents
<1> QED
  BY <1>4, <1>5, <1>6

(* The end of a search window: not past the latest ledger, and past the     *)
(* start of the search unless the client has asked for an earlier end.      *)
LEMMA EndOfWindowFacts ==
    ASSUME ListInv, NEW start, start[1] \in Nat, start[1] <= last
    PROVE  LET end == EndOfWindow(start, client.end)
           IN  /\ end \in Nat \ {0} /\ end - 1 <= last
               /\ client.end = 0 => start[1] <= end - 1
<1>1. /\ last \in Nat /\ ScanLimit \in Nat /\ ScanLimit > 1
      /\ client.end \in Nat
  BY RequestFacts, Bounds, LedgerIsPositive DEF ListingType
<1> QED
  BY <1>1 DEF EndOfWindow, EarlierOf

(* A page of events begins right after the cursor, and ends at the new one. *)
LEMMA GetEventsList == ASSUME ListInv, GetEvents PROVE ListInv'
<1> DEFINE start == StartOfEvents(client)
           end == EndOfWindow(start, client.end)
           all == ItemsBetween("events", start[1], last)
           rest == {x \in all : ~Precedes(x, start) /\ x[1] < end}
           page == FirstOf(rest)
           c == IF Cardinality(page) = Limit THEN LastOf(page) ELSE <<end - 1, TxMax, EventMax>>
           old == client.cursor
<1>1. /\ client.at = "listing" /\ client.kind = "events" /\ UNCHANGED <<chain, last>>
      /\ IF start[1] < first \/ start[1] > last THEN Refuse ELSE Turn(page, c)
  BY DEF GetEvents
<1>2. CASE start[1] < first \/ start[1] > last
  BY <1>1, <1>2, RefuseList
<1>3. CASE ~(start[1] < first \/ start[1] > last)
  <2>1. /\ TypeInv /\ "events" \in Kinds /\ client.from \in Nat
        /\ last \in Nat /\ last # 0 /\ last \in LedgerSeqs /\ last <= MaxLedger
        /\ MaxLedger \in Nat /\ TxMax \in Nat \ {0} /\ EventMax \in Nat \ {0}
        /\ old \in Places /\ old[1] \in Nat /\ old[2] \in Nat /\ old[3] \in Nat
    BY RequestFacts, Bounds DEF ListInv, Kinds, LedgerSeqs
  <2>2. /\ \/ old = NoCursor /\ start = <<client.from, 0, 0>>
           \/ old # NoCursor /\ old[3] < EventMax /\ start = <<old[1], old[2], old[3] + 1>>
           \/ /\ old # NoCursor /\ old = <<old[1], TxMax, EventMax>>
              /\ start = <<old[1], TxMax, 0>>
    BY <1>1, StartOfEventsFacts
  <2>3. start[1] \in Nat /\ start[2] \in Nat /\ start[3] \in Nat /\ start[1] <= last
    <3>1. start[1] \in Nat /\ start[2] \in Nat /\ start[3] \in Nat
      BY <2>1, <2>2
    <3> QED
      BY <1>3, <2>1, <3>1
  <2> HIDE DEF start
  <2>4. /\ end \in Nat \ {0} /\ end - 1 <= last
        /\ client.end = 0 => start[1] <= end - 1
    BY <2>3, EndOfWindowFacts
  <2>5. /\ all \in SUBSET Box
        /\ \A x \in all : /\ x[1] \in LedgerSeqs /\ start[1] <= x[1] /\ x[1] <= last
                          /\ x[2] < TxMax /\ x[3] < EventMax
                          /\ x[1] \in Nat /\ x[2] \in Nat /\ x[3] \in Nat /\ x[1] # 0
                          /\ x \in Places
    BY <2>1, <2>3, ItemFacts, BoxParts, LedgerIsPositive
  <2> HIDE DEF all, end
  <2>6. /\ page \subseteq rest /\ rest \in SUBSET Box
        /\ Cardinality(page) = Limit =>
              /\ LastOf(page) \in page
              /\ \A x \in page : ~Precedes(LastOf(page), x)
              /\ \A x \in rest : ~Precedes(LastOf(page), x) => x \in page
        /\ Cardinality(page) # Limit => page = rest
    BY <2>5, PageFacts
  <2>7. ASSUME NEW x \in rest PROVE Precedes(old, x)
    <3>1. x \in all /\ ~Precedes(x, start)
      OBVIOUS
    <3>2. CASE old = NoCursor
      BY <2>5, <3>1, <3>2, NoCursorFacts
    <3>3. CASE old # NoCursor /\ old[3] < EventMax /\ start = <<old[1], old[2], old[3] + 1>>
      BY <2>1, <2>5, <3>1, <3>3 DEF Precedes
    <3>4. CASE old = <<old[1], TxMax, EventMax>> /\ start = <<old[1], TxMax, 0>>
      BY <2>1, <2>5, <3>1, <3>4 DEF Precedes
    <3> QED
      BY <2>2, <3>2, <3>3, <3>4
  <2> HIDE DEF page
  <2>8. /\ c \in Box /\ c # NoCursor /\ c[1] <= last
        /\ c[3] < EventMax \/ c = <<c[1], TxMax, EventMax>>
        /\ \A x \in page : ~Precedes(c, x)
        /\ \A x \in Delivered : ~Precedes(c, x)
        /\ \A x \in all : ~Precedes(c, x) => x[1] < end
        /\ \A x \in rest : ~Precedes(c, x) => x \in page
    <3>0. \A x \in Delivered : x \in Box /\ x \in Places /\ ~Precedes(old, x) /\ old # NoCursor
      BY <1>1, RequestFacts, BoxParts DEF ListInv, DeliveredUpToCursor, CursorShape
    <3>1. CASE Cardinality(page) = Limit
      <4>1. c = LastOf(page) /\ c \in page /\ c \in rest /\ c \in all
        BY <2>6, <3>1
      <4> HIDE DEF c
      <4>2. /\ c \in Box /\ c \in Places /\ c[1] # 0 /\ c[1] <= last
            /\ c[3] < EventMax
        BY <2>5, <4>1
      <4>3. c # NoCursor
        BY <4>2 DEF NoCursor
      <4>4. ASSUME NEW x \in Delivered PROVE ~Precedes(c, x)
        <5>1. ~Precedes(old, x) /\ x \in Places
          BY <3>0
        <5>2. Precedes(old, c)
          BY <2>7, <4>1
        <5> QED
          BY <2>1, <4>2, <5>1, <5>2, PrecedesTotal, PrecedesTrans
      <4>5. /\ \A x \in page : ~Precedes(c, x)
            /\ \A x \in rest : ~Precedes(c, x) => x \in page
        BY <2>6, <3>1, <4>1
      <4>6. \A x \in all : ~Precedes(c, x) => x[1] < end
        <5>1. c[1] < end /\ c[1] \in Nat
          BY <2>5, <4>1
        <5> QED
          BY <2>4, <2>5, <5>1 DEF Precedes
      <4> QED
        BY <4>2, <4>3, <4>4, <4>5, <4>6
    <3>2. CASE Cardinality(page) # Limit
      <4>1. c = <<end - 1, TxMax, EventMax>>
        BY <3>2
      <4>2. page = rest
        BY <2>6, <3>2
      <4> HIDE DEF c, rest
      <4>3. c[1] = end - 1 /\ c[2] = TxMax /\ c[3] = EventMax /\ c = <<c[1], TxMax, EventMax>>
        BY <4>1
      <4>4. end - 1 \in 0 .. MaxLedger /\ TxMax \in 0 .. TxMax /\ EventMax \in 0 .. EventMax
        BY <2>1, <2>4
      <4>5. c \in Box
        BY <4>1, <4>4 DEF Box
      <4>6. c # NoCursor
        BY <2>1, <4>3 DEF NoCursor
      <4>7. c[1] <= last
        BY <2>4, <4>3
      <4>8. \A x \in all : ~Precedes(c, x) <=> x[1] < end
        BY <2>1, <2>4, <2>5, <4>3 DEF Precedes
      <4>9. \A x \in page : ~Precedes(c, x)
        BY <4>2, <4>8 DEF rest
      <4>10. ASSUME NEW x \in Delivered PROVE ~Precedes(c, x)
        <5>1. /\ x[1] \in Nat /\ x[2] \in Nat /\ x[3] \in Nat
              /\ x[2] <= TxMax /\ x[3] <= EventMax /\ ~Precedes(old, x) /\ old # NoCursor
          BY <3>0, BoxParts
        <5>2. start[1] = old[1] /\ client.end = 0
          BY <2>2, <5>1 DEF ListInv, CursorShape
        <5>3. x[1] <= old[1]
          BY <2>1, <5>1 DEF Precedes
        <5> QED
          BY <2>1, <2>4, <4>3, <5>1, <5>2, <5>3 DEF Precedes
      <4> QED
        BY <4>2, <4>3, <4>5, <4>6, <4>7, <4>8, <4>9, <4>10
    <3> QED
      BY <3>1, <3>2
  <2> HIDE DEF c
  <2>9. ASSUME NEW x \in ItemsBetween(client.kind, client.from, last), ~Precedes(c, x)
        PROVE  ~Precedes(old, x) \/ x \in page
    <3>1. x \in ItemsBetween("events", client.from, last)
      BY <1>1, <2>9
    <3>2. /\ x[1] \in Nat /\ x[2] \in Nat /\ x[3] \in Nat /\ client.from <= x[1]
          /\ x[1] <= last /\ x[2] < TxMax /\ x[3] < EventMax
      BY <2>1, <3>1, ItemFacts, BoxParts
    <3>3. CASE start[1] <= x[1] /\ ~Precedes(x, start)
      <4>1. x \in all
        BY <2>1, <2>3, <3>1, <3>2, <3>3, ItemsOfRange DEF all
      <4>2. x[1] < end
        BY <2>8, <2>9, <4>1
      <4>3. x \in rest
        BY <3>3, <4>1, <4>2
      <4> HIDE DEF rest
      <4> QED
        BY <2>8, <2>9, <4>3
    <3>4. CASE x[1] < start[1] \/ Precedes(x, start)
      <4>1. CASE old = NoCursor /\ start = <<client.from, 0, 0>>
        BY <2>1, <3>2, <3>4, <4>1 DEF Precedes
      <4>2. CASE start = <<old[1], old[2], old[3] + 1>>
        BY <2>1, <3>2, <3>4, <4>2 DEF Precedes
      <4>3. CASE old = <<old[1], TxMax, EventMax>> /\ start = <<old[1], TxMax, 0>>
        BY <2>1, <3>2, <3>4, <4>3 DEF Precedes
      <4> QED
        BY <2>2, <4>1, <4>2, <4>3
    <3> QED
      BY <2>3, <3>2, <3>3, <3>4
  <2>10. /\ Turn(page, c) /\ page \in SUBSET Box
         /\ \A x \in page : Precedes(old, x)
    BY <1>1, <1>3, <2>6, <2>7 DEF c
  <2> HIDE DEF rest
  <2> QED
    BY <1>1, <2>8, <2>9, <2>10, TurnList
<1> QED
  BY <1>2, <1>3

(* The invariant is inductive: one step per action.                         *)
LEMMA NextList == ListInv /\ [Next]_vars => ListInv'
BY CloseLedgerList, StartListingList, GetLedgersList, GetTransactionsList, GetEventsList,
   UnchangedList DEF Next, vars

(* Following cursors skips no ledger, no transaction and no event, whatever *)
(* the limits are and however the ledgers are filled.                       *)
THEOREM CursorsSkipNothing == Spec => []NothingSkipped
<1>1. ListInv => NothingSkipped
  BY DEF ListInv
<1> QED
  BY InitList, NextList, <1>1, PTL DEF Spec

(* Following cursors delivers no ledger and no event twice.                 *)
THEOREM CursorsRepeatNothing == Spec => []NothingRepeated
<1>1. ListInv => NothingRepeated
  BY DEF ListInv
<1> QED
  BY InitList, NextList, <1>1, PTL DEF Spec
=============================================================================
