---------------------------- MODULE LoaderProofs ----------------------------
(***************************************************************************)
(* Proofs about Loader, for any files, libraries, batches and probe orders.*)
(*                                                                         *)
(* The invariant says of every moment of a batch what FirstValidWins says: *)
(* the names seen are those of the valid libraries tried so far, and of    *)
(* each name the first is the plugin.  That a batch can be sorted at all,  *)
(* and what the sort leaves, are facts about InOrder: a finite set with a  *)
(* total order has a last element, and what remains is sorted before it.   *)
(***************************************************************************)
EXTENDS Loader, FiniteSetTheorems, WellFoundedInduction, SequenceTheorems, TLAPS

-----------------------------------------------------------------------------
(* Sorting a finite set. *)

TotalOrder(before, S) ==
  /\ \A x, y \in S : x # y => <<x, y>> \in before \/ <<y, x>> \in before
  /\ \A x, y, z \in S : <<x, y>> \in before /\ <<y, z>> \in before => <<x, z>> \in before
  /\ \A x \in S : <<x, x>> \notin before

Sorted(s, S, before) ==
  /\ s \in [1..Cardinality(S) -> S]
  /\ \A i, j \in 1..Cardinality(S) : i < j => <<s[i], s[j]>> \in before

(* A set of finite sets has one with no other inside it. *)
LEMMA Innermost ==
  ASSUME NEW S, IsFiniteSet(S), NEW Sets \in SUBSET (SUBSET S), Sets # {}
  PROVE  \E T \in Sets : IsFiniteSet(T) /\ \A U \in Sets : U \subseteq T => U = T
<1>1. FiniteSubsetsOf(S) = SUBSET S
  BY FS_FiniteSubsetsOfFinite
<1>2. IsWellFoundedOn(StrictSubsetOrdering(S), SUBSET S)
  BY <1>1, FS_StrictSubsetOrderingWellFounded
<1>3. PICK T \in Sets : \A U \in Sets : <<U, T>> \notin StrictSubsetOrdering(S)
  BY <1>2, WFMin
<1>4. \A U \in Sets : U \subseteq T => U = T
  BY <1>3 DEF StrictSubsetOrdering
<1>5. IsFiniteSet(T)
  BY FS_Subset
<1>. QED BY <1>4, <1>5

(* A finite set has an element that all others come before. *)
LEMMA HasLast ==
  ASSUME NEW S, IsFiniteSet(S), S # {}, NEW before, TotalOrder(before, S)
  PROVE  \E m \in S : \A x \in S \ {m} : <<x, m>> \in before
<1>. DEFINE HasOne(T) == \E m \in T : \A x \in T \ {m} : <<x, m>> \in before
            Sets == {T \in SUBSET S : T # {} /\ ~HasOne(T)}
<1>1. SUFFICES ASSUME Sets # {}
               PROVE  FALSE
  <2>1. HasOne(S)
    BY <1>1
  <2>. QED BY <2>1
<1>2. PICK T \in Sets : IsFiniteSet(T) /\ \A U \in Sets : U \subseteq T => U = T
  <2>1. Sets \in SUBSET (SUBSET S)
    OBVIOUS
  <2>. HIDE DEF Sets
  <2>. QED BY <1>1, <2>1, Innermost
<1>3. PICK x \in T : TRUE
  BY <1>2
<1>4. CASE T = {x}
  BY <1>2, <1>4
<1>5. CASE T # {x}
  <2>1. T \ {x} \notin Sets /\ T \ {x} # {}
    BY <1>2, <1>3, <1>5
  <2>2. PICK m \in T \ {x} : \A y \in (T \ {x}) \ {m} : <<y, m>> \in before
    BY <1>2, <2>1
  <2>3. CASE <<x, m>> \in before
    BY <1>2, <2>2, <2>3
  <2>4. CASE <<m, x>> \in before
    <3>1. \A y \in T \ {x} : <<y, x>> \in before
      BY <1>2, <1>3, <2>2, <2>4 DEF TotalOrder
    <3>. QED BY <1>2, <1>3, <3>1
  <2>. QED BY <1>2, <1>3, <2>2, <2>3, <2>4 DEF TotalOrder
<1>. QED BY <1>4, <1>5

(* A finite set can be sorted. *)
LEMMA Sortable ==
  ASSUME NEW S, IsFiniteSet(S), NEW before, TotalOrder(before, S)
  PROVE  \E s : Sorted(s, S, before)
<1>. DEFINE Sets == {T \in SUBSET S : ~ \E s : Sorted(s, T, before)}
<1>1. SUFFICES ASSUME Sets # {}
               PROVE  FALSE
  <2>1. S \notin Sets
    BY <1>1
  <2>. QED BY <2>1
<1>2. PICK T \in Sets : IsFiniteSet(T) /\ \A U \in Sets : U \subseteq T => U = T
  <2>1. Sets \in SUBSET (SUBSET S)
    OBVIOUS
  <2>. HIDE DEF Sets
  <2>. QED BY <1>1, <2>1, Innermost
<1>3. CASE T = {}
  <2>1. Cardinality(T) = 0
    BY <1>3, FS_EmptySet
  <2>2. Sorted([i \in 1..0 |-> i], T, before)
    BY <2>1 DEF Sorted
  <2>. QED BY <1>2, <2>2
<1>4. CASE T # {}
  <2>1. TotalOrder(before, T)
    BY <1>2 DEF TotalOrder
  <2>2. PICK m \in T : \A x \in T \ {m} : <<x, m>> \in before
    BY <1>2, <1>4, <2>1, HasLast
  <2>. DEFINE U == T \ {m}
              n == Cardinality(U)
  <2>3. n \in Nat /\ Cardinality(T) = n + 1
    <3>1. IsFiniteSet(U) /\ n = Cardinality(T) - 1
      BY <1>2, <2>2, FS_RemoveElement
    <3>2. n \in Nat /\ Cardinality(T) \in Nat
      BY <1>2, <3>1, FS_CardinalityType
    <3>. QED BY <3>1, <3>2
  <2>4. U \notin Sets
    BY <1>2, <2>2
  <2>5. PICK s : Sorted(s, U, before)
    BY <1>2, <2>4
  <2>. DEFINE t == [i \in 1..(n + 1) |-> IF i = n + 1 THEN m ELSE s[i]]
  <2>6. \A i \in 1..n : t[i] = s[i] /\ s[i] \in U
    <3>1. s \in [1..n -> U]
      BY <2>5 DEF Sorted
    <3>. HIDE DEF U, n
    <3>. QED BY <2>3, <3>1
  <2>7. t[n + 1] = m
    <3>. HIDE DEF n
    <3>. QED BY <2>3
  <2>8. \A i, j \in 1..n : i < j => <<s[i], s[j]>> \in before
    BY <2>5 DEF Sorted
  <2>9. t \in [1..(n + 1) -> T]
    <3>. HIDE DEF n
    <3>1. \A i \in 1..(n + 1) : i = n + 1 \/ i \in 1..n
      BY <2>3
    <3>. QED BY <2>2, <2>6, <2>7, <3>1
  <2>10. ASSUME NEW i \in 1..(n + 1), NEW j \in 1..(n + 1), i < j
         PROVE  <<t[i], t[j]>> \in before
    <3>. HIDE DEF n, t
    <3>1. i \in 1..n /\ (j = n + 1 \/ j \in 1..n)
      BY <2>3, <2>10
    <3>2. CASE j = n + 1
      BY <2>2, <2>6, <2>7, <3>1, <3>2
    <3>3. CASE j \in 1..n
      BY <2>6, <2>8, <2>10, <3>1, <3>3
    <3>. QED BY <3>1, <3>2, <3>3
  <2>11. Sorted(t, T, before)
    <3>. HIDE DEF n, t
    <3>. QED BY <2>3, <2>9, <2>10 DEF Sorted
  <2>. QED BY <1>2, <2>11
<1>. QED BY <1>3, <1>4

(* What a sort leaves: the elements of the set, each once, in order. *)
LEMMA InOrderSorts ==
  ASSUME NEW S, IsFiniteSet(S), NEW before, TotalOrder(before, S)
  PROVE  LET s == InOrder(S, before)
         IN  /\ Cardinality(S) \in Nat
             /\ s \in [1..Cardinality(S) -> S]
             /\ \A i, j \in 1..Cardinality(S) : i < j => <<s[i], s[j]>> \in before
             /\ \A i, j \in 1..Cardinality(S) : s[i] = s[j] => i = j
             /\ \A x \in S : \E i \in 1..Cardinality(S) : s[i] = x
<1>. DEFINE s == InOrder(S, before)
            n == Cardinality(S)
<1>1. n \in Nat
  BY FS_CardinalityType
<1>2. s \in [1..n -> S] /\ \A i, j \in 1..n : i < j => <<s[i], s[j]>> \in before
  BY Sortable DEF Sorted, InOrder
<1>3. \A i, j \in 1..n : s[i] = s[j] => i = j
  <2>. HIDE DEF s, n
  <2>. SUFFICES ASSUME NEW i \in 1..n, NEW j \in 1..n, s[i] = s[j], i # j
                PROVE  FALSE
    OBVIOUS
  <2>1. i < j \/ j < i
    BY <1>1
  <2>2. <<s[i], s[i]>> \in before /\ s[i] \in S
    BY <1>2, <2>1
  <2>. QED BY <2>2 DEF TotalOrder
<1>4. \A x \in S : \E i \in 1..n : s[i] = x
  <2>1. s \in Injection(1..n, S)
    <3>. HIDE DEF s, n
    <3>. QED BY <1>2, <1>3 DEF Injection, IsInjective
  <2>2. Cardinality(1..n) = n
    <3>. HIDE DEF n
    <3>1. Cardinality(1..n) = IF 1 > n THEN 0 ELSE n - 1 + 1
      BY <1>1, FS_Interval
    <3>. QED BY <1>1, <3>1
  <2>3. s \in Surjection(1..n, S)
    BY <2>1, <2>2, FS_Injection
  <2>. QED BY <2>3 DEF Surjection
<1>. QED BY <1>1, <1>2, <1>3, <1>4

(* The elements of a set of numbers, each once, the smallest first. *)
LEMMA AscendingSorts ==
  ASSUME NEW S \in SUBSET Nat, IsFiniteSet(S)
  PROVE  LET s == Ascending(S)
         IN  /\ Cardinality(S) \in Nat
             /\ s \in [1..Cardinality(S) -> S]
             /\ \A i, j \in 1..Cardinality(S) : i < j => s[i] < s[j]
             /\ \A x \in S : \E i \in 1..Cardinality(S) : s[i] = x
<1>. DEFINE before == {pair \in S \X S : pair[1] < pair[2]}
            s == Ascending(S)
<1>1. \A x, y \in S : <<x, y>> \in before <=> x < y
  OBVIOUS
<1>2. TotalOrder(before, S)
  <2>. HIDE DEF before
  <2>. QED BY <1>1 DEF TotalOrder
<1>3. s = InOrder(S, before)
  BY DEF Ascending
<1>. HIDE DEF before, s
<1>4. /\ Cardinality(S) \in Nat
      /\ s \in [1..Cardinality(S) -> S]
      /\ \A i, j \in 1..Cardinality(S) : i < j => <<s[i], s[j]>> \in before
      /\ \A x \in S : \E i \in 1..Cardinality(S) : s[i] = x
  BY <1>2, <1>3, InOrderSorts
<1>5. \A i, j \in 1..Cardinality(S) : i < j => s[i] < s[j]
  BY <1>1, <1>4
<1>. QED BY <1>4, <1>5 DEF s

(* A set of numbers has a smallest. *)
LEMMA MinIsLeast ==
  ASSUME NEW S \in SUBSET Nat, S # {}
  PROVE  Min(S) \in S /\ \A x \in S : Min(S) <= x
<1>. PICK k \in S : TRUE
  OBVIOUS
<1>. DEFINE Sets == {0..m : m \in {x \in S : x <= k}}
<1>1. Sets \in SUBSET (SUBSET (0..k)) /\ 0..k \in Sets
  OBVIOUS
<1>2. PICK T \in Sets : \A U \in Sets : U \subseteq T => U = T
  <2>1. IsFiniteSet(0..k)
    BY FS_Interval
  <2>2. Sets # {}
    BY <1>1
  <2>. DEFINE S0 == 0..k
  <2>. HIDE DEF Sets, S0
  <2>3. Sets \in SUBSET (SUBSET S0) /\ IsFiniteSet(S0)
    BY <1>1, <2>1 DEF S0
  <2>. QED BY <2>2, <2>3, Innermost
<1>3. PICK m \in S : m <= k /\ T = 0..m
  OBVIOUS
<1>4. ASSUME NEW x \in S, x < m
      PROVE  FALSE
  <2>1. 0..x \in Sets /\ 0..x \subseteq T
    BY <1>3, <1>4
  <2>2. 0..x = T
    BY <1>2, <2>1
  <2>3. m \in T
    BY <1>3
  <2>4. m \in 0..x
    BY <2>2, <2>3
  <2>. QED BY <1>4, <2>4
<1>5. \A x \in S : m <= x
  BY <1>4
<1>. QED BY <1>5 DEF Min

-----------------------------------------------------------------------------
(* What the loader finds in a library. *)

LEMMA KindOrderTypes ==
  /\ KindOrder \in Seq(Kinds) /\ DOMAIN KindOrder = 1..Len(KindOrder)
  /\ Len(KindOrder) \in Nat
  /\ \A i \in DOMAIN KindOrder : KindOrder[i] \in Kinds
BY LoaderAssumption

LEMMA EntryTypes ==
  ASSUME NEW library \in Libraries
  PROVE  /\ library.opens \in BOOLEAN
         /\ Resolved(library) \in SUBSET Nat
         /\ \A kind \in DOMAIN library.entry : library.entry[kind] \in Header \cup {None}
         /\ Resolved(library) # {} =>
              /\ Min(Resolved(library)) \in Resolved(library)
              /\ \A i \in Resolved(library) : Min(Resolved(library)) <= i
              /\ KindOf(library) \in Kinds
              /\ HeaderOf(library) \in Header \cup {None}
<1>1. library \in Library
  BY LoaderAssumption
<1>2. library.opens \in BOOLEAN
      /\ library.entry \in UNION {[exported -> Header \cup {None}] : exported \in SUBSET Kinds}
  BY <1>1 DEF Library
<1>3. \A kind \in DOMAIN library.entry : library.entry[kind] \in Header \cup {None}
  <2>1. PICK exported \in SUBSET Kinds : library.entry \in [exported -> Header \cup {None}]
    BY <1>2
  <2>. QED BY <2>1
<1>4. Resolved(library) \in SUBSET Nat
  BY KindOrderTypes DEF Resolved
<1>5. ASSUME Resolved(library) # {}
      PROVE  /\ Min(Resolved(library)) \in Resolved(library)
             /\ \A i \in Resolved(library) : Min(Resolved(library)) <= i
             /\ KindOf(library) \in Kinds
             /\ HeaderOf(library) \in Header \cup {None}
  <2>1. /\ Min(Resolved(library)) \in Resolved(library)
        /\ \A i \in Resolved(library) : Min(Resolved(library)) <= i
    BY <1>4, <1>5, MinIsLeast
  <2>2. KindOf(library) \in Kinds /\ KindOf(library) \in DOMAIN library.entry
    BY <2>1, KindOrderTypes DEF KindOf, Resolved
  <2>. QED BY <1>3, <2>1, <2>2 DEF HeaderOf
<1>. QED BY <1>2, <1>3, <1>4, <1>5

GoodHeaders ==
  [api_version : {ApiVersion}, name : Names, version : {NoText}, library_version : {NoText}]

(* A header passes the checks when it is one the ABI allows. *)
LEMMA HeaderChecked ==
  ASSUME NEW header \in Header \cup {None}
  PROVE  /\ HeaderError(header) = "none" <=> header \in GoodHeaders
         /\ HeaderError(header) \in LoadErrors \cup {"none"}
<1>1. GoodHeaders \subseteq Header /\ None \notin Header
  BY LoaderAssumption DEF GoodHeaders, Header, Text
<1>2. HeaderError(header) \in LoadErrors \cup {"none"}
  BY DEF HeaderError, LoadErrors
<1>3. CASE header = None
  BY <1>1, <1>2, <1>3 DEF HeaderError
<1>4. CASE header \in Header
  <2>1. /\ header.api_version \in Versions /\ header.name \in Text
        /\ header.version \in {NoText, TooLong} /\ header.library_version \in {NoText, TooLong}
        /\ header = [api_version |-> header.api_version, name |-> header.name,
                     version |-> header.version, library_version |-> header.library_version]
    BY <1>4 DEF Header
  <2>2. NoText # TooLong /\ TooLong \notin Names /\ NoText \notin Names
    BY LoaderAssumption DEF NoText, TooLong
  <2>3. HeaderError(header) = "none" <=>
          /\ header.api_version = ApiVersion
          /\ TooLong \notin {header.name, header.version, header.library_version}
          /\ header.name # NoText
    BY <1>1, <1>4 DEF HeaderError
  <2>4. header \in GoodHeaders <=>
          /\ header.api_version = ApiVersion /\ header.name \in Names
          /\ header.version = NoText /\ header.library_version = NoText
    BY <2>1 DEF GoodHeaders
  <2>. QED BY <1>2, <2>1, <2>2, <2>3, <2>4 DEF Text
<1>. QED BY <1>3, <1>4

(* load_one finds nothing wrong with the valid libraries and no others. *)
LEMMA ErrorTells ==
  ASSUME disk \in [Files -> Libraries], NEW f \in Files
  PROVE  /\ ErrorOf(disk[f]) \in LoadErrors \cup {"none"}
         /\ ErrorOf(disk[f]) = "none" <=> Valid(f)
         /\ Valid(f) => /\ KindOf(disk[f]) \in Kinds
                        /\ HeaderOf(disk[f]).name \in Names
<1>. DEFINE library == disk[f]
            first == Min(Resolved(library))
<1>1. library \in Libraries
  OBVIOUS
<1>2. Valid(f) <=> /\ library.opens
                   /\ \E i \in Resolved(library) :
                        /\ \A j \in 1..(i - 1) : j \notin Resolved(library)
                        /\ library.entry[KindOrder[i]] \in GoodHeaders
  <2>1. \A i \in DOMAIN KindOrder : \A j \in 1..(i - 1) : j \in DOMAIN KindOrder
    BY KindOrderTypes
  <2>. QED BY <2>1 DEF Valid, Resolved, GoodHeaders
<1>. HIDE DEF library
<1>3. CASE ~library.opens \/ Resolved(library) = {}
  BY <1>2, <1>3, EntryTypes DEF ErrorOf, LoadErrors, library
<1>4. CASE library.opens /\ Resolved(library) # {}
  <2>1. /\ first \in Resolved(library) /\ Resolved(library) \in SUBSET Nat
        /\ \A i \in Resolved(library) : first <= i
        /\ KindOf(library) \in Kinds
        /\ HeaderOf(library) \in Header \cup {None}
    BY <1>1, <1>4, EntryTypes
  <2>2. HeaderOf(library) = library.entry[KindOrder[first]]
    BY DEF HeaderOf, KindOf
  <2>3. ErrorOf(library) = HeaderError(HeaderOf(library))
    BY <1>4 DEF ErrorOf
  <2>. HIDE DEF first
  <2>4. \A i \in Resolved(library) :
          (\A j \in 1..(i - 1) : j \notin Resolved(library)) => i = first
    <3>. SUFFICES ASSUME NEW i \in Resolved(library), i # first
                  PROVE  first \in 1..(i - 1) /\ first \in Resolved(library)
      OBVIOUS
    <3>1. i \in Nat /\ first \in Nat /\ first <= i
      BY <2>1
    <3>2. 1 <= first
      BY <2>1, KindOrderTypes DEF Resolved
    <3>. QED BY <2>1, <3>1, <3>2
  <2>5. \A j \in 1..(first - 1) : j \notin Resolved(library)
    <3>. SUFFICES ASSUME NEW j \in 1..(first - 1), j \in Resolved(library)
                  PROVE  FALSE
      OBVIOUS
    <3>. QED BY <2>1
  <2>6. Valid(f) <=> HeaderOf(library) \in GoodHeaders
    BY <1>2, <1>4, <2>1, <2>2, <2>4, <2>5
  <2>7. HeaderOf(library) \in GoodHeaders => HeaderOf(library).name \in Names
    BY DEF GoodHeaders
  <2>. QED BY <2>1, <2>3, <2>6, <2>7, HeaderChecked DEF library
<1>. QED BY <1>3, <1>4

-----------------------------------------------------------------------------
(* Keys, and the order they give the plugins. *)

Triples == Int \X Int \X Int

LEMMA LessMeans ==
  ASSUME NEW a \in Triples, NEW b \in Triples
  PROVE  Less(a, b) <=>
           \/ a[1] < b[1]
           \/ a[1] = b[1] /\ a[2] < b[2]
           \/ a[1] = b[1] /\ a[2] = b[2] /\ a[3] < b[3]
<1>1. \A i \in 1..3 : i = 1 \/ i = 2 \/ i = 3
  OBVIOUS
<1>2. 1..(1 - 1) = {} /\ 1..(2 - 1) = {1} /\ 1..(3 - 1) = {1, 2}
  OBVIOUS
<1>3. (\A j \in 1..(1 - 1) : a[j] = b[j]) <=> TRUE
  BY <1>2
<1>4. (\A j \in 1..(2 - 1) : a[j] = b[j]) <=> a[1] = b[1]
  BY <1>2
<1>5. (\A j \in 1..(3 - 1) : a[j] = b[j]) <=> (a[1] = b[1] /\ a[2] = b[2])
  BY <1>2
<1>. DEFINE Here(i) == a[i] < b[i] /\ \A j \in 1..(i - 1) : a[j] = b[j]
<1>6. Less(a, b) <=> \E i \in 1..3 : Here(i)
  BY DEF Less
<1>7. Here(1) <=> a[1] < b[1]
  BY <1>3
<1>8. Here(2) <=> a[2] < b[2] /\ a[1] = b[1]
  BY <1>4
<1>9. Here(3) <=> a[3] < b[3] /\ a[1] = b[1] /\ a[2] = b[2]
  BY <1>5
<1>. HIDE DEF Here
<1>10. Less(a, b) <=> Here(1) \/ Here(2) \/ Here(3)
  BY <1>1, <1>6
<1>. QED BY <1>7, <1>8, <1>9, <1>10

(* Triples are in one order, as numbers are. *)
LEMMA LessOrders ==
  ASSUME NEW a \in Triples, NEW b \in Triples, NEW c \in Triples
  PROVE  /\ ~Less(a, a)
         /\ Less(a, b) \/ Less(b, a) \/ a = b
         /\ Less(a, b) /\ Less(b, c) => Less(a, c)
<1>1. /\ a[1] \in Int /\ a[2] \in Int /\ a[3] \in Int /\ a = <<a[1], a[2], a[3]>>
      /\ b[1] \in Int /\ b[2] \in Int /\ b[3] \in Int /\ b = <<b[1], b[2], b[3]>>
      /\ c[1] \in Int /\ c[2] \in Int /\ c[3] \in Int
  BY DEF Triples
<1>2. ~Less(a, a)
  BY <1>1, LessMeans
<1>3. Less(a, b) \/ Less(b, a) \/ a = b
  <2>1. a[1] = b[1] /\ a[2] = b[2] /\ a[3] = b[3] => a = b
    BY <1>1
  <2>. QED BY <1>1, <2>1, LessMeans
<1>4. Less(a, b) /\ Less(b, c) => Less(a, c)
  BY <1>1, LessMeans
<1>. QED BY <1>2, <1>3, <1>4

(* Where a name is pinned first. *)
LEMMA FirstPinFound ==
  ASSUME NEW pins \in Seq(Names), NEW name, \E i \in DOMAIN pins : pins[i] = name
  PROVE  FirstPin(pins, name) \in Nat /\ FirstPin(pins, name) \in DOMAIN pins
         /\ pins[FirstPin(pins, name)] = name
<1>. DEFINE S == {i \in DOMAIN pins : pins[i] = name}
<1>1. S \in SUBSET Nat /\ S # {}
  OBVIOUS
<1>2. Min(S) \in S
  <2>. HIDE DEF S
  <2>. QED BY <1>1, MinIsLeast
<1>. QED BY <1>1, <1>2 DEF FirstPin

LEMMA OrderTypes ==
  ASSUME order \in Orders
  PROVE  order.first \in Seq(Names) /\ order.last \in Seq(Names)
BY LoaderAssumption

(* A key says where its name is pinned, and ends in the name. *)
LEMMA KeyMeans ==
  ASSUME order \in Orders, NEW name \in Names
  PROVE  /\ Key(name) \in Triples
         /\ Key(name)[3] = name
         /\ name \in Pins(order.first) =>
              Key(name)[1] = 0 /\ Key(name)[2] = FirstPin(order.first, name)
         /\ name \in Pins(order.last) \ Pins(order.first) =>
              Key(name)[1] = 2 /\ Key(name)[2] = FirstPin(order.last, name)
         /\ name \notin Pins(order.first) \cup Pins(order.last) =>
              Key(name)[1] = 1 /\ Key(name)[2] = 0
<1>. DEFINE p == FirstPin(order.first, name)
            q == FirstPin(order.last, name)
<1>1. order.first \in Seq(Names) /\ order.last \in Seq(Names) /\ name \in Int
  BY OrderTypes, LoaderAssumption
<1>2. /\ name \in Pins(order.first) <=> \E i \in DOMAIN order.first : order.first[i] = name
      /\ name \in Pins(order.last) <=> \E i \in DOMAIN order.last : order.last[i] = name
  BY DEF Pins
<1>3. CASE name \in Pins(order.first)
  <2>1. p \in Nat
    BY <1>1, <1>2, <1>3, FirstPinFound
  <2>2. Key(name) = <<0, p, name>>
    BY <1>2, <1>3 DEF Key
  <2>. HIDE DEF p
  <2>3. Key(name) \in Triples /\ Key(name)[1] = 0 /\ Key(name)[2] = p /\ Key(name)[3] = name
    BY <1>1, <2>1, <2>2 DEF Triples
  <2>. QED BY <1>3, <2>3 DEF p
<1>4. CASE name \in Pins(order.last) \ Pins(order.first)
  <2>1. q \in Nat
    BY <1>1, <1>2, <1>4, FirstPinFound
  <2>2. Key(name) = <<2, q, name>>
    BY <1>2, <1>4 DEF Key
  <2>. HIDE DEF q
  <2>3. Key(name) \in Triples /\ Key(name)[1] = 2 /\ Key(name)[2] = q /\ Key(name)[3] = name
    BY <1>1, <2>1, <2>2 DEF Triples
  <2>. QED BY <1>4, <2>3 DEF q
<1>5. CASE name \notin Pins(order.first) \cup Pins(order.last)
  <2>1. Key(name) = <<1, 0, name>>
    BY <1>2, <1>5 DEF Key
  <2>2. Key(name) \in Triples /\ Key(name)[1] = 1 /\ Key(name)[2] = 0 /\ Key(name)[3] = name
    BY <1>1, <2>1 DEF Triples
  <2>. QED BY <1>5, <2>2
<1>. QED BY <1>3, <1>4, <1>5

(* Of two plugins of different names, the keys put first the one that is
   pinned first earlier, or later last, or comes first by name. *)
LEMMA KeysDecide ==
  ASSUME order \in Orders, NEW a \in Names, NEW b \in Names, a # b,
         Less(Key(a), Key(b)) \/ Key(a) = Key(b)
  PROVE  LET first == Pins(order.first)
             last  == Pins(order.last) \ first
         IN  /\ b \in first => a \in first /\ FirstPin(order.first, a) < FirstPin(order.first, b)
             /\ a \in last => b \in last /\ FirstPin(order.last, a) < FirstPin(order.last, b)
             /\ {a, b} \cap (first \cup last) = {} => a < b
<1>. DEFINE first == Pins(order.first)
            last  == Pins(order.last) \ first
            x == Key(a)
            y == Key(b)
<1>1. /\ order.first \in Seq(Names) /\ order.last \in Seq(Names)
      /\ a \in Int /\ b \in Int
  BY OrderTypes, LoaderAssumption
<1>2. /\ x \in Triples /\ x[3] = a
      /\ a \in first => x[1] = 0 /\ x[2] = FirstPin(order.first, a)
      /\ a \in last => x[1] = 2 /\ x[2] = FirstPin(order.last, a)
      /\ a \notin first \cup last => x[1] = 1 /\ x[2] = 0
  BY KeyMeans
<1>3. /\ y \in Triples /\ y[3] = b
      /\ b \in first => y[1] = 0 /\ y[2] = FirstPin(order.first, b)
      /\ b \in last => y[1] = 2 /\ y[2] = FirstPin(order.last, b)
      /\ b \notin first \cup last => y[1] = 1 /\ y[2] = 0
  BY KeyMeans
<1>4. \/ x[1] < y[1]
      \/ x[1] = y[1] /\ x[2] < y[2]
      \/ x[1] = y[1] /\ x[2] = y[2] /\ a < b
  <2>1. x = y => a = b
    BY <1>2, <1>3
  <2>2. Less(x, y)
    BY <2>1
  <2>. HIDE DEF x, y
  <2>. QED BY <1>2, <1>3, <2>2, LessMeans
<1>5. /\ a \in first => order.first[FirstPin(order.first, a)] = a
      /\ b \in first => order.first[FirstPin(order.first, b)] = b
      /\ a \in last => order.last[FirstPin(order.last, a)] = a
      /\ b \in last => order.last[FirstPin(order.last, b)] = b
  BY <1>1, FirstPinFound DEF Pins
<1>. HIDE DEF first, last, x, y
<1>6. ASSUME b \in first
      PROVE  a \in first /\ FirstPin(order.first, a) < FirstPin(order.first, b)
  <2>1. y[1] = 0 /\ y[2] = FirstPin(order.first, b)
    BY <1>3, <1>6
  <2>2. a \in first
    BY <1>2, <1>4, <2>1
  <2>3. x[1] = 0 /\ x[2] = FirstPin(order.first, a)
    BY <1>2, <2>2
  <2>4. FirstPin(order.first, a) # FirstPin(order.first, b)
    BY <1>5, <1>6, <2>2
  <2>. QED BY <1>4, <2>1, <2>2, <2>3, <2>4
<1>7. ASSUME a \in last
      PROVE  b \in last /\ FirstPin(order.last, a) < FirstPin(order.last, b)
  <2>1. x[1] = 2 /\ x[2] = FirstPin(order.last, a)
    BY <1>2, <1>7
  <2>2. b \in last
    BY <1>3, <1>4, <2>1
  <2>3. y[1] = 2 /\ y[2] = FirstPin(order.last, b)
    BY <1>3, <2>2
  <2>4. FirstPin(order.last, a) # FirstPin(order.last, b)
    BY <1>5, <1>7, <2>2
  <2>. QED BY <1>4, <2>1, <2>2, <2>3, <2>4
<1>8. ASSUME {a, b} \cap (first \cup last) = {}
      PROVE  a < b
  BY <1>2, <1>3, <1>4, <1>8
<1>. QED BY <1>6, <1>7, <1>8 DEF first, last

-----------------------------------------------------------------------------
(* The invariant. *)

Failures == [path : Files \cup {Directory, Missing},
             error : LoadErrors \cup {"Path", "DuplicateName"}]

Types ==
  /\ disk \in [Files -> Libraries] /\ order \in Orders
  /\ paths \in Seq(Files \cup {Directory, Missing})
  /\ files \in Seq(Files) /\ plugins \in Seq(Files) /\ tried \in Seq(Files)
  /\ errors \in Seq(Failures)
  /\ selection \in Selections

(* The names taken are the plugins', and those of every valid copy tried. *)
NamesSeen ==
  /\ seen = {Identity(disk[f]) : f \in ToSet(plugins)}
  /\ seen = {Identity(disk[f]) : f \in {g \in ToSet(tried) : Valid(g)}}

(* Once the batch is loaded, the plugins are in the order of their keys. *)
Arranged ==
  ~Loading => \A i, j \in DOMAIN plugins : i < j =>
                Less(KeyAt(i), KeyAt(j)) \/ KeyAt(i) = KeyAt(j)

(* A plugin is the first that said it is unsure, or none did. *)
FirstUnsure(asked, plugin) ==
  \/ plugin = None /\ \A i \in DOMAIN asked : asked[i].of_file # "Unsure"
  \/ \E i \in DOMAIN asked :
       /\ asked[i].of_file = "Unsure" /\ plugin = asked[i].plugin
       /\ \A j \in DOMAIN asked : j < i => asked[j].of_file # "Unsure"

(* While plugins are asked, none has claimed the file yet. *)
Asking ==
  selection.stage = "probing" =>
    /\ \A i \in DOMAIN selection.asked : selection.asked[i].of_file # "Supported"
    /\ FirstUnsure(selection.asked, selection.unsure)

IInv ==
  Types /\ NamesSeen /\ FirstValidWins /\ Arranged /\ Asking /\ FirstClaimWins

-----------------------------------------------------------------------------
(* The same of any disk, plugins, errors and files tried, so that a step can
   be reasoned about by the values it leaves. *)

ValidOn(d, f) ==
  /\ d[f].opens
  /\ \E i \in DOMAIN KindOrder :
       /\ KindOrder[i] \in DOMAIN d[f].entry
       /\ \A j \in 1..(i - 1) : KindOrder[j] \notin DOMAIN d[f].entry
       /\ d[f].entry[KindOrder[i]] \in
            [api_version : {ApiVersion}, name : Names, version : {NoText},
             library_version : {NoText}]

(* The first valid copy of each name. *)
Firsts(d, t) ==
  {t[i] : i \in {i \in DOMAIN t :
     /\ ValidOn(d, t[i])
     /\ \A j \in 1..(i - 1) : ~(ValidOn(d, t[j]) /\ Identity(d[t[j]]) = Identity(d[t[i]]))}}

Refusals(e) == {i \in DOMAIN e : e[i].error # "Path"}

Answered(d, p, e, t) ==
  /\ ToSet(p) = Firsts(d, t)
  /\ IsInjective(p)
  /\ Cardinality(Refusals(e)) = Len(t) - Len(p)

Seen(d, s, p, t) ==
  /\ s = {Identity(d[f]) : f \in ToSet(p)}
  /\ s = {Identity(d[f]) : f \in {g \in ToSet(t) : ValidOn(d, g)}}

LEMMA AnsweredMeans ==
  /\ FirstValidWins <=> Answered(disk, plugins, errors, tried)
  /\ FirstValidWins' <=> Answered(disk', plugins', errors', tried')
BY DEF FirstValidWins, Answered, Firsts, Refusals, Valid, ValidOn, Same

LEMMA SeenMeans ==
  /\ NamesSeen <=> Seen(disk, seen, plugins, tried)
  /\ NamesSeen' <=> Seen(disk', seen', plugins', tried')
BY DEF NamesSeen, Seen, Valid, ValidOn

(* A valid file is in it if no valid file before it has its name. *)
LEMMA FirstsAppend ==
  ASSUME NEW d, NEW t \in Seq(Files), NEW f \in Files
  PROVE  Firsts(d, Append(t, f)) =
           IF /\ ValidOn(d, f)
              /\ \A j \in DOMAIN t : ~(ValidOn(d, t[j]) /\ Identity(d[t[j]]) = Identity(d[f]))
           THEN Firsts(d, t) \cup {f} ELSE Firsts(d, t)
<1>. DEFINE u == Append(t, f)
            n == Len(t)
            Good(s, i) == /\ ValidOn(d, s[i])
                          /\ \A j \in 1..(i - 1) :
                               ~(ValidOn(d, s[j]) /\ Identity(d[s[j]]) = Identity(d[s[i]]))
<1>1. /\ n \in Nat /\ DOMAIN t = 1..n /\ DOMAIN u = 1..(n + 1)
      /\ \A i \in 1..n : u[i] = t[i]
      /\ u[n + 1] = f
  OBVIOUS
<1>. HIDE DEF u, n
<1>2. \A i \in 1..n : Good(u, i) <=> Good(t, i)
  <2>1. \A i \in 1..n : \A j \in 1..(i - 1) : j \in 1..n
    BY <1>1
  <2>. QED BY <1>1, <2>1
<1>3. Good(u, n + 1) <=>
        /\ ValidOn(d, f)
        /\ \A j \in DOMAIN t : ~(ValidOn(d, t[j]) /\ Identity(d[t[j]]) = Identity(d[f]))
  <2>1. 1..(n + 1 - 1) = DOMAIN t
    BY <1>1
  <2>. QED BY <1>1, <2>1
<1>. HIDE DEF Good
<1>4. /\ Firsts(d, t) = {t[i] : i \in {i \in DOMAIN t : Good(t, i)}}
      /\ Firsts(d, u) = {u[i] : i \in {i \in DOMAIN u : Good(u, i)}}
  BY DEF Firsts, Good
<1>5. Firsts(d, t) \subseteq Firsts(d, u)
  BY <1>1, <1>2, <1>4
<1>6. \A i \in 1..(n + 1) : i \in 1..n \/ i = n + 1
  BY <1>1
<1>7. n + 1 \in 1..(n + 1)
  BY <1>1
<1>8. CASE Good(u, n + 1)
  <2>1. Firsts(d, u) \subseteq Firsts(d, t) \cup {f}
    BY <1>1, <1>2, <1>4, <1>6
  <2>2. f \in Firsts(d, u)
    BY <1>1, <1>4, <1>7, <1>8
  <2>. QED BY <1>3, <1>5, <1>8, <2>1, <2>2 DEF u
<1>9. CASE ~Good(u, n + 1)
  <2>1. Firsts(d, u) \subseteq Firsts(d, t)
    BY <1>1, <1>2, <1>4, <1>6, <1>9
  <2>. QED BY <1>3, <1>5, <1>9, <2>1 DEF u
<1>. QED BY <1>8, <1>9

LEMMA ToSetAppend ==
  ASSUME NEW S, NEW s \in Seq(S), NEW x \in S
  PROVE  ToSet(Append(s, x)) = ToSet(s) \cup {x}
<1>. DEFINE u == Append(s, x)
            n == Len(s)
<1>1. /\ n \in Nat /\ DOMAIN s = 1..n /\ DOMAIN u = 1..(n + 1)
      /\ \A i \in 1..n : u[i] = s[i]
      /\ u[n + 1] = x
  OBVIOUS
<1>. HIDE DEF u, n
<1>2. \A i \in 1..(n + 1) : i \in 1..n \/ i = n + 1
  BY <1>1
<1>3. n + 1 \in 1..(n + 1) /\ \A i \in 1..n : i \in 1..(n + 1)
  BY <1>1
<1>4. ToSet(u) = ToSet(s) \cup {x}
  BY <1>1, <1>2, <1>3 DEF ToSet
<1>. QED BY <1>4 DEF u

LEMMA RefusalsCounted ==
  ASSUME NEW e \in Seq(Failures)
  PROVE  /\ IsFiniteSet(Refusals(e)) /\ Cardinality(Refusals(e)) \in Nat
         /\ Refusals(e) \subseteq 1..Len(e)
<1>1. Refusals(e) \subseteq 1..Len(e) /\ Len(e) \in Nat
  BY DEF Refusals
<1>2. IsFiniteSet(1..Len(e))
  BY <1>1, FS_Interval
<1>3. IsFiniteSet(Refusals(e))
  BY <1>1, <1>2, FS_Subset
<1>. QED BY <1>1, <1>3, FS_CardinalityType

LEMMA RefusalsAppend ==
  ASSUME NEW e \in Seq(Failures), NEW x \in Failures
  PROVE  Cardinality(Refusals(Append(e, x))) =
           IF x.error = "Path" THEN Cardinality(Refusals(e)) ELSE Cardinality(Refusals(e)) + 1
<1>. DEFINE u == Append(e, x)
            n == Len(e)
<1>1. /\ n \in Nat /\ DOMAIN e = 1..n /\ DOMAIN u = 1..(n + 1)
      /\ \A i \in 1..n : u[i] = e[i]
      /\ u[n + 1] = x
  OBVIOUS
<1>2. Refusals(e) \subseteq 1..n /\ IsFiniteSet(Refusals(e))
  BY RefusalsCounted
<1>. HIDE DEF u, n
<1>3. n + 1 \notin Refusals(e)
  BY <1>1, <1>2
<1>4. \A i \in 1..(n + 1) : i \in 1..n \/ i = n + 1
  BY <1>1
<1>5. n + 1 \in 1..(n + 1) /\ \A i \in 1..n : i \in 1..(n + 1)
  BY <1>1
<1>6. CASE x.error = "Path"
  <2>1. Refusals(u) = Refusals(e)
    BY <1>1, <1>4, <1>5, <1>6 DEF Refusals
  <2>. QED BY <1>6, <2>1 DEF u
<1>7. CASE x.error # "Path"
  <2>1. Refusals(u) = Refusals(e) \cup {n + 1}
    BY <1>1, <1>4, <1>5, <1>7 DEF Refusals
  <2>. QED BY <1>2, <1>3, <1>7, <2>1, FS_AddElement DEF u
<1>. QED BY <1>6, <1>7

LEMMA RefusalsOfPaths ==
  ASSUME NEW e \in Seq(Failures), NEW w \in Seq(Failures),
         \A i \in DOMAIN w : w[i].error = "Path"
  PROVE  Refusals(e \o w) = Refusals(e)
<1>. DEFINE u == e \o w
            n == Len(e)
            m == Len(w)
<1>1. /\ n \in Nat /\ m \in Nat /\ DOMAIN e = 1..n /\ DOMAIN w = 1..m
      /\ DOMAIN u = 1..(n + m)
      /\ \A i \in 1..n : u[i] = e[i]
      /\ \A i \in (n + 1)..(n + m) : u[i] = w[i - n]
  OBVIOUS
<1>. HIDE DEF u, n, m
<1>2. \A i \in 1..(n + m) : i \in 1..n \/ (i \in (n + 1)..(n + m) /\ i - n \in 1..m)
  BY <1>1
<1>3. \A i \in 1..n : i \in 1..(n + m)
  BY <1>1
<1>4. Refusals(u) = Refusals(e)
  <2>1. ASSUME NEW i \in 1..(n + m), i \notin 1..n
        PROVE  u[i].error = "Path"
    <3>1. i \in (n + 1)..(n + m) /\ i - n \in DOMAIN w
      BY <1>1, <1>2, <2>1
    <3>2. u[i] = w[i - n]
      BY <1>1, <3>1
    <3>. QED BY <3>1, <3>2
  <2>2. Refusals(u) = {i \in 1..(n + m) : u[i].error # "Path"}
        /\ Refusals(e) = {i \in 1..n : e[i].error # "Path"}
    BY <1>1 DEF Refusals
  <2>. QED BY <1>1, <1>3, <2>1, <2>2
<1>. QED BY <1>4 DEF u

-----------------------------------------------------------------------------
(* Loading. *)

LEMMA SelectionTypes ==
  ASSUME selection \in Selections
  PROVE  /\ selection.stage = "probing" =>
              /\ selection.todo \in Seq(Files)
              /\ selection.unsure \in Files \cup {None}
              /\ selection.data \in {"pristine", "scribbled"}
              /\ selection.asked \in Seq([plugin : Files, of_file : Answers])
              /\ selection = [stage |-> "probing", todo |-> selection.todo,
                              unsure |-> selection.unsure, data |-> selection.data,
                              asked |-> selection.asked]
         /\ selection.stage = "selected" =>
              selection.asked \in Seq([plugin : Files, of_file : Answers])
BY DEF Selections

(* Nothing is asked of plugins while they are loaded. *)
LEMMA StillLoading ==
  ASSUME Loading, selection' = selection
  PROVE  Arranged' /\ Asking' /\ FirstClaimWins'
BY DEF Loading, Arranged, Asking, FirstClaimWins

LEMMA TakePathStep ==
  ASSUME IInv, TakePath
  PROVE  IInv'
<1>1. /\ paths \in Seq(Files \cup {Directory, Missing}) /\ paths # <<>>
      /\ errors \in Seq(Failures) /\ files \in Seq(Files)
  BY DEF TakePath, IInv, Types
<1>2. /\ paths' \in Seq(Files \cup {Directory, Missing})
      /\ Head(paths) \in Files \cup {Directory, Missing}
  BY <1>1 DEF TakePath
<1>. DEFINE failed(path) == [path |-> path, error |-> "Path"]
<1>3. failed(Directory) \in Failures /\ failed(Missing) \in Failures
  BY DEF Failures
<1>4. \/ files' = <<>> /\ errors' = Append(errors, failed(Directory))
      \/ \E lost \in SUBSET InDirectory :
           /\ files' = Ascending(InDirectory \ lost)
           /\ errors' = errors \o [i \in 1..Cardinality(lost) |-> failed(Directory)]
      \/ files' = files /\ errors' = Append(errors, failed(Missing))
      \/ files' = <<Head(paths)>> /\ Head(paths) \in Files /\ errors' = errors
  <2>1. CASE Head(paths) = Directory
    BY <2>1 DEF TakePath, ScanDirectory
  <2>2. CASE Head(paths) # Directory /\ Head(paths) = Missing
    BY <2>2 DEF TakePath
  <2>3. CASE Head(paths) # Directory /\ Head(paths) # Missing
    BY <1>2, <2>3 DEF TakePath
  <2>. QED BY <2>1, <2>2, <2>3
<1>. HIDE DEF failed
<1>5. /\ files' \in Seq(Files) /\ errors' \in Seq(Failures)
      /\ Cardinality(Refusals(errors')) = Cardinality(Refusals(errors))
  <2>1. ASSUME NEW path \in {Directory, Missing}, errors' = Append(errors, failed(path))
        PROVE  /\ errors' \in Seq(Failures)
               /\ Cardinality(Refusals(errors')) = Cardinality(Refusals(errors))
    <3>1. failed(path) \in Failures /\ failed(path).error = "Path"
      BY <1>3 DEF failed
    <3>. QED BY <1>1, <2>1, <3>1, RefusalsAppend
  <2>2. ASSUME NEW lost \in SUBSET InDirectory,
               files' = Ascending(InDirectory \ lost),
               errors' = errors \o [i \in 1..Cardinality(lost) |-> failed(Directory)]
        PROVE  /\ files' \in Seq(Files) /\ errors' \in Seq(Failures)
               /\ Cardinality(Refusals(errors')) = Cardinality(Refusals(errors))
    <3>. DEFINE S == InDirectory \ lost
                w == [i \in 1..Cardinality(lost) |-> failed(Directory)]
    <3>1. IsFiniteSet(InDirectory) /\ InDirectory \subseteq Files /\ Files \subseteq Nat
      BY LoaderAssumption
    <3>2. IsFiniteSet(S) /\ IsFiniteSet(lost)
      BY <3>1, FS_Subset
    <3>3. S \in SUBSET Nat
      BY <3>1
    <3>4. Cardinality(lost) \in Nat
      BY <3>2, FS_CardinalityType
    <3>. HIDE DEF S
    <3>5. Cardinality(S) \in Nat /\ Ascending(S) \in [1..Cardinality(S) -> S]
      BY <3>2, <3>3, AscendingSorts
    <3>6. files' \in Seq(Files)
      <4>1. Ascending(S) \in Seq(S)
        BY <3>5
      <4>2. S \subseteq Files
        BY <3>1 DEF S
      <4>. QED BY <2>2, <4>1, <4>2 DEF S
    <3>7. w \in Seq(Failures) /\ \A i \in DOMAIN w : w[i].error = "Path"
      BY <1>3, <3>4 DEF failed
    <3>. HIDE DEF w
    <3>8. errors' = errors \o w
      BY <2>2 DEF w
    <3>9. errors' \in Seq(Failures)
      BY <1>1, <3>7, <3>8, ConcatProperties
    <3>. QED BY <1>1, <3>6, <3>7, <3>8, <3>9, RefusalsOfPaths
  <2>3. CASE files' = <<>> /\ errors' = Append(errors, failed(Directory))
    <3>1. files' \in Seq(Files)
      BY <2>3
    <3>. QED BY <2>1, <2>3, <3>1
  <2>4. CASE files' = files /\ errors' = Append(errors, failed(Missing))
    BY <1>1, <2>1, <2>4
  <2>5. CASE files' = <<Head(paths)>> /\ Head(paths) \in Files /\ errors' = errors
    <3>1. files' \in Seq(Files)
      BY <2>5
    <3>. QED BY <1>1, <2>5, <3>1
  <2>. QED BY <1>4, <2>2, <2>3, <2>4, <2>5
<1>6. Types'
  BY <1>2, <1>5 DEF TakePath, batch, IInv, Types
<1>7. NamesSeen'
  BY SeenMeans DEF TakePath, batch, IInv
<1>8. FirstValidWins'
  <2>1. Answered(disk', plugins', errors', tried')
    BY <1>5, AnsweredMeans DEF TakePath, batch, IInv, Answered
  <2>. QED BY <2>1, AnsweredMeans
<1>. QED BY <1>6, <1>7, <1>8, StillLoading DEF TakePath, IInv

(* The names taken are those of the valid files tried: a valid file finds its
   name taken if and only if a valid file of its name came before it. *)
LEMMA TakenTells ==
  ASSUME IInv, NEW f \in Files
  PROVE  Taken(disk[f]) <=>
           \E j \in DOMAIN tried : ValidOn(disk, tried[j])
                                   /\ Identity(disk[tried[j]]) = Identity(disk[f])
<1>1. seen = {Identity(disk[g]) : g \in {g \in ToSet(tried) : ValidOn(disk, g)}}
  BY SeenMeans DEF IInv, Seen
<1>2. Taken(disk[f]) <=> \E g \in ToSet(tried) : ValidOn(disk, g) /\ Identity(disk[f]) = Identity(disk[g])
  BY <1>1 DEF Taken
<1>. QED BY <1>2 DEF ToSet

LEMMA LoadOneStep ==
  ASSUME IInv, LoadOne
  PROVE  IInv'
<1>. DEFINE f == Head(files)
            valid == ValidOn(disk, f)
            id == Identity(disk[f])
<1>1. /\ files \in Seq(Files) /\ files # <<>> /\ plugins \in Seq(Files) /\ tried \in Seq(Files)
      /\ errors \in Seq(Failures) /\ disk \in [Files -> Libraries]
  BY DEF LoadOne, IInv, Types
<1>2. f \in Files /\ files' \in Seq(Files)
  BY <1>1 DEF LoadOne
<1>3. /\ disk' = disk /\ order' = order /\ paths' = paths /\ selection' = selection
      /\ Loading /\ tried' = Append(tried, f)
  BY DEF LoadOne, batch
<1>4. ValidOn(disk, f) <=> Valid(f)
  BY DEF ValidOn, Valid
<1>5. ErrorOf(disk[f]) \in LoadErrors \cup {"none"} /\ (ErrorOf(disk[f]) = "none" <=> valid)
  <2>. HIDE DEF f
  <2>. QED BY <1>1, <1>2, <1>4, ErrorTells
<1>6. CASE valid /\ ~Taken(disk[f])
  <2>1. /\ plugins' = Append(plugins, f) /\ errors' = errors
        /\ seen' = seen \cup {id}
    BY <1>5, <1>6 DEF LoadOne, Claims
  <2>. HIDE DEF f, id
  <2>2. Types'
    <3>1. plugins' \in Seq(Files) /\ tried' \in Seq(Files)
      BY <1>1, <1>2, <1>3, <2>1
    <3>. QED BY <1>2, <1>3, <2>1, <3>1 DEF IInv, Types
  <2>3. /\ ToSet(plugins') = ToSet(plugins) \cup {f}
        /\ ToSet(tried') = ToSet(tried) \cup {f}
    BY <1>1, <1>2, <1>3, <2>1, ToSetAppend
  <2>4. Seen(disk', seen', plugins', tried')
    <3>1. Seen(disk, seen, plugins, tried)
      BY SeenMeans DEF IInv
    <3>. QED BY <1>3, <1>6, <2>1, <2>3, <3>1 DEF Seen, id
  <2>5. Firsts(disk, tried') = Firsts(disk, tried) \cup {f}
    <3>1. \A j \in DOMAIN tried : ~(ValidOn(disk, tried[j])
                                    /\ Identity(disk[tried[j]]) = Identity(disk[f]))
      BY <1>2, <1>6, TakenTells
    <3>. QED BY <1>1, <1>2, <1>3, <1>6, <3>1, FirstsAppend
  <2>6. Answered(disk, plugins, errors, tried)
    BY AnsweredMeans DEF IInv
  <2>7. f \notin ToSet(plugins)
    <3>1. seen = {Identity(disk[g]) : g \in ToSet(plugins)}
      BY DEF IInv, NamesSeen
    <3>. QED BY <1>6, <3>1 DEF Taken
  <2>8. IsInjective(plugins')
    <3>. DEFINE n == Len(plugins)
    <3>1. /\ n \in Nat /\ DOMAIN plugins = 1..n /\ DOMAIN plugins' = 1..(n + 1)
          /\ \A i \in 1..n : plugins'[i] = plugins[i]
          /\ plugins'[n + 1] = f
      BY <1>1, <1>2, <2>1
    <3>2. /\ \A i \in 1..n : plugins[i] # f
          /\ \A i, j \in 1..n : plugins[i] = plugins[j] => i = j
      BY <2>6, <2>7, <3>1 DEF Answered, IsInjective, ToSet
    <3>. HIDE DEF n
    <3>3. \A i \in 1..(n + 1) : i \in 1..n \/ i = n + 1
      BY <3>1
    <3>4. \A i, j \in 1..(n + 1) : plugins'[i] = plugins'[j] => i = j
      BY <3>1, <3>2, <3>3
    <3>. QED BY <3>1, <3>4 DEF IsInjective
  <2>9. Len(tried') - Len(plugins') = Len(tried) - Len(plugins)
    BY <1>1, <1>2, <1>3, <2>1
  <2>10. Answered(disk', plugins', errors', tried')
    BY <1>3, <2>1, <2>3, <2>5, <2>6, <2>8, <2>9 DEF Answered
  <2>. QED BY <1>3, <2>2, <2>4, <2>10, SeenMeans, AnsweredMeans, StillLoading DEF IInv
<1>7. CASE ~valid \/ Taken(disk[f])
  <2>. DEFINE error == IF ErrorOf(disk[f]) # "none" THEN ErrorOf(disk[f]) ELSE "DuplicateName"
  <2>1. /\ plugins' = plugins
        /\ errors' = Append(errors, [path |-> f, error |-> error])
        /\ seen' = seen \cup Claims(disk[f])
    BY <1>5, <1>7 DEF LoadOne, LoadErrors
  <2>2. seen' = seen
    BY <1>5, <1>7, <2>1 DEF Claims, Taken
  <2>3. [path |-> f, error |-> error] \in Failures /\ error # "Path"
    <3>. HIDE DEF f
    <3>. QED BY <1>2, <1>5 DEF Failures, LoadErrors
  <2>. HIDE DEF f, error
  <2>4. errors' \in Seq(Failures)
        /\ Cardinality(Refusals(errors')) = Cardinality(Refusals(errors)) + 1
    BY <1>1, <2>1, <2>3, RefusalsAppend
  <2>5. Types'
    <3>1. tried' \in Seq(Files)
      BY <1>1, <1>2, <1>3
    <3>. QED BY <1>2, <1>3, <2>1, <2>4, <3>1 DEF IInv, Types
  <2>6. ToSet(tried') = ToSet(tried) \cup {f}
    BY <1>1, <1>2, <1>3, ToSetAppend
  <2>7. Seen(disk', seen', plugins', tried')
    <3>1. Seen(disk, seen, plugins, tried)
      BY SeenMeans DEF IInv
    <3>2. valid => Identity(disk[f]) \in seen
      BY <1>7 DEF Taken
    <3>. DEFINE names(t) == {Identity(disk[g]) : g \in {h \in t : ValidOn(disk, h)}}
    <3>3. names(ToSet(tried) \cup {f}) = names(ToSet(tried)) \cup (IF valid THEN {Identity(disk[f])} ELSE {})
      OBVIOUS
    <3>4. names(ToSet(tried)) = seen
      BY <3>1 DEF Seen
    <3>5. names(ToSet(tried')) = seen
      <4>. HIDE DEF names
      <4>. QED BY <2>6, <3>2, <3>3, <3>4
    <3>. QED BY <1>3, <2>1, <2>2, <3>1, <3>5 DEF Seen
  <2>8. Firsts(disk, tried') = Firsts(disk, tried)
    <3>1. ~valid \/ \E j \in DOMAIN tried : ValidOn(disk, tried[j])
                                            /\ Identity(disk[tried[j]]) = Identity(disk[f])
      BY <1>2, <1>7, TakenTells
    <3>. QED BY <1>1, <1>2, <1>3, <3>1, FirstsAppend
  <2>9. Answered(disk, plugins, errors, tried)
    BY AnsweredMeans DEF IInv
  <2>10. Len(tried') - Len(plugins') = Len(tried) - Len(plugins) + 1
    BY <1>1, <1>2, <1>3, <2>1
  <2>11. Answered(disk', plugins', errors', tried')
    <3>1. Len(tried) - Len(plugins) \in Int
      BY <1>1
    <3>. QED BY <1>3, <2>1, <2>4, <2>8, <2>9, <2>10, <3>1 DEF Answered
  <2>. QED BY <1>3, <2>5, <2>7, <2>11, SeenMeans, AnsweredMeans, StillLoading DEF IInv
<1>. QED BY <1>6, <1>7

-----------------------------------------------------------------------------
(* Sorting. *)

(* The plugins are valid, and no two are of one kind and name. *)
LEMMA PluginsDiffer ==
  ASSUME IInv
  PROVE  /\ \A i \in DOMAIN plugins :
              /\ plugins[i] \in Files /\ Valid(plugins[i])
              /\ KindOf(disk[plugins[i]]) \in Kinds
              /\ NameOf(plugins[i]) \in Names
              /\ KeyAt(i) = Key(NameOf(plugins[i]))
              /\ KeyAt(i) \in Triples
         /\ \A i, j \in DOMAIN plugins : Same(plugins[i], plugins[j]) => i = j
<1>1. /\ plugins \in Seq(Files) /\ tried \in Seq(Files) /\ disk \in [Files -> Libraries]
      /\ order \in Orders
  BY DEF IInv, Types
<1>2. ToSet(plugins) = Firsts(disk, tried) /\ IsInjective(plugins)
  BY AnsweredMeans DEF IInv, Answered
<1>3. \A f : Valid(f) <=> ValidOn(disk, f)
  BY DEF Valid, ValidOn
<1>4. ASSUME NEW i \in DOMAIN plugins
      PROVE  /\ plugins[i] \in Files /\ Valid(plugins[i])
             /\ KindOf(disk[plugins[i]]) \in Kinds
             /\ NameOf(plugins[i]) \in Names
             /\ KeyAt(i) = Key(NameOf(plugins[i]))
             /\ KeyAt(i) \in Triples
  <2>1. plugins[i] \in Files
    BY <1>1
  <2>2. Valid(plugins[i])
    <3>1. plugins[i] \in Firsts(disk, tried)
      BY <1>2 DEF ToSet
    <3>. QED BY <1>3, <3>1 DEF Firsts
  <2>3. KindOf(disk[plugins[i]]) \in Kinds /\ NameOf(plugins[i]) \in Names
    BY <1>1, <2>1, <2>2, ErrorTells DEF NameOf
  <2>4. KeyAt(i) = Key(NameOf(plugins[i]))
    BY DEF KeyAt, NameOf
  <2>5. Key(NameOf(plugins[i])) \in Triples
    BY <1>1, <2>3, KeyMeans
  <2>. QED BY <2>1, <2>2, <2>3, <2>4, <2>5
<1>5. ASSUME NEW i \in DOMAIN plugins, NEW j \in DOMAIN plugins, Same(plugins[i], plugins[j])
      PROVE  i = j
  <2>1. plugins[i] \in Firsts(disk, tried) /\ plugins[j] \in Firsts(disk, tried)
    BY <1>2 DEF ToSet
  <2>2. PICK k \in DOMAIN tried :
          /\ plugins[i] = tried[k] /\ ValidOn(disk, tried[k])
          /\ \A h \in 1..(k - 1) :
               ~(ValidOn(disk, tried[h]) /\ Identity(disk[tried[h]]) = Identity(disk[tried[k]]))
    BY <2>1 DEF Firsts
  <2>3. PICK l \in DOMAIN tried :
          /\ plugins[j] = tried[l] /\ ValidOn(disk, tried[l])
          /\ \A h \in 1..(l - 1) :
               ~(ValidOn(disk, tried[h]) /\ Identity(disk[tried[h]]) = Identity(disk[tried[l]]))
    BY <2>1 DEF Firsts
  <2>4. Identity(disk[tried[k]]) = Identity(disk[tried[l]])
    BY <1>5, <2>2, <2>3 DEF Same
  <2>5. k \in Nat /\ l \in Nat /\ 1 <= k /\ 1 <= l
    BY <1>1
  <2>6. ~(k < l) /\ ~(l < k)
    <3>1. k < l => k \in 1..(l - 1)
      BY <2>5
    <3>2. l < k => l \in 1..(k - 1)
      BY <2>5
    <3>. QED BY <2>2, <2>3, <2>4, <3>1, <3>2
  <2>7. k = l
    BY <2>5, <2>6
  <2>. QED BY <1>2, <2>2, <2>3, <2>7 DEF IsInjective
<1>. QED BY <1>4, <1>5

(* A plugin goes before another, or after it. *)
LEMMA PrecedesOrders ==
  ASSUME IInv
  PROVE  TotalOrder(Precedes, DOMAIN plugins)
<1>1. DOMAIN plugins \subseteq Int
  BY DEF IInv, Types
<1>2. \A i \in DOMAIN plugins : KeyAt(i) \in Triples
  BY PluginsDiffer
<1>3. \A i, j \in DOMAIN plugins : <<i, j>> \in Precedes <=>
        \/ Less(KeyAt(i), KeyAt(j))
        \/ KeyAt(i) = KeyAt(j) /\ i < j
  BY DEF Precedes
<1>4. \A i, j \in DOMAIN plugins : i # j => <<i, j>> \in Precedes \/ <<j, i>> \in Precedes
  <2>. SUFFICES ASSUME NEW i \in DOMAIN plugins, NEW j \in DOMAIN plugins, i # j
                PROVE  <<i, j>> \in Precedes \/ <<j, i>> \in Precedes
    OBVIOUS
  <2>1. Less(KeyAt(i), KeyAt(j)) \/ Less(KeyAt(j), KeyAt(i)) \/ KeyAt(i) = KeyAt(j)
    BY <1>2, LessOrders
  <2>2. i < j \/ j < i
    BY <1>1
  <2>. QED BY <1>3, <2>1, <2>2
<1>5. \A i, j, k \in DOMAIN plugins :
        <<i, j>> \in Precedes /\ <<j, k>> \in Precedes => <<i, k>> \in Precedes
  <2>. SUFFICES ASSUME NEW i \in DOMAIN plugins, NEW j \in DOMAIN plugins,
                       NEW k \in DOMAIN plugins, <<i, j>> \in Precedes, <<j, k>> \in Precedes
                PROVE  <<i, k>> \in Precedes
    OBVIOUS
  <2>1. Less(KeyAt(i), KeyAt(j)) /\ Less(KeyAt(j), KeyAt(k)) => Less(KeyAt(i), KeyAt(k))
    BY <1>2, LessOrders
  <2>2. i < j /\ j < k => i < k
    BY <1>1
  <2>. QED BY <1>3, <2>1, <2>2
<1>6. \A i \in DOMAIN plugins : <<i, i>> \notin Precedes
  BY <1>1, <1>2, <1>3, LessOrders
<1>. QED BY <1>4, <1>5, <1>6 DEF TotalOrder

LEMMA SortPluginsStep ==
  ASSUME IInv, SortPlugins
  PROVE  IInv'
<1>. DEFINE n == Len(plugins)
            at == InOrder(DOMAIN plugins, Precedes)
<1>1. /\ plugins \in Seq(Files) /\ n \in Nat /\ DOMAIN plugins = 1..n
      /\ \A i \in 1..n : plugins[i] \in Files
  BY DEF IInv, Types
<1>2. /\ disk' = disk /\ order' = order /\ paths' = paths /\ files' = files /\ seen' = seen
      /\ errors' = errors /\ tried' = tried /\ selection' = [stage |-> "loaded"]
      /\ plugins' = [k \in DOMAIN plugins |-> plugins[at[k]]]
  BY DEF SortPlugins, batch, InProbeOrder
<1>3. IsFiniteSet(1..n) /\ Cardinality(1..n) = n
  <2>. HIDE DEF n
  <2>1. Cardinality(1..n) = IF 1 > n THEN 0 ELSE n - 1 + 1
    BY <1>1, FS_Interval
  <2>2. IsFiniteSet(1..n)
    BY <1>1, FS_Interval
  <2>. QED BY <1>1, <2>1, <2>2
<1>4. /\ at \in [1..n -> 1..n]
      /\ \A i, j \in 1..n : i < j => <<at[i], at[j]>> \in Precedes
      /\ \A i, j \in 1..n : at[i] = at[j] => i = j
      /\ \A x \in 1..n : \E i \in 1..n : at[i] = x
  <2>. DEFINE S == DOMAIN plugins
  <2>1. IsFiniteSet(S) /\ TotalOrder(Precedes, S) /\ Cardinality(S) = n /\ S = 1..n
    BY <1>1, <1>3, PrecedesOrders
  <2>. HIDE DEF S, n
  <2>2. LET s == InOrder(S, Precedes)
        IN  /\ s \in [1..Cardinality(S) -> S]
            /\ \A i, j \in 1..Cardinality(S) : i < j => <<s[i], s[j]>> \in Precedes
            /\ \A i, j \in 1..Cardinality(S) : s[i] = s[j] => i = j
            /\ \A x \in S : \E i \in 1..Cardinality(S) : s[i] = x
    BY <2>1, InOrderSorts
  <2>. QED BY <2>1, <2>2 DEF S
<1>. HIDE DEF n, at
<1>5. /\ plugins' \in Seq(Files) /\ Len(plugins') = n /\ DOMAIN plugins' = 1..n
      /\ \A k \in 1..n : plugins'[k] = plugins[at[k]]
  <2>1. plugins' \in [1..n -> Files]
    BY <1>1, <1>2, <1>4
  <2>. QED BY <1>1, <1>2, <1>4, <2>1
<1>6. Types'
  BY <1>2, <1>5 DEF IInv, Types, Selections
<1>7. ToSet(plugins') = ToSet(plugins)
  <2>1. \A k \in 1..n : at[k] \in 1..n
    BY <1>4
  <2>2. ToSet(plugins') = {plugins'[k] : k \in 1..n} /\ ToSet(plugins) = {plugins[k] : k \in 1..n}
    BY <1>1, <1>5 DEF ToSet
  <2>3. \A k \in 1..n : \E i \in 1..n : plugins'[k] = plugins[i]
    BY <1>5, <2>1
  <2>4. \A i \in 1..n : \E k \in 1..n : plugins[i] = plugins'[k]
    <3>. SUFFICES ASSUME NEW i \in 1..n
                  PROVE  \E k \in 1..n : plugins[i] = plugins'[k]
      OBVIOUS
    <3>1. PICK k \in 1..n : at[k] = i
      BY <1>4
    <3>. QED BY <1>5, <3>1
  <2>. QED BY <2>2, <2>3, <2>4
<1>8. Seen(disk', seen', plugins', tried')
  BY <1>2, <1>7, SeenMeans DEF IInv, Seen
<1>9. Answered(disk', plugins', errors', tried')
  <2>1. Answered(disk, plugins, errors, tried)
    BY AnsweredMeans DEF IInv
  <2>2. IsInjective(plugins')
    <3>1. \A i, j \in 1..n : plugins[i] = plugins[j] => i = j
      BY <1>1, <2>1 DEF Answered, IsInjective
    <3>2. \A i, j \in 1..n : plugins'[i] = plugins'[j] => i = j
      <4>. SUFFICES ASSUME NEW i \in 1..n, NEW j \in 1..n, plugins'[i] = plugins'[j]
                    PROVE  i = j
        OBVIOUS
      <4>1. at[i] \in 1..n /\ at[j] \in 1..n
        BY <1>4
      <4>2. plugins[at[i]] = plugins[at[j]]
        BY <1>5
      <4>. QED BY <1>4, <3>1, <4>1, <4>2
    <3>. QED BY <1>5, <3>2 DEF IsInjective
  <2>. QED BY <1>2, <1>5, <1>7, <2>1, <2>2 DEF Answered, n
<1>10. Arranged'
  <2>1. \A k \in 1..n : KeyAt(k)' = KeyAt(at[k])
    BY <1>2, <1>5 DEF KeyAt, Key
  <2>2. \A i, j \in 1..n : i < j =>
          Less(KeyAt(at[i]), KeyAt(at[j])) \/ KeyAt(at[i]) = KeyAt(at[j])
    BY <1>4 DEF Precedes
  <2>3. \A i, j \in DOMAIN plugins' : i < j =>
          Less(KeyAt(i)', KeyAt(j)') \/ KeyAt(i)' = KeyAt(j)'
    BY <1>5, <2>1, <2>2
  <2>. QED BY <2>3 DEF Arranged
<1>11. Asking' /\ FirstClaimWins'
  BY <1>2 DEF Asking, FirstClaimWins
<1>. QED BY <1>6, <1>8, <1>9, <1>10, <1>11, SeenMeans, AnsweredMeans DEF IInv

-----------------------------------------------------------------------------
(* Selecting. *)

(* The plugins of a kind, as they are arranged. *)
LEMMA OfKindMeans ==
  ASSUME IInv, NEW kind
  PROVE  LET asked == OfKind(kind)
         IN  /\ asked \in Seq(Files)
             /\ \A i, j \in DOMAIN asked : i < j =>
                  \E k, l \in DOMAIN plugins :
                     /\ k < l /\ asked[i] = plugins[k] /\ asked[j] = plugins[l]
                     /\ KindOf(disk[plugins[k]]) = kind /\ KindOf(disk[plugins[l]]) = kind
<1>. DEFINE S == {i \in DOMAIN plugins : KindOf(disk[plugins[i]]) = kind}
            at == Ascending(S)
            n == Cardinality(S)
            asked == OfKind(kind)
<1>1. /\ plugins \in Seq(Files) /\ Len(plugins) \in Nat /\ DOMAIN plugins = 1..Len(plugins)
      /\ \A i \in DOMAIN plugins : plugins[i] \in Files
  BY DEF IInv, Types
<1>2. IsFiniteSet(S) /\ S \in SUBSET Nat
  <2>1. IsFiniteSet(DOMAIN plugins)
    BY <1>1, FS_Interval
  <2>2. S \subseteq DOMAIN plugins
    OBVIOUS
  <2>. HIDE DEF S
  <2>. QED BY <1>1, <2>1, <2>2, FS_Subset
<1>3. asked = [k \in DOMAIN at |-> plugins[at[k]]]
  BY DEF OfKind
<1>4. S \subseteq DOMAIN plugins /\ \A i \in S : KindOf(disk[plugins[i]]) = kind
  OBVIOUS
<1>. HIDE DEF S, asked
<1>5. n \in Nat /\ at \in [1..n -> S] /\ \A i, j \in 1..n : i < j => at[i] < at[j]
  BY <1>2, AscendingSorts
<1>. HIDE DEF at, n
<1>6. \A k \in 1..n : at[k] \in S /\ asked[k] = plugins[at[k]]
  BY <1>3, <1>5
<1>7. asked \in [1..n -> Files]
  BY <1>1, <1>3, <1>4, <1>5
<1>8. asked \in Seq(Files) /\ DOMAIN asked = 1..n
  BY <1>5, <1>7
<1>9. ASSUME NEW i \in DOMAIN asked, NEW j \in DOMAIN asked, i < j
      PROVE  \E k, l \in DOMAIN plugins :
                /\ k < l /\ asked[i] = plugins[k] /\ asked[j] = plugins[l]
                /\ KindOf(disk[plugins[k]]) = kind /\ KindOf(disk[plugins[l]]) = kind
  <2>1. at[i] \in S /\ at[j] \in S /\ at[i] < at[j]
        /\ asked[i] = plugins[at[i]] /\ asked[j] = plugins[at[j]]
    BY <1>5, <1>6, <1>8, <1>9
  <2>. QED BY <1>4, <2>1
<1>. QED BY <1>8, <1>9 DEF asked

(* What a selection leaves alone. *)
LEMMA SelectingKeeps ==
  ASSUME IInv, ~Loading, selection' \in Selections,
         UNCHANGED <<batch, paths, files, seen, plugins, errors, tried>>
  PROVE  Types' /\ NamesSeen' /\ FirstValidWins' /\ Arranged'
<1>1. Types'
  BY DEF batch, IInv, Types
<1>2. NamesSeen' /\ FirstValidWins'
  BY SeenMeans, AnsweredMeans DEF batch, IInv
<1>3. Arranged'
  <2>1. \A i : KeyAt(i)' = KeyAt(i)
    BY DEF batch, KeyAt, Key
  <2>2. \A i, j \in DOMAIN plugins : i < j =>
          Less(KeyAt(i)', KeyAt(j)') \/ KeyAt(i)' = KeyAt(j)'
    BY <2>1 DEF IInv, Arranged
  <2>. QED BY <2>2 DEF Arranged
<1>. QED BY <1>1, <1>2, <1>3

Reply == [plugin : Files, of_file : Answers]

(* What FirstClaimWins says of the answers. *)
Claimed(asked, chosen) ==
  LET Said(answer) == {i \in DOMAIN asked : asked[i].of_file = answer}
  IN  chosen =
        IF Said("Supported") # {} THEN asked[Min(Said("Supported"))].plugin
        ELSE IF Said("Unsure") # {} THEN asked[Min(Said("Unsure"))].plugin
        ELSE None

LEMMA ClaimedMeans ==
  FirstClaimWins' <=>
    (selection'.stage = "selected" => Claimed(selection'.asked, selection'.chosen))
BY DEF FirstClaimWins, Claimed

(* With no claim, the one that is kept is the first that is unsure. *)
LEMMA UnsureChosen ==
  ASSUME NEW asked \in Seq(Reply), NEW plugin,
         \A i \in DOMAIN asked : asked[i].of_file # "Supported",
         FirstUnsure(asked, plugin)
  PROVE  Claimed(asked, plugin)
<1>. DEFINE S == {i \in DOMAIN asked : asked[i].of_file = "Unsure"}
<1>1. {i \in DOMAIN asked : asked[i].of_file = "Supported"} = {}
  OBVIOUS
<1>2. S \in SUBSET Nat
  OBVIOUS
<1>3. CASE plugin = None /\ \A i \in DOMAIN asked : asked[i].of_file # "Unsure"
  BY <1>1, <1>3 DEF Claimed
<1>4. ASSUME NEW i \in DOMAIN asked,
             asked[i].of_file = "Unsure", plugin = asked[i].plugin,
             \A j \in DOMAIN asked : j < i => asked[j].of_file # "Unsure"
      PROVE  Claimed(asked, plugin)
  <2>1. i \in S /\ S # {} /\ \A j \in S : ~(j < i)
    BY <1>4
  <2>. HIDE DEF S
  <2>2. Min(S) \in S /\ Min(S) <= i
    BY <1>2, <2>1, MinIsLeast
  <2>3. Min(S) = i
    <3>1. Min(S) \in Nat /\ i \in Nat
      BY <1>2, <2>1, <2>2
    <3>2. ~(Min(S) < i)
      BY <2>1, <2>2
    <3>. QED BY <2>2, <3>1, <3>2
  <2>. QED BY <1>1, <1>4, <2>1, <2>3 DEF Claimed, S
<1>. QED BY <1>3, <1>4 DEF FirstUnsure

(* A claim after none is the one that is chosen. *)
LEMMA SupportedChosen ==
  ASSUME NEW asked \in Seq(Reply), NEW reply \in Reply, reply.of_file = "Supported",
         \A i \in DOMAIN asked : asked[i].of_file # "Supported"
  PROVE  Claimed(Append(asked, reply), reply.plugin)
<1>. DEFINE said == Append(asked, reply)
            n == Len(asked)
            S == {i \in DOMAIN said : said[i].of_file = "Supported"}
<1>1. /\ n \in Nat /\ DOMAIN asked = 1..n /\ DOMAIN said = 1..(n + 1)
      /\ \A i \in 1..n : said[i] = asked[i]
      /\ said[n + 1] = reply
  OBVIOUS
<1>. HIDE DEF said, n
<1>2. \A i \in 1..(n + 1) : i \in 1..n \/ i = n + 1
  BY <1>1
<1>3. n + 1 \in 1..(n + 1)
  BY <1>1
<1>4. S = {n + 1}
  BY <1>1, <1>2, <1>3
<1>. HIDE DEF S
<1>5. Min(S) = n + 1
  <2>1. S \in SUBSET Nat /\ S # {}
    BY <1>1, <1>4
  <2>. QED BY <1>4, <2>1, MinIsLeast
<1>6. S # {} /\ said[Min(S)].plugin = reply.plugin
  BY <1>1, <1>4, <1>5
<1>. QED BY <1>6 DEF Claimed, S, said

(* The first that is unsure is kept, whoever is asked next. *)
LEMMA UnsureKept ==
  ASSUME NEW asked \in Seq(Reply), NEW reply \in Reply, NEW plugin \in Files \cup {None},
         FirstUnsure(asked, plugin)
  PROVE  FirstUnsure(Append(asked, reply),
                     IF reply.of_file = "Unsure" /\ plugin = None THEN reply.plugin ELSE plugin)
<1>. DEFINE said == Append(asked, reply)
            n == Len(asked)
            kept == IF reply.of_file = "Unsure" /\ plugin = None THEN reply.plugin ELSE plugin
<1>1. /\ n \in Nat /\ DOMAIN asked = 1..n /\ DOMAIN said = 1..(n + 1)
      /\ \A i \in 1..n : said[i] = asked[i] /\ asked[i].plugin \in Files
      /\ said[n + 1] = reply
  <2>1. /\ n \in Nat /\ DOMAIN asked = 1..n /\ DOMAIN said = 1..(n + 1)
        /\ \A i \in 1..n : said[i] = asked[i] /\ asked[i] \in Reply
        /\ said[n + 1] = reply
    OBVIOUS
  <2>. QED BY <2>1 DEF Reply
<1>2. None \notin Files
  BY LoaderAssumption
<1>. HIDE DEF said, n
<1>3. \A i \in 1..(n + 1) : i \in 1..n \/ i = n + 1
  BY <1>1
<1>4. n + 1 \in 1..(n + 1) /\ \A i \in 1..n : i \in 1..(n + 1) /\ ~(n + 1 < i)
  BY <1>1
<1>5. CASE plugin = None
  <2>1. \A i \in 1..n : asked[i].of_file # "Unsure"
    BY <1>1, <1>2, <1>5 DEF FirstUnsure
  <2>2. CASE reply.of_file = "Unsure"
    <3>1. \A j \in 1..(n + 1) : j < n + 1 => said[j].of_file # "Unsure"
      BY <1>1, <1>3, <2>1
    <3>. QED BY <1>1, <1>4, <1>5, <2>2, <3>1 DEF FirstUnsure, said
  <2>3. CASE reply.of_file # "Unsure"
    <3>1. \A j \in 1..(n + 1) : said[j].of_file # "Unsure"
      BY <1>1, <1>3, <2>1, <2>3
    <3>. QED BY <1>1, <1>5, <2>3, <3>1 DEF FirstUnsure, said
  <2>. QED BY <2>2, <2>3
<1>6. CASE plugin # None
  <2>1. PICK i \in 1..n : /\ asked[i].of_file = "Unsure" /\ plugin = asked[i].plugin
                          /\ \A j \in 1..n : j < i => asked[j].of_file # "Unsure"
    BY <1>1, <1>6 DEF FirstUnsure
  <2>2. \A j \in 1..(n + 1) : j < i => said[j].of_file # "Unsure"
    BY <1>1, <1>3, <1>4, <2>1
  <2>3. i \in DOMAIN said /\ said[i].of_file = "Unsure" /\ plugin = said[i].plugin
    BY <1>1, <1>4, <2>1
  <2>. QED BY <1>1, <1>6, <2>2, <2>3 DEF FirstUnsure, said
<1>. QED BY <1>5, <1>6

LEMMA BeginSelectStep ==
  ASSUME IInv, BeginSelect \/ RefuseSelect
  PROVE  IInv'
<1>1. ~Loading /\ UNCHANGED <<batch, paths, files, seen, plugins, errors, tried>>
  BY DEF BeginSelect, RefuseSelect, Loading
<1>2. \A i \in DOMAIN << >> : FALSE
  OBVIOUS
<1>3. << >> \in Seq(Reply) /\ FirstUnsure(<< >>, None)
  BY <1>2 DEF FirstUnsure
<1>4. CASE BeginSelect
  <2>1. OfKind("Playback") \in Seq(Files)
    BY OfKindMeans
  <2>2. selection' = [stage |-> "probing", todo |-> OfKind("Playback"), unsure |-> None,
                      data |-> "pristine", asked |-> <<>>]
    BY <1>4 DEF BeginSelect
  <2>3. selection' \in Selections
    BY <1>3, <2>1, <2>2 DEF Selections, Reply
  <2>4. Asking' /\ FirstClaimWins'
    BY <1>2, <1>3, <2>2 DEF Asking, FirstClaimWins
  <2>. QED BY <1>1, <2>3, <2>4, SelectingKeeps DEF IInv
<1>5. CASE RefuseSelect
  <2>1. selection' = [stage |-> "selected", chosen |-> None, asked |-> <<>>]
    BY <1>5 DEF RefuseSelect
  <2>2. selection' \in Selections
    BY <1>3, <2>1 DEF Selections, Reply
  <2>3. Claimed(<< >>, None)
    BY <1>2, <1>3, UnsureChosen
  <2>4. Asking' /\ FirstClaimWins'
    BY <2>1, <2>3, ClaimedMeans DEF Asking
  <2>. QED BY <1>1, <2>2, <2>4, SelectingKeeps DEF IInv
<1>. QED BY <1>4, <1>5

LEMMA ProbeStep ==
  ASSUME IInv, Probe
  PROVE  IInv'
<1>1. /\ selection.stage = "probing" /\ ~Loading
      /\ UNCHANGED <<batch, paths, files, seen, plugins, errors, tried>>
  BY DEF Probe, Loading
<1>2. /\ selection.todo \in Seq(Files) /\ selection.unsure \in Files \cup {None}
      /\ selection.data \in {"pristine", "scribbled"}
      /\ selection.asked \in Seq(Reply)
  BY <1>1, SelectionTypes DEF IInv, Types, Reply
<1>. DEFINE f == Head(selection.todo)
            unsure(answer) == IF answer = "Unsure" /\ selection.unsure = None
                              THEN f ELSE selection.unsure
<1>3. PICK answer \in Answers, after \in {"pristine", "scribbled"} :
        selection' = IF answer = "Supported"
                     THEN [stage |-> "selected", chosen |-> f,
                           asked |-> Append(selection.asked, [plugin |-> f, of_file |-> answer])]
                     ELSE [stage |-> "probing", todo |-> Tail(selection.todo),
                           unsure |-> unsure(answer), data |-> after,
                           asked |-> Append(selection.asked, [plugin |-> f, of_file |-> answer])]
  BY DEF Probe, Offered, Selected, UnsureAfter
<1>4. f \in Files /\ Tail(selection.todo) \in Seq(Files)
  BY <1>2 DEF Probe
<1>. DEFINE reply == [plugin |-> f, of_file |-> answer]
            asked == Append(selection.asked, reply)
<1>. HIDE DEF f
<1>5. /\ reply \in Reply /\ reply.of_file = answer /\ reply.plugin = f
      /\ unsure(answer) \in Files \cup {None}
  BY <1>2, <1>4 DEF Reply
<1>. HIDE DEF reply
<1>6. asked \in Seq(Reply)
  BY <1>2, <1>5
<1>7. /\ \A i \in DOMAIN selection.asked : selection.asked[i].of_file # "Supported"
      /\ FirstUnsure(selection.asked, selection.unsure)
  BY <1>1 DEF IInv, Asking
<1>8. CASE answer = "Supported"
  <2>1. selection' = [stage |-> "selected", chosen |-> f, asked |-> asked]
    BY <1>3, <1>8 DEF reply
  <2>2. Claimed(asked, f)
    BY <1>2, <1>5, <1>7, <1>8, SupportedChosen
  <2>. HIDE DEF asked
  <2>3. selection' \in Selections
    BY <1>4, <1>6, <2>1 DEF Selections, Reply
  <2>4. Asking' /\ FirstClaimWins'
    BY <2>1, <2>2, ClaimedMeans DEF Asking
  <2>. QED BY <1>1, <2>3, <2>4, SelectingKeeps DEF IInv
<1>9. CASE answer # "Supported"
  <2>1. selection' = [stage |-> "probing", todo |-> Tail(selection.todo),
                      unsure |-> unsure(answer), data |-> after, asked |-> asked]
    BY <1>3, <1>9 DEF reply
  <2>2. FirstUnsure(asked, unsure(answer))
    BY <1>2, <1>5, <1>7, UnsureKept
  <2>3. \A i \in DOMAIN asked : asked[i].of_file # "Supported"
    <3>. DEFINE n == Len(selection.asked)
    <3>1. /\ n \in Nat /\ DOMAIN selection.asked = 1..n /\ DOMAIN asked = 1..(n + 1)
          /\ \A i \in 1..n : asked[i] = selection.asked[i]
          /\ asked[n + 1] = reply
      BY <1>2, <1>5
    <3>. HIDE DEF n, asked
    <3>2. \A i \in 1..(n + 1) : i \in 1..n \/ i = n + 1
      BY <3>1
    <3>. QED BY <1>5, <1>7, <1>9, <3>1, <3>2
  <2>. HIDE DEF asked, unsure
  <2>4. selection' \in Selections
    BY <1>4, <1>5, <1>6, <2>1 DEF Selections, Reply
  <2>5. Asking' /\ FirstClaimWins'
    BY <2>1, <2>2, <2>3 DEF Asking, FirstClaimWins
  <2>. QED BY <1>1, <2>4, <2>5, SelectingKeeps DEF IInv
<1>. QED BY <1>8, <1>9

LEMMA SkipProbeStep ==
  ASSUME IInv, SkipProbe
  PROVE  IInv'
<1>1. /\ selection.stage = "probing" /\ ~Loading /\ selection.todo # <<>>
      /\ UNCHANGED <<batch, paths, files, seen, plugins, errors, tried>>
  BY DEF SkipProbe, Loading
<1>2. /\ selection.todo \in Seq(Files) /\ selection.unsure \in Files \cup {None}
      /\ selection.data \in {"pristine", "scribbled"}
      /\ selection.asked \in Seq(Reply)
      /\ selection = [stage |-> "probing", todo |-> selection.todo,
                      unsure |-> selection.unsure, data |-> selection.data,
                      asked |-> selection.asked]
  BY <1>1, SelectionTypes DEF IInv, Types, Reply
<1>3. selection' = [stage |-> "probing", todo |-> Tail(selection.todo),
                    unsure |-> selection.unsure, data |-> selection.data,
                    asked |-> selection.asked]
  BY <1>2 DEF SkipProbe
<1>4. Tail(selection.todo) \in Seq(Files)
  BY <1>1, <1>2
<1>5. selection' \in Selections
  BY <1>2, <1>3, <1>4 DEF Selections, Reply
<1>6. Asking' /\ FirstClaimWins'
  BY <1>1, <1>3 DEF IInv, Asking, FirstClaimWins
<1>. QED BY <1>1, <1>5, <1>6, SelectingKeeps DEF IInv

LEMMA EndSelectStep ==
  ASSUME IInv, EndSelect
  PROVE  IInv'
<1>1. /\ selection.stage = "probing" /\ ~Loading
      /\ UNCHANGED <<batch, paths, files, seen, plugins, errors, tried>>
      /\ selection' = [stage |-> "selected", chosen |-> selection.unsure,
                       asked |-> selection.asked]
  BY DEF EndSelect, Loading, Selected
<1>2. selection.unsure \in Files \cup {None} /\ selection.asked \in Seq(Reply)
  BY <1>1, SelectionTypes DEF IInv, Types, Reply
<1>3. selection' \in Selections
  BY <1>1, <1>2 DEF Selections, Reply
<1>4. Claimed(selection.asked, selection.unsure)
  BY <1>1, <1>2, UnsureChosen DEF IInv, Asking
<1>5. Asking' /\ FirstClaimWins'
  BY <1>1, <1>4, ClaimedMeans DEF Asking
<1>. QED BY <1>1, <1>3, <1>5, SelectingKeeps DEF IInv

-----------------------------------------------------------------------------
(* What holds of every batch and selection. *)

LEMMA InvInit ==
  ASSUME Init
  PROVE  IInv
<1>1. \A i \in DOMAIN << >> : FALSE
  OBVIOUS
<1>2. Types
  BY LoaderAssumption DEF Init, Types, Selections
<1>3. /\ ToSet(<< >>) = {} /\ Firsts(disk, << >>) = {} /\ Refusals(<< >>) = {}
      /\ IsInjective(<< >>)
  BY <1>1 DEF ToSet, Firsts, Refusals, IsInjective
<1>4. Answered(disk, plugins, errors, tried)
  <2>1. Cardinality({}) = 0 /\ Len(<< >>) - Len(<< >>) = 0
    BY FS_EmptySet
  <2>2. Answered(disk, << >>, << >>, << >>)
    BY <1>3, <2>1 DEF Answered
  <2>. QED BY <2>2 DEF Init
<1>5. Seen(disk, seen, plugins, tried)
  BY <1>3 DEF Init, Seen
<1>6. Arranged /\ Asking /\ FirstClaimWins
  BY DEF Init, Loading, Arranged, Asking, FirstClaimWins
<1>. QED BY <1>2, <1>4, <1>5, <1>6, SeenMeans, AnsweredMeans DEF IInv

LEMMA InvStep ==
  ASSUME IInv, [Next]_vars
  PROVE  IInv'
<1>1. CASE Next
  BY <1>1, TakePathStep, LoadOneStep, SortPluginsStep, BeginSelectStep, ProbeStep,
     SkipProbeStep, EndSelectStep DEF Next
<1>2. CASE UNCHANGED vars
  <2>1. Types'
    BY <1>2 DEF vars, batch, IInv, Types
  <2>2. NamesSeen' /\ FirstValidWins'
    BY <1>2, SeenMeans, AnsweredMeans DEF vars, batch, IInv
  <2>3. Arranged'
    <3>1. \A i : KeyAt(i)' = KeyAt(i)
      BY <1>2 DEF vars, batch, KeyAt, Key
    <3>2. ~Loading' => \A i, j \in DOMAIN plugins : i < j =>
            Less(KeyAt(i)', KeyAt(j)') \/ KeyAt(i)' = KeyAt(j)'
      BY <1>2, <3>1 DEF vars, IInv, Arranged, Loading
    <3>. QED BY <1>2, <3>2 DEF vars, Arranged
  <2>4. Asking' /\ FirstClaimWins'
    BY <1>2 DEF vars, IInv, Asking, FirstClaimWins
  <2>. QED BY <2>1, <2>2, <2>3, <2>4 DEF IInv
<1>. QED BY <1>1, <1>2

(* Every state of a batch and a selection is described by IInv, which every
   theorem below rests on. *)
THEOREM Invariance == Spec => []IInv
BY InvInit, InvStep, PTL DEF Spec

(* Every variable stays in its type, and the names taken are those of the
   plugins in the report and no others: a library that is refused takes none
   (load_one). *)
THEOREM TypeCorrect == Spec => []TypeOK
<1>1. IInv => TypeOK
  BY DEF IInv, Types, NamesSeen, TypeOK, Failures
<1>. QED BY <1>1, Invariance, PTL

(* Of the files of one kind and name the first that passes every check is the
   plugin, an invalid copy before it does not shadow it, and each of the others
   is an error of its own, whatever the libraries and the batch (load_one). *)
THEOREM FirstValidLoads == Spec => []FirstValidWins
<1>1. IInv => FirstValidWins
  BY DEF IInv
<1>. QED BY <1>1, Invariance, PTL

(* Within a kind, plugins are asked in an order that follows from their names
   and the pins alone, whichever files they were loaded from (ProbeOrder,
   sort_by, of_kind). *)
THEOREM ProbedInOrder == Spec => []ProbeOrderFollowed
<1>1. ASSUME IInv PROVE ProbeOrderFollowed
  <2>. SUFFICES ASSUME ~Loading, NEW kind \in Kinds,
                       NEW i \in DOMAIN OfKind(kind), NEW j \in DOMAIN OfKind(kind), i < j
                PROVE  LET a == NameOf(OfKind(kind)[i])
                           b == NameOf(OfKind(kind)[j])
                           first == Pins(order.first)
                           last  == Pins(order.last) \ first
                       IN  /\ b \in first =>
                                a \in first /\ FirstPin(order.first, a) < FirstPin(order.first, b)
                           /\ a \in last =>
                                b \in last /\ FirstPin(order.last, a) < FirstPin(order.last, b)
                           /\ {a, b} \cap (first \cup last) = {} => a < b
    BY DEF ProbeOrderFollowed
  <2>. DEFINE asked == OfKind(kind)
              a == NameOf(asked[i])
              b == NameOf(asked[j])
  <2>1. PICK k \in DOMAIN plugins, l \in DOMAIN plugins :
          /\ k < l /\ asked[i] = plugins[k] /\ asked[j] = plugins[l]
          /\ KindOf(disk[plugins[k]]) = kind /\ KindOf(disk[plugins[l]]) = kind
    BY <1>1, OfKindMeans
  <2>. HIDE DEF asked
  <2>2. /\ a \in Names /\ b \in Names /\ KeyAt(k) = Key(a) /\ KeyAt(l) = Key(b)
    BY <1>1, <2>1, PluginsDiffer
  <2>3. a # b
    <3>1. k # l
      <4>1. k \in Int /\ l \in Int
        BY <1>1 DEF IInv, Types
      <4>. QED BY <2>1, <4>1
    <3>2. ~Same(plugins[k], plugins[l])
      BY <1>1, <3>1, PluginsDiffer
    <3>. QED BY <2>1, <3>2 DEF Same, Identity, NameOf
  <2>4. Less(Key(a), Key(b)) \/ Key(a) = Key(b)
    BY <1>1, <2>1, <2>2 DEF IInv, Arranged
  <2>. HIDE DEF a, b
  <2>5. order \in Orders
    BY <1>1 DEF IInv, Types
  <2>. QED BY <2>2, <2>3, <2>4, <2>5, KeysDecide DEF a, b, asked
<1>. QED BY <1>1, Invariance, PTL

(* The first plugin that claims the file is chosen, otherwise the first that is
   unsure, by what each says of the file and whatever those asked before did
   to the data they were given (select_playback_candidate). *)
THEOREM FirstClaimChosen == Spec => []FirstClaimWins
<1>1. IInv => FirstClaimWins
  BY DEF IInv
<1>. QED BY <1>1, Invariance, PTL

=============================================================================
