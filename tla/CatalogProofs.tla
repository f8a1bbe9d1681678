---------------------------- MODULE CatalogProofs ----------------------------
(***************************************************************************)
(* The catalog keeps what was stored, in memory, in its file, and in a file*)
(* that a Flush has left half written, for any checksums, names and files. *)
(***************************************************************************)
EXTENDS CatalogInvariant, FiniteSetTheorems, FunctionTheorems, SequenceTheorems, WellFoundedInduction, TLAPS

-----------------------------------------------------------------------------
(* Lists of records.                                                       *)

LEMMA Smallest ==
    ASSUME NEW S \in SUBSET Nat, S # {}
    PROVE  \E x \in S : \A y \in S : x <= y
<1> DEFINE R == OpToRel(<, Nat)
<1>1. \A x, y \in Nat : <<x, y>> \in R <=> x < y BY DEF OpToRel
<1>2. IsWellFoundedOn(R, Nat) BY NatLessThanWellFounded
<1> HIDE DEF R
<1>3. PICK x \in S : \A y \in S : <<y, x>> \notin R BY <1>2, WFMin
<1>4. \A y \in S : x <= y
  <2> TAKE y \in S
  <2>1. ~(y < x) BY <1>1, <1>3
  <2> QED BY <2>1
<1> QED BY <1>4

LEMMA MadeFields ==
    ASSUME NEW list \in Seq(Made), NEW i \in DOMAIN list
    PROVE  /\ list[i] \in Made /\ list[i].Crc \in Nat /\ list[i].Crc \in Crcs
           /\ list[i].PackName \in Names /\ list[i].IsCompressed \in Flags
           /\ list[i].node \in Nat \X Nat
           /\ ValueOf(list[i]) \in Value
<1>1. list[i] \in Made OBVIOUS
<1>2. /\ list[i].Crc \in Crcs /\ list[i].PackName \in Names /\ list[i].IsCompressed \in Flags
      /\ list[i].node \in Nat \X Nat
  BY <1>1 DEF Made
<1>3. list[i].Crc \in Nat BY <1>2, CatalogAssumption
<1>4. ValueOf(list[i]) \in Value BY <1>2 DEF ValueOf, Value, Names
<1> QED BY <1>1, <1>2, <1>3, <1>4

LEMMA Joined ==
    ASSUME NEW S, NEW a \in Seq(S), NEW b \in Seq(S)
    PROVE  /\ a \o b \in Seq(S) /\ Len(a \o b) = Len(a) + Len(b)
           /\ \A i \in 1..Len(a) : (a \o b)[i] = a[i]
           /\ \A i \in Len(a) + 1..Len(a) + Len(b) : (a \o b)[i] = b[i - Len(a)]
           /\ \A i \in 1..Len(b) : (a \o b)[Len(a) + i] = b[i]
OBVIOUS

\* The first record with a CRC is what the binary search of Search finds.
LEMMA FirstFound ==
    ASSUME NEW list \in Seq(Made), Ascending(list), NEW c \in Paths(list)
    PROVE  Found(list, c) # {}
<1> DEFINE S == {i \in DOMAIN list : list[i].Crc = c}
<1>1. S \in SUBSET Nat /\ S # {} BY DEF Paths
<1>2. PICK i \in S : \A j \in S : i <= j BY <1>1, Smallest
<1>3. ASSUME NEW j \in 1..i - 1 PROVE list[j].Crc < c
  <2>1. j \in DOMAIN list /\ j < i /\ j \notin S BY <1>2
  <2>2. list[j].Crc <= c /\ list[j].Crc # c BY <1>2, <2>1 DEF Ascending
  <2> QED BY <1>2, <2>1, <2>2, MadeFields
<1> QED BY <1>2, <1>3 DEF Found

LEMMA FoundOnce ==
    ASSUME NEW list \in Seq(Made), NEW c, NEW i \in Found(list, c), NEW j \in Found(list, c)
    PROVE  i = j
<1>1. i \in DOMAIN list /\ j \in DOMAIN list /\ list[i].Crc = c /\ list[j].Crc = c BY DEF Found
<1>2. c \in Nat BY <1>1, MadeFields
<1>3. ~(i < j)
  <2>1. i < j => i \in 1..j - 1 BY <1>1
  <2> QED BY <1>1, <1>2, <2>1 DEF Found
<1>4. ~(j < i)
  <2>1. j < i => j \in 1..i - 1 BY <1>1
  <2> QED BY <1>1, <1>2, <2>1 DEF Found
<1> QED BY <1>1, <1>3, <1>4

LEMMA ServesMeans ==
    ASSUME NEW list, NEW contents
    PROVE  Serves(list, contents) <=>
           /\ Paths(list) = DOMAIN contents
           /\ \A c \in DOMAIN contents :
                 /\ Found(list, c) # {}
                 /\ Settled(list, c) =>
                       \A i \in Found(list, c) : ValueOf(list[i]) \in contents[c]
<1>1. \A c \in Paths(list) : Contents(list)[c] = {ValueOf(list[i]) : i \in Found(list, c)}
  BY DEF Contents
<1> QED BY <1>1 DEF Serves

\* A list in order serves what is found in it.
LEMMA ServesItself ==
    ASSUME NEW list \in Seq(Made), Ascending(list)
    PROVE  Serves(list, Contents(list))
<1>1. DOMAIN Contents(list) = Paths(list) BY DEF Contents
<1>2. \A c \in Paths(list) : Contents(list)[c] = {ValueOf(list[i]) : i \in Found(list, c)}
  BY DEF Contents
<1> QED BY <1>1, <1>2, FirstFound, ServesMeans

-----------------------------------------------------------------------------
(* Sorting.                                                                *)

LEMMA Interval ==
    ASSUME NEW n \in Nat
    PROVE  IsFiniteSet(1..n) /\ Cardinality(1..n) = n
<1>1. Cardinality(1..n) = IF 1 > n THEN 0 ELSE n - 1 + 1 BY FS_Interval
<1> QED BY <1>1, FS_Interval

LEMMA OrderMeans ==
    ASSUME NEW list \in Seq(Made), NEW p \in Orders(list)
    PROVE  /\ p \in [DOMAIN list -> DOMAIN list]
           /\ \A k, l \in DOMAIN list : p[k] = p[l] => k = l
           /\ \A i \in DOMAIN list : \E k \in DOMAIN list : p[k] = i
           /\ \A k, l \in DOMAIN list : k < l => Before(list, p[k], p[l])
<1>1. p \in Bijection(DOMAIN list, DOMAIN list)
      /\ \A k, l \in DOMAIN list : k < l => Before(list, p[k], p[l])
  BY DEF Orders
<1> QED BY <1>1 DEF Bijection, Injection, Surjection, IsInjective

LEMMA SortSorts ==
    ASSUME NEW list \in Seq(Made), NEW p \in Orders(list)
    PROVE  /\ SortedBy(list, p) \in Seq(Made) /\ Len(SortedBy(list, p)) = Len(list)
           /\ \A k \in DOMAIN list : p[k] \in DOMAIN list /\ SortedBy(list, p)[k] = list[p[k]]
           /\ Ascending(SortedBy(list, p)) /\ Paths(SortedBy(list, p)) = Paths(list)
<1> DEFINE s == SortedBy(list, p)
<1>1. s = [k \in DOMAIN list |-> list[p[k]]] BY DEF SortedBy
<1>2. /\ p \in [DOMAIN list -> DOMAIN list]
      /\ \A i \in DOMAIN list : \E k \in DOMAIN list : p[k] = i
      /\ \A k, l \in DOMAIN list : k < l => Before(list, p[k], p[l])
  BY OrderMeans
<1>3. s \in Seq(Made) /\ Len(s) = Len(list) /\ DOMAIN s = DOMAIN list
  <2>1. \A k \in 1..Len(list) : list[p[k]] \in Made BY <1>2
  <2> QED BY <1>1, <2>1
<1> HIDE DEF s
<1>4. Ascending(s)
  <2> SUFFICES ASSUME NEW k \in DOMAIN list, NEW l \in DOMAIN list, k < l
               PROVE  s[k].Crc <= s[l].Crc
    BY <1>3 DEF Ascending
  <2>1. Before(list, p[k], p[l]) /\ p[k] \in DOMAIN list /\ p[l] \in DOMAIN list BY <1>2
  <2>2. list[p[k]].Crc \in Nat /\ list[p[l]].Crc \in Nat BY <2>1, MadeFields
  <2>3. list[p[k]].Crc <= list[p[l]].Crc BY <2>1, <2>2 DEF Before
  <2> QED BY <1>1, <2>3
<1>5. Paths(s) = Paths(list) BY <1>1, <1>2, <1>3 DEF Paths
<1> QED BY <1>1, <1>2, <1>3, <1>4, <1>5 DEF s

\* Of records that cannot have changed places, the first stays the first.
LEMMA SortFirst ==
    ASSUME NEW list \in Seq(Made), NEW p \in Orders(list), NEW c,
           NEW k \in Found(SortedBy(list, p), c), Settled(list, c)
    PROVE  /\ p[k] \in DOMAIN list /\ list[p[k]].Crc = c
           /\ SortedBy(list, p)[k] = list[p[k]]
           /\ \A j \in DOMAIN list : list[j].Crc = c => p[k] <= j
<1> DEFINE s == SortedBy(list, p)
<1>1. s \in Seq(Made) /\ Len(s) = Len(list)
      /\ \A m \in DOMAIN list : p[m] \in DOMAIN list /\ s[m] = list[p[m]]
  BY SortSorts
<1>2. k \in DOMAIN list /\ s[k].Crc = c /\ \A m \in 1..k - 1 : s[m].Crc < c
  BY <1>1 DEF Found
<1> HIDE DEF s
<1>3. p[k] \in DOMAIN list /\ list[p[k]].Crc = c BY <1>1, <1>2
<1>4. ASSUME NEW j \in DOMAIN list, list[j].Crc = c PROVE p[k] <= j
  <2>1. CASE j = p[k] BY <2>1
  <2>2. CASE j # p[k]
    <3>1. Len(list) <= InsertionLimit BY <1>3, <1>4, <2>2 DEF Settled
    <3>2. PICK m \in DOMAIN list : p[m] = j BY OrderMeans
    <3>3. m \in Nat /\ k \in Nat /\ m # k /\ m \in 1..Len(list) /\ k \in 1..Len(list)
      BY <1>2, <2>2, <3>2
    <3>4. ~(m < k)
      <4>1. m < k => m \in 1..k - 1 BY <3>3
      <4>2. s[m].Crc = c BY <1>1, <1>4, <3>2
      <4>3. c \in Nat BY <1>3, MadeFields
      <4> QED BY <1>2, <4>1, <4>2, <4>3
    <3>5. Before(list, p[k], j) BY <1>2, <3>2, <3>3, <3>4, OrderMeans
    <3>6. c \in Nat BY <1>3, MadeFields
    <3> QED BY <1>3, <1>4, <3>1, <3>5, <3>6 DEF Before
  <2> QED BY <2>1, <2>2
<1> QED BY <1>1, <1>2, <1>3, <1>4 DEF s

LEMMA TooFew ==
    ASSUME NEW k \in Nat, k >= 1, NEW f \in [1..k -> 1..k - 1]
    PROVE  \E x, y \in 1..k : x # y /\ f[x] = f[y]
<1>1. k - 1 \in Nat OBVIOUS
<1>2. IsFiniteSet(1..k) /\ Cardinality(1..k) = k BY Interval
<1>3. IsFiniteSet(1..k - 1) /\ Cardinality(1..k - 1) = k - 1 BY <1>1, Interval
<1>4. Cardinality(1..k - 1) < Cardinality(1..k) BY <1>2, <1>3
<1>5. PICK S, T : S = 1..k /\ T = 1..k - 1 OBVIOUS
<1>6. IsFiniteSet(S) /\ IsFiniteSet(T) /\ Cardinality(T) < Cardinality(S) /\ f \in [S -> T]
  BY <1>2, <1>3, <1>4, <1>5
<1>7. \E x, y \in S : x # y /\ f[x] = f[y] BY <1>6, FS_PigeonHole
<1> QED BY <1>5, <1>7

\* Sorting more records in puts smaller CRCs at the places of a list in
\* order, and without any leaves its CRCs where they are.
LEMMA SortBelow ==
    ASSUME NEW s \in Seq(Made), NEW t \in Seq(Made), Ascending(s), NEW k \in DOMAIN s,
           NEW p \in Orders(s \o t)
    PROVE  /\ k \in DOMAIN (s \o t)
           /\ SortedBy(s \o t, p)[k].Crc <= s[k].Crc
           /\ t = << >> => SortedBy(s \o t, p)[k].Crc = s[k].Crc
<1> DEFINE list == s \o t
           sorted == SortedBy(list, p)
<1>1. /\ list \in Seq(Made) /\ Len(list) = Len(s) + Len(t)
      /\ \A i \in 1..Len(s) : list[i] = s[i]
  BY Joined
<1>0. k \in Nat /\ k >= 1 /\ k \in 1..Len(s) /\ Len(s) \in Nat /\ Len(t) \in Nat OBVIOUS
<1>2. k \in DOMAIN list /\ 1..k \subseteq DOMAIN list BY <1>1, <1>0
<1>3. /\ sorted \in Seq(Made) /\ Len(sorted) = Len(list) /\ Ascending(sorted)
      /\ \A m \in DOMAIN list : p[m] \in DOMAIN list /\ sorted[m] = list[p[m]]
  BY <1>1, SortSorts
<1>4. /\ \A m, l \in DOMAIN list : p[m] = p[l] => m = l
      /\ \A i \in DOMAIN list : \E m \in DOMAIN list : p[m] = i
  BY <1>1, OrderMeans
<1>7. t = << >> => list = s BY DEF list
<1> HIDE DEF list, sorted
<1>5. sorted[k].Crc \in Nat /\ s[k].Crc \in Nat BY <1>0, <1>2, <1>3, MadeFields
<1>6. sorted[k].Crc <= s[k].Crc
  <2> SUFFICES ASSUME s[k].Crc < sorted[k].Crc PROVE FALSE BY <1>5
  <2> DEFINE f == [j \in 1..k |-> CHOOSE m \in DOMAIN list : p[m] = j]
  <2>1. ASSUME NEW j \in 1..k PROVE f[j] \in DOMAIN list /\ p[f[j]] = j BY <1>2, <1>4
  <2>2. ASSUME NEW j \in 1..k PROVE f[j] \in 1..k - 1
    <3>1. j \in DOMAIN s /\ list[j] = s[j] /\ f[j] \in DOMAIN list /\ p[f[j]] = j
      BY <1>0, <1>1, <2>1
    <3>2. s[j].Crc \in Nat BY <3>1, MadeFields
    <3>3. s[j].Crc <= s[k].Crc BY <1>0, <1>5, <3>1, <3>2 DEF Ascending
    <3>4. sorted[f[j]].Crc = s[j].Crc BY <1>3, <3>1
    <3>5. k <= f[j] => sorted[k].Crc <= sorted[f[j]].Crc
      BY <1>2, <1>3, <1>5, <3>1, <3>2, <3>4 DEF Ascending
    <3>6. f[j] \in Nat /\ f[j] >= 1 BY <1>1, <3>1
    <3> HIDE DEF f
    <3> QED BY <1>0, <1>5, <3>2, <3>3, <3>4, <3>5, <3>6
  <2>3. f \in [1..k -> 1..k - 1] BY <2>2
  <2> HIDE DEF f
  <2>4. PICK x, y \in 1..k : x # y /\ f[x] = f[y] BY <1>0, <2>3, TooFew
  <2> QED BY <2>1, <2>4
<1>8. ASSUME t = << >> PROVE sorted[k].Crc = s[k].Crc
  <2> SUFFICES ASSUME sorted[k].Crc < s[k].Crc PROVE FALSE BY <1>5, <1>6
  <2>1. list = s BY <1>7, <1>8
  <2> DEFINE f == [j \in 1..k |-> p[j]]
  <2>2. ASSUME NEW j \in 1..k PROVE f[j] \in 1..k - 1
    <3>1. j \in DOMAIN list /\ p[j] \in DOMAIN list /\ sorted[j] = list[p[j]] /\ f[j] = p[j]
      BY <1>2, <1>3
    <3>2. sorted[j].Crc \in Nat /\ j \in Nat BY <1>3, <3>1, MadeFields
    <3>3. sorted[j].Crc <= sorted[k].Crc
      <4>1. j \in DOMAIN sorted /\ k \in DOMAIN sorted /\ (j < k \/ j = k) BY <1>0, <1>2, <1>3, <3>1
      <4> QED BY <1>3, <1>5, <4>1 DEF Ascending
    <3>4. p[j] \in DOMAIN s /\ s[p[j]].Crc = sorted[j].Crc /\ p[j] \in Nat /\ p[j] >= 1
      BY <2>1, <3>1
    <3>5. k <= p[j] => s[k].Crc <= s[p[j]].Crc BY <1>5, <3>2, <3>4 DEF Ascending
    <3> QED BY <1>0, <1>5, <3>1, <3>2, <3>3, <3>4, <3>5
  <2>3. f \in [1..k -> 1..k - 1] BY <2>2
  <2>4. PICK x, y \in 1..k : x # y /\ f[x] = f[y]
    <3> HIDE DEF f
    <3> QED BY <1>0, <2>3, TooFew
  <2> QED BY <1>2, <1>4, <2>4
<1> QED BY <1>2, <1>6, <1>8 DEF list, sorted

\* What EndStore makes of a list in order and the records that were added.
LEMMA OrderedList ==
    ASSUME NEW s \in Seq(Made), NEW t \in Seq(Made), Ascending(s), NEW p \in Orders(s \o t)
    PROVE  LET new == Ordered(s \o t, p)
           IN  /\ new \in Seq(Made) /\ Len(new) = Len(s) + Len(t)
               /\ Ascending(new) /\ Indexed(new)
               /\ Paths(new) = Paths(s) \cup Paths(t)
               /\ \A k \in DOMAIN s : new[k].Crc <= s[k].Crc
               /\ t = << >> => \A k \in DOMAIN s : new[k].Crc = s[k].Crc
               /\ \A k \in DOMAIN new : \E i \in DOMAIN (s \o t) :
                     /\ new[k].Crc = (s \o t)[i].Crc /\ ValueOf(new[k]) = ValueOf((s \o t)[i])
                     /\ new[k].PackName = (s \o t)[i].PackName
<1> DEFINE list == s \o t
           sorted == SortedBy(list, p)
           new == Ordered(list, p)
<1>1. /\ list \in Seq(Made) /\ Len(list) = Len(s) + Len(t)
      /\ \A i \in 1..Len(s) : list[i] = s[i]
      /\ \A i \in Len(s) + 1..Len(s) + Len(t) : list[i] = t[i - Len(s)]
  BY Joined
<1>2. /\ sorted \in Seq(Made) /\ Len(sorted) = Len(list) /\ Ascending(sorted)
      /\ Paths(sorted) = Paths(list)
      /\ \A k \in DOMAIN list : p[k] \in DOMAIN list /\ sorted[k] = list[p[k]]
  BY <1>1, SortSorts
<1>3. new = [i \in DOMAIN sorted |-> [sorted[i] EXCEPT !.node = <<i, Len(sorted)>>]]
  BY DEF Ordered, UpdateIndices
<1>4. \A k \in DOMAIN s : sorted[k].Crc <= s[k].Crc /\ (t = << >> => sorted[k].Crc = s[k].Crc)
  BY SortBelow
<1>6. Paths(list) = Paths(s) \cup Paths(t)
  <2>1. Paths(s) \subseteq Paths(list) BY <1>1 DEF Paths
  <2>2. ASSUME NEW i \in DOMAIN t PROVE t[i].Crc \in Paths(list)
    <3>1. Len(s) + i \in DOMAIN list /\ list[Len(s) + i] = t[i] BY <1>1
    <3> QED BY <3>1 DEF Paths
  <2>3. ASSUME NEW i \in DOMAIN list PROVE list[i].Crc \in Paths(s) \cup Paths(t)
    <3>1. CASE i \in 1..Len(s) BY <1>1, <3>1 DEF Paths
    <3>2. CASE i \in Len(s) + 1..Len(s) + Len(t)
      <4>1. i - Len(s) \in DOMAIN t /\ list[i] = t[i - Len(s)] BY <1>1, <3>2
      <4> QED BY <4>1 DEF Paths
    <3> QED BY <1>1, <3>1, <3>2
  <2> QED BY <2>1, <2>2, <2>3 DEF Paths
<1> HIDE DEF list, sorted, new
<1>7. ASSUME NEW i \in DOMAIN sorted
      PROVE  /\ new[i] \in Made /\ new[i].Crc = sorted[i].Crc /\ new[i].PackName = sorted[i].PackName
             /\ new[i].node = <<i, Len(sorted)>> /\ ValueOf(new[i]) = ValueOf(sorted[i])
  <2>1. sorted[i] \in Made /\ i \in Nat /\ Len(sorted) \in Nat BY <1>2
  <2>2. new[i] = [sorted[i] EXCEPT !.node = <<i, Len(sorted)>>] BY <1>3
  <2>3. <<i, Len(sorted)>> \in Nat \X Nat BY <2>1
  <2> HIDE DEF new
  <2>4. new[i] \in Made BY <2>1, <2>2, <2>3 DEF Made
  <2>5. /\ new[i].Crc = sorted[i].Crc /\ new[i].PackName = sorted[i].PackName
        /\ new[i].node = <<i, Len(sorted)>> /\ new[i].IsCompressed = sorted[i].IsCompressed
    BY <2>1, <2>2 DEF Made
  <2> QED BY <2>4, <2>5 DEF ValueOf
<1>8. new \in Seq(Made) /\ Len(new) = Len(sorted) /\ DOMAIN new = DOMAIN sorted
  <2>1. \A i \in 1..Len(sorted) : new[i] \in Made BY <1>2, <1>7
  <2>2. DOMAIN new = 1..Len(sorted) BY <1>2, <1>3
  <2>3. new = [i \in 1..Len(sorted) |-> new[i]] BY <1>2, <1>3, <2>2
  <2> QED BY <1>2, <2>1, <2>2, <2>3
<1>9. Ascending(new) /\ Indexed(new) BY <1>2, <1>7, <1>8 DEF Ascending, Indexed
<1>10. Paths(new) = Paths(sorted) BY <1>7, <1>8 DEF Paths
<1>11. DOMAIN s \subseteq DOMAIN sorted BY <1>1, <1>2
<1>12. ASSUME NEW k \in DOMAIN new
       PROVE  \E i \in DOMAIN list :
                 /\ new[k].Crc = list[i].Crc /\ ValueOf(new[k]) = ValueOf(list[i])
                 /\ new[k].PackName = list[i].PackName
  <2>1. k \in DOMAIN list /\ p[k] \in DOMAIN list /\ sorted[k] = list[p[k]]
    BY <1>1, <1>2, <1>8
  <2> QED BY <1>7, <1>8, <2>1
<1>13. /\ new \in Seq(Made) /\ Len(new) = Len(s) + Len(t)
       /\ Paths(new) = Paths(s) \cup Paths(t)
       /\ \A k \in DOMAIN s : new[k].Crc <= s[k].Crc
       /\ t = << >> => \A k \in DOMAIN s : new[k].Crc = s[k].Crc
  BY <1>1, <1>2, <1>4, <1>6, <1>7, <1>8, <1>10, <1>11
<1> QED BY <1>9, <1>12, <1>13 DEF new, list

\* What is found in it is what was found before, or what was added.
LEMMA OrderedFirst ==
    ASSUME NEW s \in Seq(Made), NEW t \in Seq(Made), Ascending(s), NEW c, NEW p \in Orders(s \o t),
           NEW k \in Found(Ordered(s \o t, p), c), Settled(Ordered(s \o t, p), c)
    PROVE  \/ /\ Settled(s, c)
              /\ \E i \in Found(s, c) : ValueOf(Ordered(s \o t, p)[k]) = ValueOf(s[i])
           \/ /\ c \notin Paths(s)
              /\ \E i \in DOMAIN t :
                    t[i].Crc = c /\ ValueOf(Ordered(s \o t, p)[k]) = ValueOf(t[i])
<1> DEFINE list == s \o t
           sorted == SortedBy(list, p)
           new == Ordered(list, p)
<1>1. /\ list \in Seq(Made) /\ Len(list) = Len(s) + Len(t)
      /\ \A i \in 1..Len(s) : list[i] = s[i]
      /\ \A i \in Len(s) + 1..Len(s) + Len(t) : list[i] = t[i - Len(s)]
  BY Joined
<1>11. p \in Orders(list) OBVIOUS
<1>2. sorted \in Seq(Made) /\ Len(sorted) = Len(list)
      /\ \A m \in DOMAIN list : p[m] \in DOMAIN list /\ sorted[m] = list[p[m]]
  BY <1>1, SortSorts
<1>3. new = [i \in DOMAIN sorted |-> [sorted[i] EXCEPT !.node = <<i, Len(sorted)>>]]
  BY DEF Ordered, UpdateIndices
<1> HIDE DEF list, sorted, new
<1>4. \A i \in DOMAIN sorted : new[i].Crc = sorted[i].Crc /\ ValueOf(new[i]) = ValueOf(sorted[i])
  <2> TAKE i \in DOMAIN sorted
  <2>1. sorted[i] \in Made BY <1>2
  <2>2. new[i] = [sorted[i] EXCEPT !.node = <<i, Len(sorted)>>] BY <1>3
  <2> QED BY <2>1, <2>2 DEF Made, ValueOf
<1>5. k \in Found(sorted, c)
  <2>1. k \in Found(new, c) BY DEF new, list
  <2>2. DOMAIN new = DOMAIN sorted /\ DOMAIN sorted = 1..Len(sorted) BY <1>2, <1>3
  <2>3. k \in DOMAIN sorted /\ \A j \in 1..k - 1 : j \in DOMAIN sorted BY <2>1, <2>2 DEF Found
  <2> QED BY <1>4, <2>1, <2>2, <2>3 DEF Found
<1>10. Settled(list, c)
  <2>1. CASE Len(list) <= InsertionLimit BY <2>1 DEF Settled
  <2>2. CASE \A i, j \in DOMAIN new : new[i].Crc = c /\ new[j].Crc = c => i = j
    <3> SUFFICES ASSUME NEW i \in DOMAIN list, NEW j \in DOMAIN list, list[i].Crc = c,
                        list[j].Crc = c
                 PROVE  i = j
      BY DEF Settled
    <3>0. \A m \in DOMAIN list : \E n \in DOMAIN list : p[n] = m BY <1>1, <1>11, OrderMeans
    <3>1. PICK k1 \in DOMAIN list : p[k1] = i BY <3>0
    <3>2. PICK k2 \in DOMAIN list : p[k2] = j BY <3>0
    <3>3. k1 \in DOMAIN sorted /\ k2 \in DOMAIN sorted /\ sorted[k1].Crc = c /\ sorted[k2].Crc = c
      BY <1>1, <1>2, <3>1, <3>2
    <3>4. k1 = k2 BY <1>3, <1>4, <2>2, <3>3
    <3> QED BY <3>1, <3>2, <3>4
  <2>3. Settled(new, c) BY DEF new, list
  <2>4. Len(new) = Len(list)
    <3>1. DOMAIN new = 1..Len(list) /\ Len(list) \in Nat BY <1>1, <1>2, <1>3
    <3> QED BY <1>3, <3>1
  <2> QED BY <2>1, <2>2, <2>3, <2>4 DEF Settled
<1> DEFINE i == p[k]
<1>6. /\ i \in DOMAIN list /\ list[i].Crc = c /\ sorted[k] = list[i]
      /\ \A j \in DOMAIN list : list[j].Crc = c => i <= j
  BY <1>1, <1>5, <1>10, <1>11, SortFirst DEF sorted
<1>7. ValueOf(new[k]) = ValueOf(list[i]) BY <1>4, <1>5, <1>6 DEF Found
<1> HIDE DEF i
<1>8. CASE i \in 1..Len(s)
  <2>1. i \in DOMAIN s /\ s[i].Crc = c /\ list[i] = s[i] /\ c \in Nat BY <1>1, <1>6, <1>8, MadeFields
  <2>2. ASSUME NEW j \in 1..i - 1 PROVE s[j].Crc < c
    <3>1. j \in DOMAIN s /\ j \in DOMAIN list /\ j < i BY <1>1, <1>8
    <3>2. s[j].Crc # c BY <1>1, <1>6, <1>8, <3>1
    <3>3. s[j].Crc <= c /\ s[j].Crc \in Nat BY <2>1, <3>1, MadeFields DEF Ascending
    <3> QED BY <2>1, <3>2, <3>3
  <2>3. i \in Found(s, c) BY <2>1, <2>2 DEF Found
  <2>4. Settled(s, c)
    <3>1. CASE Len(list) <= InsertionLimit
      <4>1. Len(s) \in Nat /\ Len(t) \in Nat /\ InsertionLimit \in Nat BY CatalogAssumption
      <4>2. Len(s) <= InsertionLimit BY <1>1, <3>1, <4>1
      <4> QED BY <4>2 DEF Settled
    <3>2. CASE \A x, y \in DOMAIN list : list[x].Crc = c /\ list[y].Crc = c => x = y
      <4>1. \A x \in DOMAIN s : x \in DOMAIN list /\ list[x] = s[x] BY <1>1
      <4> QED BY <3>2, <4>1 DEF Settled
    <3> QED BY <1>10, <3>1, <3>2 DEF Settled
  <2> QED BY <1>7, <2>1, <2>3, <2>4 DEF new, list
<1>9. CASE i \in Len(s) + 1..Len(s) + Len(t)
  <2>1. i - Len(s) \in DOMAIN t /\ list[i] = t[i - Len(s)] BY <1>1, <1>9
  <2>2. ASSUME NEW j \in DOMAIN s PROVE s[j].Crc # c
    <3>1. j \in DOMAIN list /\ list[j] = s[j] /\ j < i BY <1>1, <1>9
    <3> QED BY <1>1, <1>6, <1>9, <3>1
  <2> QED BY <1>6, <1>7, <2>1, <2>2 DEF Paths, new, list
<1> QED BY <1>1, <1>6, <1>8, <1>9

-----------------------------------------------------------------------------
(* The file.                                                               *)

LEMMA Cells ==
    /\ Version \in Cell /\ Garbled \in Cell /\ Version # Garbled
    /\ \A n \in Nat : Count(n) \in Cell /\ Count(n).kind = "count" /\ Count(n).value = n
                     /\ Count(n) # Garbled
    /\ \A s \in Names : Name(s) \in Cell /\ Name(s).kind = "name" /\ Name(s).value = s
    /\ \A r \in Made, i \in Nat :
          LET cell == Entry(r, i)
          IN  /\ cell \in Cell /\ cell.kind = "record" /\ cell.pack = i
              /\ cell.Crc = r.Crc /\ cell.node = r.node /\ cell.IsCompressed = r.IsCompressed
    /\ \A cell \in Cell : cell.kind = "count" => cell.value \in Nat /\ cell = Count(cell.value)
    /\ Garbled.kind = "garbled"
<1>1. /\ Version \in Cell /\ Garbled \in Cell /\ Version # Garbled /\ Garbled.kind = "garbled"
      /\ \A n \in Nat : Count(n) \in Cell /\ Count(n).kind = "count" /\ Count(n).value = n
                       /\ Count(n) # Garbled
      /\ \A s \in Names : Name(s) \in Cell /\ Name(s).kind = "name" /\ Name(s).value = s
  BY DEF Version, Garbled, Count, Name, Cell, Names
<1>2. ASSUME NEW r \in Made, NEW i \in Nat
      PROVE  LET cell == Entry(r, i)
             IN  /\ cell \in Cell /\ cell.kind = "record" /\ cell.pack = i
                 /\ cell.Crc = r.Crc /\ cell.node = r.node /\ cell.IsCompressed = r.IsCompressed
  <2>1. r.Crc \in Crcs /\ r.node \in Nat \X Nat /\ r.IsCompressed \in BOOLEAN
    BY CatalogAssumption DEF Made
  <2> QED BY <2>1 DEF Entry, Cell
<1>3. \A cell \in Cell : cell.kind = "count" => cell.value \in Nat /\ cell = Count(cell.value)
  BY DEF Cell, Count, Garbled
<1> QED BY <1>1, <1>2, <1>3

\* What is left of a cell that is written in part.
LEMMA HalfCells ==
    /\ \A cell \in Cell : Half(cell) \in Cell
    /\ Half(Version) = Garbled
    /\ \A n \in Nat : Half(Count(n)) = Garbled
    /\ \A s \in Names : Half(Name(s)) = Garbled
    /\ \A r \in Made, i \in Nat :
          LET cell == Half(Entry(r, i))
          IN  /\ cell.kind = "torn" /\ cell.pack = i
              /\ cell.Crc = r.Crc /\ cell.node = r.node /\ cell.IsCompressed = r.IsCompressed
<1>1. \A cell \in Cell : Half(cell) \in Cell
  <2> TAKE cell \in Cell
  <2>1. CASE cell.kind = "record"
    <3>1. cell \in [kind : {"record", "torn"}, Crc : Crcs, node : Nat \X Nat, pack : Nat,
                    IsCompressed : BOOLEAN]
      BY <2>1 DEF Cell, Garbled
    <3>2. Half(cell) = [cell EXCEPT !.kind = "torn"] BY <2>1 DEF Half, Torn
    <3>3. Half(cell) \in [kind : {"record", "torn"}, Crc : Crcs, node : Nat \X Nat, pack : Nat,
                          IsCompressed : BOOLEAN]
      BY <3>1, <3>2
    <3> QED BY <3>3 DEF Cell
  <2>2. CASE cell.kind # "record" BY <2>2, Cells DEF Half
  <2> QED BY <2>1, <2>2
<1>2. Half(Version) = Garbled BY DEF Half, Version
<1>3. \A n \in Nat : Half(Count(n)) = Garbled BY DEF Half, Count
<1>4. \A s \in Names : Half(Name(s)) = Garbled BY DEF Half, Name
<1>5. \A r \in Made, i \in Nat :
          LET cell == Half(Entry(r, i))
          IN  /\ cell.kind = "torn" /\ cell.pack = i
              /\ cell.Crc = r.Crc /\ cell.node = r.node /\ cell.IsCompressed = r.IsCompressed
  <2> TAKE r \in Made, i \in Nat
  <2>1. Half(Entry(r, i)) = [Entry(r, i) EXCEPT !.kind = "torn"] BY DEF Half, Torn, Entry
  <2> QED BY <2>1 DEF Entry
<1> QED BY <1>1, <1>2, <1>3, <1>4, <1>5

MemoryTyped == packNames \in Seq(Names) /\ records \in Seq(Made) /\ NamedIn(records, packNames)

LEMMA Placed ==
    ASSUME MemoryTyped, NEW i \in DOMAIN records
    PROVE  /\ PlaceOf(records[i]) \in 1..Len(packNames)
           /\ packNames[PlaceOf(records[i])] = records[i].PackName
BY DEF MemoryTyped, NamedIn, PlaceOf, WrittenNames

LEMMA BlockCells ==
    ASSUME MemoryTyped
    PROVE  /\ Block \in Seq(Cell) /\ Len(Block) = 3 + Len(packNames) + Len(records)
           /\ Block[1] = Version /\ Block[2] = Count(Len(packNames))
           /\ \A i \in 1..Len(packNames) : Block[2 + i] = Name(packNames[i])
           /\ Block[3 + Len(packNames)] = Count(Len(records))
           /\ \A i \in 1..Len(records) :
                 Block[3 + Len(packNames) + i] = Entry(records[i], PlaceOf(records[i]))
<1> DEFINE head == <<Version, Count(Len(packNames))>>
           list == [i \in DOMAIN packNames |-> Name(packNames[i])]
           count == <<Count(Len(records))>>
           rest == [i \in DOMAIN records |-> Entry(records[i], PlaceOf(records[i]))]
<1>1. head \in Seq(Cell) /\ Len(head) = 2 /\ head[1] = Version /\ head[2] = Count(Len(packNames))
  <2>1. Version \in Cell /\ Count(Len(packNames)) \in Cell BY Cells DEF MemoryTyped
  <2> QED BY <2>1
<1>2. list \in Seq(Cell) /\ Len(list) = Len(packNames)
      /\ \A i \in 1..Len(packNames) : list[i] = Name(packNames[i])
  <2>1. \A i \in 1..Len(packNames) : packNames[i] \in Names BY DEF MemoryTyped
  <2>2. \A i \in 1..Len(packNames) : Name(packNames[i]) \in Cell BY <2>1, Cells
  <2>3. Len(packNames) \in Nat /\ DOMAIN packNames = 1..Len(packNames) BY DEF MemoryTyped
  <2> QED BY <2>2, <2>3
<1>3. count \in Seq(Cell) /\ Len(count) = 1 /\ count[1] = Count(Len(records))
  <2>1. Count(Len(records)) \in Cell BY Cells DEF MemoryTyped
  <2> QED BY <2>1
<1>4. rest \in Seq(Cell) /\ Len(rest) = Len(records)
      /\ \A i \in 1..Len(records) : rest[i] = Entry(records[i], PlaceOf(records[i]))
  <2>1. Len(records) \in Nat /\ DOMAIN records = 1..Len(records) BY DEF MemoryTyped
  <2>2. \A i \in 1..Len(records) : records[i] \in Made BY DEF MemoryTyped
  <2>3. \A i \in 1..Len(records) : PlaceOf(records[i]) \in Nat
    <3> TAKE i \in 1..Len(records)
    <3>1. PlaceOf(records[i]) \in 1..Len(packNames) BY <2>1, Placed
    <3> QED BY <3>1
  <2>4. \A i \in 1..Len(records) : Entry(records[i], PlaceOf(records[i])) \in Cell
    BY <2>2, <2>3, Cells
  <2> QED BY <2>1, <2>4
<1>5. Block = head \o list \o count \o rest BY DEF Block, WrittenNames
<1> HIDE DEF head, list, count, rest
<1>9. Len(packNames) \in Nat /\ Len(records) \in Nat BY DEF MemoryTyped
<1> DEFINE two == head \o list
           three == two \o count
<1>6. /\ two \in Seq(Cell) /\ Len(two) = 2 + Len(packNames)
      /\ \A i \in 1..2 : two[i] = head[i]
      /\ \A i \in 1..Len(packNames) : two[2 + i] = list[i]
  <2>0. head \in Seq(Cell) /\ list \in Seq(Cell) BY <1>1, <1>2
  <2>1. /\ head \o list \in Seq(Cell) /\ Len(head \o list) = Len(head) + Len(list)
        /\ \A i \in 1..Len(head) : (head \o list)[i] = head[i]
        /\ \A i \in Len(head) + 1..Len(head) + Len(list) : (head \o list)[i] = list[i - Len(head)]
        /\ \A i \in 1..Len(list) : (head \o list)[Len(head) + i] = list[i]
    BY <2>0, Joined
  <2> QED BY <2>1, <1>1, <1>2 DEF two
<1> HIDE DEF two
<1>7. /\ three \in Seq(Cell) /\ Len(three) = 3 + Len(packNames)
      /\ \A i \in 1..2 + Len(packNames) : three[i] = two[i]
      /\ three[3 + Len(packNames)] = count[1]
  <2>0. two \in Seq(Cell) /\ count \in Seq(Cell) BY <1>3, <1>6
  <2>1. /\ two \o count \in Seq(Cell) /\ Len(two \o count) = Len(two) + Len(count)
        /\ \A i \in 1..Len(two) : (two \o count)[i] = two[i]
        /\ \A i \in Len(two) + 1..Len(two) + Len(count) : (two \o count)[i] = count[i - Len(two)]
        /\ \A i \in 1..Len(count) : (two \o count)[Len(two) + i] = count[i]
    BY <2>0, Joined
  <2>2. Len(two) + 1 = 3 + Len(packNames) BY <1>6, <1>9
  <2>3. (two \o count)[Len(two) + 1] = count[1] BY <1>3, <1>6, <2>1
  <2> QED BY <1>3, <1>6, <2>1, <2>2, <2>3 DEF three
<1> HIDE DEF three
<1>8. /\ Block \in Seq(Cell) /\ Len(Block) = 3 + Len(packNames) + Len(records)
      /\ \A i \in 1..3 + Len(packNames) : Block[i] = three[i]
      /\ \A i \in 1..Len(records) : Block[3 + Len(packNames) + i] = rest[i]
  <2>0. three \in Seq(Cell) /\ rest \in Seq(Cell) BY <1>4, <1>7
  <2>1. /\ three \o rest \in Seq(Cell) /\ Len(three \o rest) = Len(three) + Len(rest)
        /\ \A i \in 1..Len(three) : (three \o rest)[i] = three[i]
        /\ \A i \in Len(three) + 1..Len(three) + Len(rest) : (three \o rest)[i] = rest[i - Len(three)]
        /\ \A i \in 1..Len(rest) : (three \o rest)[Len(three) + i] = rest[i]
    BY <2>0, Joined
  <2>2. Block = three \o rest BY <1>5 DEF three, two
  <2> QED BY <2>1, <2>2, <1>4, <1>7
<1>10. \A i \in 1..2 : Block[i] = head[i]
  <2> TAKE i \in 1..2
  <2>1. i \in 1..2 + Len(packNames) /\ i \in 1..3 + Len(packNames) BY <1>9
  <2> QED BY <1>6, <1>7, <1>8, <2>1
<1>11. \A i \in 1..Len(packNames) : Block[2 + i] = list[i]
  <2> TAKE i \in 1..Len(packNames)
  <2>1. 2 + i \in 1..2 + Len(packNames) /\ 2 + i \in 1..3 + Len(packNames) BY <1>9
  <2> QED BY <1>6, <1>7, <1>8, <2>1
<1>12. Block[3 + Len(packNames)] = count[1]
  <2>1. 3 + Len(packNames) \in 1..3 + Len(packNames) BY <1>9
  <2> QED BY <1>7, <1>8, <2>1
<1> QED BY <1>1, <1>2, <1>3, <1>4, <1>8, <1>10, <1>11, <1>12

\* The cells from the next one on are those of the file as long as the number
\* of names is.
Aligned(n) == n < 2 \/ disk[2] = Block[2]

LEMMA OverwrittenCells ==
    ASSUME MemoryTyped, disk \in Seq(Cell), NEW n \in 0..Len(Block)
    PROVE  /\ Overwritten(n) \in Seq(Cell)
           /\ Len(Overwritten(n)) = IF n < Len(disk) THEN Len(disk) ELSE n
           /\ \A i \in 1..n : Overwritten(n)[i] = Block[i]
           /\ \A i \in n + 1..Len(disk) :
                 Overwritten(n)[i] = IF Aligned(n) THEN disk[i] ELSE Garbled
<1> DEFINE last == Reached(n)
<1>1. Block \in Seq(Cell) /\ Len(Block) \in Nat /\ Len(disk) \in Nat /\ n \in Nat /\ n <= Len(Block)
  BY BlockCells
<1>2. last = (IF n < Len(disk) THEN Len(disk) ELSE n) /\ last \in Nat /\ n <= last /\ Len(disk) <= last
  BY <1>1 DEF Reached
<1>3. Overwritten(n) = [i \in 1..last |-> IF i <= n THEN Block[i]
                                          ELSE IF Aligned(n) THEN disk[i] ELSE Garbled]
  BY DEF Overwritten, Aligned
<1>4. \A i \in 1..last : i <= n \/ i \in DOMAIN disk BY <1>1, <1>2
<1> HIDE DEF last
<1>5. ASSUME NEW i \in 1..last
      PROVE (IF i <= n THEN Block[i] ELSE IF Aligned(n) THEN disk[i] ELSE Garbled) \in Cell
  <2>1. CASE i <= n
    <3>1. i \in DOMAIN Block BY <1>1, <1>2, <2>1
    <3> QED BY <1>1, <2>1, <3>1
  <2>2. CASE ~(i <= n)
    <3>1. disk[i] \in Cell BY <1>4, <2>2
    <3> QED BY <2>2, <3>1, Cells
  <2> QED BY <2>1, <2>2
<1>6. Overwritten(n) \in Seq(Cell) /\ Len(Overwritten(n)) = last BY <1>2, <1>3, <1>5
<1>7. \A i \in 1..n : i \in 1..last /\ i <= n BY <1>1, <1>2
<1>8. \A i \in n + 1..Len(disk) : i \in 1..last /\ ~(i <= n) BY <1>1, <1>2
<1> QED BY <1>2, <1>3, <1>6, <1>7, <1>8

LEMMA CutCells ==
    ASSUME MemoryTyped, disk \in Seq(Cell), NEW n \in 0..Len(Block) - 1
    PROVE  /\ Cut(n) \in Seq(Cell)
           /\ Len(Cut(n)) = IF n + 1 < Len(disk) THEN Len(disk) ELSE n + 1
           /\ \A i \in 1..n : Cut(n)[i] = Block[i]
           /\ Cut(n)[n + 1] = Half(Block[n + 1])
           /\ \A i \in n + 2..Len(disk) : Cut(n)[i] = IF Aligned(n) THEN disk[i] ELSE Garbled
<1> DEFINE last == Reached(n + 1)
<1>1. Block \in Seq(Cell) /\ Len(Block) \in Nat /\ Len(disk) \in Nat /\ n \in Nat /\ n < Len(Block)
      /\ n \in 0..Len(Block)
  BY BlockCells
<1>2. /\ last = (IF n + 1 < Len(disk) THEN Len(disk) ELSE n + 1) /\ last \in Nat
      /\ n + 1 <= last /\ Len(disk) <= last
  BY <1>1 DEF Reached
<1>3. Cut(n) = [i \in 1..last |-> IF i = n + 1 THEN Half(Block[i]) ELSE Overwritten(n)[i]]
  BY DEF Cut
<1>4. /\ Overwritten(n) \in Seq(Cell)
      /\ Len(Overwritten(n)) = IF n < Len(disk) THEN Len(disk) ELSE n
      /\ \A i \in 1..n : Overwritten(n)[i] = Block[i]
      /\ \A i \in n + 1..Len(disk) : Overwritten(n)[i] = IF Aligned(n) THEN disk[i] ELSE Garbled
  BY <1>1, OverwrittenCells
<1> HIDE DEF last
<1>5. ASSUME NEW i \in 1..last
      PROVE (IF i = n + 1 THEN Half(Block[i]) ELSE Overwritten(n)[i]) \in Cell
  <2>1. CASE i = n + 1
    <3>1. Block[i] \in Cell BY <1>1, <2>1
    <3> QED BY <2>1, <3>1, HalfCells
  <2>2. CASE i # n + 1
    <3>1. i \in DOMAIN Overwritten(n) BY <1>1, <1>2, <1>4, <2>2
    <3> QED BY <1>4, <2>2, <3>1
  <2> QED BY <2>1, <2>2
<1>6. Cut(n) \in Seq(Cell) /\ Len(Cut(n)) = last BY <1>2, <1>3, <1>5
<1>7. \A i \in 1..n : i \in 1..last /\ i # n + 1 BY <1>1, <1>2
<1>8. \A i \in n + 2..Len(disk) : i \in 1..last /\ i # n + 1 /\ i \in n + 1..Len(disk)
  BY <1>1, <1>2
<1>9. n + 1 \in 1..last BY <1>1, <1>2
<1> QED BY <1>2, <1>3, <1>4, <1>6, <1>7, <1>8, <1>9

\* A Flush that does not fail writes over all that the file had.
LEMMA FullOverwrite ==
    ASSUME MemoryTyped, disk \in Seq(Cell), Len(disk) <= Len(Block)
    PROVE  Overwritten(Len(Block)) = Block
<1>1. Block \in Seq(Cell) /\ Len(Block) \in 0..Len(Block) BY BlockCells
<1>2. Len(Overwritten(Len(Block))) = Len(Block) BY <1>1, OverwrittenCells
<1>3. \A i \in 1..Len(Block) : Overwritten(Len(Block))[i] = Block[i] BY <1>1, OverwrittenCells
<1>4. Overwritten(Len(Block)) \in Seq(Cell) BY <1>1, OverwrittenCells
<1> QED BY <1>1, <1>2, <1>3, <1>4, SeqEqual

\* What Flush has written is read back as it was in memory; history knows
\* the records that it has written in part.
LEMMA BlockReadsBack ==
    ASSUME MemoryTyped, disk' \in Seq(Cell), Len(disk') = Len(Block),
           \A i \in 1..3 + Len(packNames) : disk'[i] = Block[i],
           \A i \in 1..Len(records) :
              disk'[3 + Len(packNames) + i] \in
                 {Block[3 + Len(packNames) + i], Half(Block[3 + Len(packNames) + i])}
    PROVE  /\ Acceptable' /\ NumNames' = Len(packNames) /\ NumRecords' = Len(records)
           /\ Len(disk') = 3 + Len(packNames) + Len(records)
           /\ DiskNames' = packNames /\ DiskRecords' = records
<1>1. Len(packNames) \in Nat /\ Len(records) \in Nat /\ Len(disk') = 3 + Len(packNames) + Len(records)
  BY BlockCells DEF MemoryTyped
<1>0. /\ disk'[1] = Version /\ disk'[2] = Count(Len(packNames))
      /\ disk'[3 + Len(packNames)] = Count(Len(records))
      /\ \A i \in 1..Len(packNames) : disk'[2 + i] = Name(packNames[i])
  <2>1. \A i \in 1..Len(packNames) : 2 + i \in 1..3 + Len(packNames) BY <1>1
  <2>2. 1 \in 1..3 + Len(packNames) /\ 2 \in 1..3 + Len(packNames)
        /\ 3 + Len(packNames) \in 1..3 + Len(packNames)
    BY <1>1
  <2> QED BY <2>1, <2>2, BlockCells
<1>2. NumNames' = Len(packNames) BY <1>0, <1>1, Cells DEF NumNames
<1>3. NumRecords' = Len(records) BY <1>0, <1>1, <1>2, Cells DEF NumRecords
<1>4. \A i \in 1..Len(packNames) : disk'[2 + i] = Name(packNames[i]) /\ packNames[i] \in Names
  BY <1>0 DEF MemoryTyped
<1>5. ASSUME NEW i \in 1..Len(records)
      PROVE  LET cell == disk'[3 + Len(packNames) + i]
             IN  /\ cell.kind \in {"record", "torn"} /\ cell.pack \in 1..Len(packNames)
                 /\ cell.Crc = records[i].Crc /\ cell.node = records[i].node
                 /\ cell.IsCompressed = records[i].IsCompressed
                 /\ packNames[cell.pack] = records[i].PackName
                 /\ records[i] \in Made
  <2>1. i \in DOMAIN records /\ records[i] \in Made BY DEF MemoryTyped
  <2> DEFINE place == PlaceOf(records[i])
  <2>2. place \in 1..Len(packNames) /\ place \in Nat /\ packNames[place] = records[i].PackName
    BY <1>1, <2>1, Placed
  <2>3. Block[3 + Len(packNames) + i] = Entry(records[i], place) BY BlockCells
  <2>4. disk'[3 + Len(packNames) + i] \in {Entry(records[i], place), Half(Entry(records[i], place))}
    BY <2>3
  <2> HIDE DEF place
  <2> QED BY <2>1, <2>2, <2>4, Cells, HalfCells
<1>6. Acceptable'
  <2>1. \A i \in 1..Len(records) :
           /\ disk'[3 + Len(packNames) + i].kind \in {"record", "torn"}
           /\ disk'[3 + Len(packNames) + i].pack \in 1..Len(packNames)
    BY <1>5
  <2>2. disk'[1] = Version /\ disk'[2].kind = "count" /\ disk'[3 + Len(packNames)].kind = "count"
    BY <1>0, <1>1, Cells
  <2>3. \A i \in 1..Len(packNames) : disk'[2 + i].kind = "name" BY <1>4, Cells
  <2>4. /\ Len(disk') >= 2 /\ Len(disk') >= 3 + Len(packNames)
        /\ Len(disk') >= 3 + Len(packNames) + Len(records)
    BY <1>1
  <2>5. Acceptable' <=> /\ Len(disk') >= 2 /\ disk'[1] = Version
                        /\ disk'[2].kind = "count"
                        /\ Len(disk') >= 3 + NumNames'
                        /\ \A i \in 1..NumNames' : disk'[2 + i].kind = "name"
                        /\ disk'[3 + NumNames'].kind = "count"
                        /\ Len(disk') >= 3 + NumNames' + NumRecords'
                        /\ \A i \in 1..NumRecords' :
                              /\ disk'[3 + NumNames' + i].kind \in {"record", "torn"}
                              /\ disk'[3 + NumNames' + i].pack \in 1..NumNames'
    BY DEF Acceptable
  <2> QED BY <1>2, <1>3, <2>1, <2>2, <2>3, <2>4, <2>5
<1>7. DiskNames' = packNames
  <2>1. DiskNames' = [i \in 1..Len(packNames) |-> disk'[2 + i].value] BY <1>2 DEF DiskNames
  <2>2. \A i \in 1..Len(packNames) : disk'[2 + i].value = packNames[i] BY <1>4, Cells
  <2> QED BY <2>1, <2>2 DEF MemoryTyped
<1>8. DiskRecords' = records
  <2>1. DiskRecords' = [i \in 1..Len(records) |->
            LET cell == disk'[3 + Len(packNames) + i]
            IN  [Crc |-> cell.Crc, node |-> cell.node, IsCompressed |-> cell.IsCompressed,
                 PackName |-> packNames[cell.pack]]]
    BY <1>2, <1>3, <1>7 DEF DiskRecords
  <2>2. ASSUME NEW i \in 1..Len(records) PROVE DiskRecords'[i] = records[i]
    <3>1. DiskRecords'[i] = [Crc |-> records[i].Crc, node |-> records[i].node,
                             IsCompressed |-> records[i].IsCompressed,
                             PackName |-> records[i].PackName]
      BY <1>5, <2>1
    <3> QED BY <1>5, <3>1 DEF Made
  <2> QED BY <2>1, <2>2 DEF MemoryTyped
<1> QED BY <1>1, <1>2, <1>3, <1>6, <1>7, <1>8

\* A block that is written in full has no record that is written in part.
LEMMA BlockUntorn ==
    ASSUME MemoryTyped, disk' = Block
    PROVE  Untorn'
<1>1. Len(packNames) \in Nat /\ Len(records) \in Nat /\ Block \in Seq(Cell)
      /\ Len(Block) = 3 + Len(packNames) + Len(records)
  BY BlockCells DEF MemoryTyped
<1> SUFFICES ASSUME NEW j \in 1..Len(Block) PROVE Block[j].kind # "torn"
  BY <1>1 DEF Untorn
<1>2. CASE j = 1 BY <1>2, BlockCells DEF Version
<1>3. CASE j = 2 BY <1>3, BlockCells DEF Count
<1>4. CASE j \in 3..2 + Len(packNames)
  <2>1. PICK i \in 1..Len(packNames) : j = 2 + i
    <3>1. j - 2 \in 1..Len(packNames) /\ j = 2 + (j - 2) BY <1>1, <1>4
    <3> QED BY <3>1
  <2>2. Block[j] = Name(packNames[i]) BY <2>1, BlockCells
  <2> QED BY <2>2 DEF Name
<1>5. CASE j = 3 + Len(packNames) BY <1>5, BlockCells DEF Count
<1>6. CASE j \in 4 + Len(packNames)..Len(Block)
  <2>1. PICK i \in 1..Len(records) : j = 3 + Len(packNames) + i
    <3>1. j - (3 + Len(packNames)) \in 1..Len(records)
          /\ j = 3 + Len(packNames) + (j - (3 + Len(packNames)))
      BY <1>1, <1>6
    <3> QED BY <3>1
  <2>2. Block[j] = Entry(records[i], PlaceOf(records[i])) BY <2>1, BlockCells
  <2> QED BY <2>2 DEF Entry
<1> QED BY <1>1, <1>2, <1>3, <1>4, <1>5, <1>6

-----------------------------------------------------------------------------
(* A Flush that fails.                                                     *)

LEMMA CountRead ==
    ASSUME disk \in Seq(Cell), NEW i \in DOMAIN disk, disk[i].kind = "count"
    PROVE  disk[i].value \in Nat /\ disk[i] = Count(disk[i].value)
<1>1. disk[i] \in Cell OBVIOUS
<1> QED BY <1>1, Cells

LEMMA CountReadNext ==
    ASSUME disk' \in Seq(Cell), NEW i \in DOMAIN disk', disk'[i].kind = "count"
    PROVE  disk'[i].value \in Nat
<1>1. disk'[i] \in Cell OBVIOUS
<1> QED BY <1>1, Cells

LEMMA HalfUnreadable ==
    ASSUME disk' \in Seq(Cell), NEW names, NEW list, HalfWritten(names, list)'
    PROVE  ~Acceptable'
<1> SUFFICES ASSUME Acceptable' PROVE FALSE OBVIOUS
<1> DEFINE D == Len(disk')
           q == NumNames'
           M == NumRecords'
<1>2. D \in Nat /\ 2 \in DOMAIN disk' BY DEF Acceptable
<1>3. q \in Nat BY <1>2, CountReadNext DEF Acceptable, NumNames
<1>4. 3 + q \in DOMAIN disk' BY <1>2, <1>3 DEF Acceptable
<1>5. M \in Nat BY <1>4, CountReadNext DEF Acceptable, NumRecords
<1>6. Garbled.kind # "count" /\ Garbled.kind # "record" /\ Garbled.kind # "torn" BY DEF Garbled
<1>9. 3 + q <= D /\ 3 + q + M <= D BY <1>4 DEF Acceptable
<1>10. /\ disk'[2].kind = "count" /\ disk'[3 + q].kind = "count"
       /\ \A i \in 1..M : disk'[3 + q + i].kind \in {"record", "torn"}
  BY DEF Acceptable
<1>1. PICK k \in 2..D : EndsAt(k, list)' BY <1>6, <1>10 DEF HalfWritten, HeadStops
<1>7. \A j \in k + 1..D : disk'[j] = Garbled BY <1>1 DEF EndsAt
<1>8. \/ k < 3 + q
       \/ k < 3 + q + M
  BY <1>1 DEF EndsAt
<1> HIDE DEF D, q, M
<1>11. CASE k < 3 + q
  <2>1. 3 + q \in k + 1..D BY <1>2, <1>3, <1>11, <1>9
  <2> QED BY <1>6, <1>7, <1>10, <2>1
<1>12. CASE k < 3 + q + M /\ ~(k < 3 + q)
  <2>1. 3 + q + M \in k + 1..D BY <1>2, <1>3, <1>5, <1>12, <1>9
  <2>2. M \in 1..M BY <1>2, <1>3, <1>5, <1>12
  <2>3. disk'[3 + q + M].kind \in {"record", "torn"} BY <1>10, <2>2
  <2> QED BY <1>6, <1>7, <2>1, <2>3
<1> QED BY <1>11, <1>12, <1>8

\* A file as it is left by a Flush that has written n cells and, if m is not
\* n, a part of cell m over other bytes.
Left(n, m) ==
    /\ disk' \in Seq(Cell) /\ Len(disk') = IF m < Len(disk) THEN Len(disk) ELSE m
    /\ \A i \in 1..n : disk'[i] = Block[i]
    /\ \/ m = n
       \/ /\ m = n + 1 /\ disk'[m] = Half(Block[m])
          /\ m <= Len(disk) /\ Aligned(n) => disk[m] # Block[m]
    /\ \A i \in m + 1..Len(disk) : disk'[i] = IF Aligned(n) THEN disk[i] ELSE Garbled

LEMMA FailsLeaves ==
    ASSUME MemoryTyped, disk \in Seq(Cell), NEW n \in 0..Len(Block) - 1,
           disk' = Overwritten(n) \/ (Changes(n) /\ disk' = Cut(n))
    PROVE  Left(n, n) \/ Left(n, n + 1)
<1>1. Len(Block) \in Nat /\ n \in 0..Len(Block) /\ Len(disk) \in Nat /\ n \in Nat BY BlockCells
<1>2. /\ Overwritten(n) \in Seq(Cell)
      /\ Len(Overwritten(n)) = IF n < Len(disk) THEN Len(disk) ELSE n
      /\ \A i \in 1..n : Overwritten(n)[i] = Block[i]
      /\ \A i \in n + 1..Len(disk) : Overwritten(n)[i] = IF Aligned(n) THEN disk[i] ELSE Garbled
  BY <1>1, OverwrittenCells
<1>3. CASE disk' = Overwritten(n) BY <1>2, <1>3 DEF Left
<1>4. CASE Changes(n) /\ disk' = Cut(n)
  <2>1. /\ Cut(n) \in Seq(Cell)
        /\ Len(Cut(n)) = IF n + 1 < Len(disk) THEN Len(disk) ELSE n + 1
        /\ \A i \in 1..n : Cut(n)[i] = Block[i]
        /\ Cut(n)[n + 1] = Half(Block[n + 1])
        /\ \A i \in n + 2..Len(disk) : Cut(n)[i] = IF Aligned(n) THEN disk[i] ELSE Garbled
    BY CutCells
  <2>2. n + 1 <= Len(disk) /\ Aligned(n) => disk[n + 1] # Block[n + 1]
    <3> SUFFICES ASSUME n + 1 <= Len(disk), Aligned(n) PROVE disk[n + 1] # Block[n + 1] OBVIOUS
    <3>1. n + 1 \in n + 1..Len(disk) /\ n < Len(disk) BY <1>1
    <3> QED BY <1>2, <1>4, <3>1 DEF Changes
  <2>3. \A i \in (n + 1) + 1..Len(disk) : i \in n + 2..Len(disk) BY <1>1
  <2> QED BY <1>4, <2>1, <2>2, <2>3 DEF Left
<1> QED BY <1>3, <1>4

\* When only the last record is not written in full, the file is whole but
\* for it.
LEMMA LastTorn ==
    ASSUME MemoryTyped, disk \in Seq(Cell), Len(disk) <= Len(Block), Indexed(records),
           Ascending(records), Distinct(packNames), NEW names, NEW list, names = packNames,
           list = records, NEW n \in 0..Len(Block) - 1, NEW m, Left(n, m),
           m = Len(Block), Len(records) # 0
    PROVE  WholeFile' /\ Grown(names, list)' /\ DiskRecords' = records
<1> DEFINE P == Len(packNames)
           R == Len(records)
<1>1. P \in Nat /\ R \in Nat /\ R # 0 /\ Len(Block) = 3 + P + R /\ Len(disk) \in Nat /\ n \in Nat
  BY BlockCells DEF MemoryTyped
<1>2. m = n + 1 /\ disk' \in Seq(Cell) /\ Len(disk') = Len(Block) /\ disk'[m] = Half(Block[m])
      /\ \A i \in 1..n : disk'[i] = Block[i]
  BY <1>1 DEF Left
<1>3. \A i \in 1..3 + P : disk'[i] = Block[i]
  <2>1. \A i \in 1..3 + P : i \in 1..n BY <1>1, <1>2
  <2> QED BY <1>2, <2>1
<1>4. \A i \in 1..R : disk'[3 + P + i] \in {Block[3 + P + i], Half(Block[3 + P + i])}
  <2>0. /\ P \in Nat /\ R \in Nat /\ n \in Nat /\ m = n + 1 /\ m = 3 + P + R
    BY <1>1, <1>2
  <2> TAKE i \in 1..R
  <2>1. 3 + P + i \in 1..n \/ 3 + P + i = m
    <3> HIDE DEF P, R
    <3> QED BY <2>0
  <2> QED BY <1>2, <2>1
<1>5. /\ Acceptable' /\ NumNames' = P /\ NumRecords' = R /\ Len(disk') = 3 + P + R
      /\ DiskNames' = packNames /\ DiskRecords' = records
  BY <1>2, <1>3, <1>4, BlockReadsBack
<1>6. packNames \in Seq(Names) /\ records \in Seq(Made) BY DEF MemoryTyped
<1>7. \A i \in 1..R : records[i].Crc \in Nat BY <1>6, MadeFields
<1> QED BY <1>1, <1>5, <1>6, <1>7 DEF WholeFile, Grown

LEMMA SameFile ==
    ASSUME disk \in Seq(Cell), disk' \in Seq(Cell), Len(disk') = Len(disk),
           \A i \in 1..Len(disk) : disk'[i] = disk[i]
    PROVE  disk' = disk
BY SeqEqual

\* What happens in the head of a file that is not written in full.
LEMMA HeadHalf ==
    ASSUME MemoryTyped, disk \in Seq(Cell), NEW names, NEW list, names = packNames, list = records,
           NEW n \in 0..Len(Block) - 1, NEW m, Left(n, m),
           ~(m = Len(Block) /\ Len(records) # 0), n >= 2, disk[2] # Block[2], 2 <= Len(disk),
           Len(disk) <= 3 + Len(packNames) + Len(records),
           Len(records) # 0 => Len(disk) # 3 + Len(packNames) + Len(records)
    PROVE  HalfWritten(names, list)'
<1> DEFINE P == Len(packNames)
           R == Len(records)
           D == Len(disk)
           D1 == Len(disk')
<1>1. P \in Nat /\ R \in Nat /\ D \in Nat /\ D >= 2 /\ n \in Nat /\ n < 3 + P + R /\ n >= 2
      /\ D <= 3 + P + R /\ (R # 0 => D # 3 + P + R) /\ m \in n..n + 1
      /\ (R # 0 => m < 3 + P + R) /\ m <= 3 + P + R
  <2>1. Len(Block) = 3 + P + R BY BlockCells
  <2>2. n \in Nat /\ P \in Nat /\ R \in Nat /\ D \in Nat BY <2>1 DEF MemoryTyped
  <2>3. m \in n..n + 1 BY <2>2 DEF Left
  <2> QED BY <2>1, <2>2, <2>3
<1>2. /\ D1 = (IF m < D THEN D ELSE m)
      /\ \A i \in 1..n : disk'[i] = Block[i]
      /\ m = n \/ (m = n + 1 /\ disk'[m] = Half(Block[m]))
      /\ \A i \in m + 1..D : disk'[i] = Garbled
  <2>1. ~Aligned(n) BY <1>1 DEF Aligned
  <2> QED BY <2>1 DEF Left
<1>3. /\ D1 \in Nat /\ 2 <= D1 /\ D1 <= 3 + P + R /\ (R # 0 => D1 # 3 + P + R) /\ m \in 2..D1
      /\ \A j \in m + 1..D1 : j \in m + 1..D
  BY <1>1, <1>2
<1>4. Block[1] = Version /\ Block[2] = Count(P) /\ Block[3 + P] = Count(R) BY BlockCells
<1>5. /\ Count(P).kind = "count" /\ Count(P).value = P /\ Count(R).kind = "count"
      /\ Count(R).value = R /\ Half(Count(R)) = Garbled
  BY <1>1, Cells, HalfCells
<1>6. disk'[1] = Version /\ disk'[2] = Count(P) /\ NumNames' = P
  <2>1. 1 \in 1..n /\ 2 \in 1..n BY <1>1
  <2> QED BY <1>2, <1>4, <1>5, <2>1 DEF NumNames
<1>7. names' = names => TRUE OBVIOUS
<1> HIDE DEF P, R, D, D1
<1>8. CASE m < 3 + P
  <2>1. EndsAt(m, list)' BY <1>2, <1>3, <1>6, <1>8 DEF EndsAt, D1
  <2> QED BY <1>1, <1>3, <1>5, <1>6, <2>1 DEF HalfWritten, HeadStops, P, R, D1
<1>9. CASE m = 3 + P /\ m = n + 1
  <2>1. disk'[3 + P] = Garbled BY <1>1, <1>2, <1>4, <1>5, <1>9
  <2>2. D1 >= 3 + P BY <1>3, <1>9
  <2> QED BY <1>1, <1>3, <1>5, <1>6, <2>1, <2>2 DEF HalfWritten, HeadStops, P, R, D1
<1>10. CASE 3 + P <= n
  <2>1. disk'[3 + P] = Count(R)
    <3>1. 3 + P \in 1..n BY <1>1, <1>10
    <3> QED BY <1>2, <1>4, <3>1
  <2>2. NumRecords' = R BY <1>5, <1>6, <2>1 DEF NumRecords
  <2>3. R \in 0..Len(list) /\ m < 3 + P + R BY <1>1, <1>10 DEF R
  <2>4. EndsAt(m, list)' BY <1>2, <1>3, <1>5, <1>6, <2>1, <2>2, <2>3 DEF EndsAt, D1
  <2> QED BY <1>1, <1>3, <1>5, <1>6, <2>4 DEF HalfWritten, HeadStops, P, R, D1
<1> QED BY <1>1, <1>8, <1>9, <1>10

\* Writing on a file that is not written in full leaves it so.
LEMMA FailHalf ==
    ASSUME MemoryTyped, disk \in Seq(Cell), NEW names, NEW list, names = packNames, list = records,
           HalfWritten(names, list), NEW n \in 0..Len(Block) - 1, NEW m, Left(n, m),
           ~(m = Len(Block) /\ Len(records) # 0)
    PROVE  HalfWritten(names, list)'
<1> DEFINE P == Len(packNames)
           R == Len(records)
           D == Len(disk)
           D1 == Len(disk')
<1>1. /\ P \in Nat /\ R \in Nat /\ D \in Nat /\ D >= 2 /\ n \in Nat /\ n < 3 + P + R
      /\ D <= 3 + P + R /\ (R # 0 => D # 3 + P + R) /\ m \in n..n + 1
      /\ (R # 0 => m < 3 + P + R) /\ m <= 3 + P + R
  <2>1. Len(Block) = 3 + P + R BY BlockCells
  <2>2. n \in Nat /\ P \in Nat /\ R \in Nat /\ D \in Nat BY <2>1 DEF MemoryTyped
  <2>3. m \in n..n + 1 BY <2>2 DEF Left
  <2> QED BY <2>1, <2>2, <2>3 DEF HalfWritten
<1>2. disk[1] = Version /\ HeadStops(names, list) BY DEF HalfWritten
<1>3. Block[1] = Version /\ Block[2] = Count(P) /\ Block[3 + P] = Count(R) BY BlockCells
<1>4. /\ Count(P).kind = "count" /\ Count(P).value = P /\ Count(R).kind = "count"
      /\ Count(R).value = R /\ Half(Count(R)) = Garbled /\ Half(Count(P)) = Garbled
      /\ Garbled.kind # "count"
  BY <1>1, Cells, HalfCells
<1>5. /\ D1 = (IF m < D THEN D ELSE m) /\ disk' \in Seq(Cell)
      /\ \A i \in 1..n : disk'[i] = Block[i]
      /\ m = n \/ (m = n + 1 /\ disk'[m] = Half(Block[m])
                   /\ (m <= D /\ Aligned(n) => disk[m] # Block[m]))
      /\ \A i \in m + 1..D : disk'[i] = IF Aligned(n) THEN disk[i] ELSE Garbled
  BY DEF Left
<1>6. /\ D1 \in Nat /\ 2 <= D1 /\ D1 <= 3 + P + R /\ (R # 0 => D1 # 3 + P + R) /\ m \in 0..D1
      /\ \A j \in m + 1..D1 : j \in m + 1..D
  BY <1>1, <1>5
<1>7. CASE n < 2
  <2>0. Aligned(n) BY <1>7 DEF Aligned
  <2>1. CASE m = n
    <3>1. \A i \in 1..D : i \in 1..n \/ i \in m + 1..D BY <1>1, <2>1
    <3>2. \A i \in 1..n : i = 1 BY <1>1, <1>7
    <3>3. D1 = D BY <1>1, <1>5, <1>7, <2>1
    <3>4. \A i \in 1..D : disk'[i] = disk[i] BY <1>2, <1>3, <1>5, <2>0, <3>1, <3>2
    <3>5. disk' = disk BY <1>5, <3>3, <3>4, SameFile
    <3> QED BY <3>5 DEF HalfWritten, HeadStops, EndsAt, NumNames, NumRecords
  <2>2. CASE m = n + 1 /\ n = 0
    <3>1. disk[1] # Block[1] BY <1>1, <1>5, <2>0, <2>2
    <3> QED BY <1>2, <1>3, <3>1
  <2>3. CASE m = n + 1 /\ n = 1
    <3>1. disk'[2] = Garbled BY <1>3, <1>4, <1>5, <2>3
    <3>2. disk'[1] = Version
      <4>1. 1 \in 1..n BY <2>3
      <4> QED BY <1>3, <1>5, <4>1
    <3> QED BY <1>6, <3>1, <3>2 DEF HalfWritten, HeadStops
  <2> QED BY <1>1, <1>7, <2>1, <2>2, <2>3
<1>8. CASE n >= 2 /\ disk[2] # Block[2]
  BY <1>1, <1>8, HeadHalf
<1>9. CASE n >= 2 /\ disk[2] = Block[2]
  <2>1. NumNames = P /\ disk[2].kind = "count" BY <1>3, <1>4, <1>9 DEF NumNames
  <2>2. disk'[1] = Version /\ disk'[2] = Count(P) /\ NumNames' = P
    <3>1. 1 \in 1..n /\ 2 \in 1..n BY <1>1, <1>9
    <3> QED BY <1>3, <1>4, <1>5, <3>1 DEF NumNames
  <2>3. \A i \in m + 1..D : disk'[i] = disk[i] BY <1>5, <1>9 DEF Aligned
  <2>4. CASE m = 3 + P /\ m = n + 1
    <3>1. disk'[3 + P] = Garbled BY <1>1, <1>3, <1>4, <1>5, <2>4
    <3>2. D1 >= 3 + P BY <1>6, <2>4
    <3>3. HeadStops(names, list)' BY <1>1, <1>4, <2>2, <3>1, <3>2 DEF HeadStops
    <3> QED BY <1>6, <2>2, <3>3 DEF HalfWritten
  <2>5. CASE 3 + P <= n
    <3>1. disk'[3 + P] = Count(R)
      <4>1. 3 + P \in 1..n BY <1>1, <2>5
      <4> QED BY <1>3, <1>5, <4>1
    <3>2. NumRecords' = R BY <1>4, <2>2, <3>1 DEF NumRecords
    <3>3. R # 0 /\ D1 < 3 + P + R BY <1>1, <1>6, <2>5
    <3>4. PICK k \in 2..D1 : k = D1 BY <1>6
    <3>5. EndsAt(k, list)'
      <4>1. \A j \in k + 1..D1 : disk'[j] = Garbled BY <1>6, <3>4
      <4>2. R \in 0..R /\ k < 3 + P + R BY <1>1, <3>3, <3>4
      <4> QED BY <1>4, <2>2, <3>1, <3>2, <4>1, <4>2 DEF EndsAt
    <3>6. HeadStops(names, list)' BY <1>1, <1>4, <2>2, <3>4, <3>5 DEF HeadStops
    <3> QED BY <1>6, <2>2, <3>6 DEF HalfWritten
  <2>6. CASE m < 3 + P
    <3>1. CASE D >= 3 + P /\ disk[3 + P] = Garbled
      <4>1. 3 + P \in m + 1..D BY <1>1, <2>6, <3>1
      <4>2. disk'[3 + P] = Garbled /\ D1 >= 3 + P BY <1>1, <1>5, <2>3, <2>6, <3>1, <4>1
      <4>3. HeadStops(names, list)' BY <1>1, <1>4, <2>2, <4>2 DEF HeadStops
      <4> QED BY <1>6, <2>2, <4>3 DEF HalfWritten
    <3>2. ASSUME NEW k \in 2..D, EndsAt(k, list) PROVE HalfWritten(names, list)'
      <4>1. /\ \A j \in k + 1..D : disk[j] = Garbled
            /\ \/ k < 3 + P
               \/ disk[3 + P].kind = "count" /\ NumRecords \in 0..R /\ k < 3 + P + NumRecords
        BY <2>1, <3>2 DEF EndsAt
      <4>2. CASE k < 3 + P
        <5>1. PICK l \in 2..D1 : l = (IF m < k THEN k ELSE m) BY <1>1, <1>5, <1>6, <1>9
        <5>2. \A j \in l + 1..D1 : j \in m + 1..D /\ j \in k + 1..D BY <1>1, <1>6, <5>1
        <5>3. \A j \in l + 1..D1 : disk'[j] = Garbled BY <2>3, <4>1, <5>2
        <5>4. l < 3 + P BY <2>6, <4>2, <5>1
        <5>5. EndsAt(l, list)' BY <2>2, <5>3, <5>4 DEF EndsAt
        <5>6. HeadStops(names, list)' BY <1>1, <1>4, <2>2, <5>1, <5>5 DEF HeadStops
        <5> QED BY <1>6, <2>2, <5>6 DEF HalfWritten
      <4>3. CASE ~(k < 3 + P)
        <5>1. 3 + P \in m + 1..D /\ m < k /\ k \in 2..D1 BY <1>1, <1>5, <2>6, <4>3
        <5>2. disk'[3 + P] = disk[3 + P] BY <2>3, <5>1
        <5>3. NumRecords' = NumRecords BY <2>1, <2>2, <5>2 DEF NumRecords
        <5>4. \A j \in k + 1..D1 : j \in m + 1..D /\ j \in k + 1..D BY <1>1, <1>6, <5>1
        <5>5. \A j \in k + 1..D1 : disk'[j] = Garbled BY <2>3, <4>1, <5>4
        <5>6. EndsAt(k, list)' BY <2>2, <4>1, <4>3, <5>2, <5>3, <5>5 DEF EndsAt
        <5>7. HeadStops(names, list)' BY <1>1, <1>4, <2>2, <5>1, <5>6 DEF HeadStops
        <5> QED BY <1>6, <2>2, <5>7 DEF HalfWritten
      <4> QED BY <4>2, <4>3
    <3> QED BY <1>2, <1>4, <2>1, <3>1, <3>2 DEF HeadStops
  <2> QED BY <1>1, <2>4, <2>5, <2>6
<1> QED BY <1>1, <1>7, <1>8, <1>9

LEMMA WholeShape ==
    ASSUME disk \in Seq(Cell), WholeFile
    PROVE  /\ NumNames \in Nat /\ NumRecords \in Nat /\ Len(disk) = 3 + NumNames + NumRecords
           /\ disk[1] = Version /\ disk[2] = Count(NumNames)
           /\ disk[3 + NumNames] = Count(NumRecords)
           /\ DiskNames \in Seq(Names) /\ Len(DiskNames) = NumNames
           /\ DiskRecords \in Seq(Made) /\ Len(DiskRecords) = NumRecords
           /\ \A i \in 1..NumNames : disk[2 + i].kind = "name" /\ disk[2 + i].value = DiskNames[i]
<1>1. Len(disk) \in Nat /\ 2 \in DOMAIN disk /\ disk[2].kind = "count" BY DEF WholeFile, Acceptable
<1>2. NumNames \in Nat /\ disk[2] = Count(NumNames) BY <1>1, CountRead DEF NumNames
<1>3. 3 + NumNames \in DOMAIN disk BY <1>1, <1>2 DEF WholeFile, Acceptable
<1>4. disk[3 + NumNames].kind = "count" BY DEF WholeFile, Acceptable
<1>5. NumRecords \in Nat /\ disk[3 + NumNames] = Count(NumRecords)
  BY <1>3, <1>4, CountRead DEF NumRecords
<1>6. DOMAIN DiskNames = 1..NumNames /\ DOMAIN DiskRecords = 1..NumRecords
  BY DEF DiskNames, DiskRecords
<1>7. DiskNames \in Seq(Names) /\ Len(DiskNames) = NumNames BY <1>2, <1>6 DEF WholeFile
<1>8. DiskRecords \in Seq(Made) /\ Len(DiskRecords) = NumRecords BY <1>5, <1>6 DEF WholeFile
<1>9. \A i \in 1..NumNames : disk[2 + i].kind = "name" /\ disk[2 + i].value = DiskNames[i]
  BY DEF WholeFile, Acceptable, DiskNames
<1> QED BY <1>2, <1>5, <1>7, <1>8, <1>9 DEF WholeFile, Acceptable

\* Writing on a whole file leaves it whole, with the CRCs it had and with
\* records that were in it or in memory, or it makes it unreadable.
LEMMA FailWhole ==
    ASSUME MemoryTyped, Indexed(records), disk \in Seq(Cell),
           NEW names, NEW list, names = packNames, list = records,
           WholeFile, Grown(names, list), NEW n \in 0..Len(Block) - 1, NEW m, Left(n, m),
           ~(m = Len(Block) /\ Len(records) # 0)
    PROVE  \/ HalfWritten(names, list)'
           \/ /\ WholeFile' /\ Grown(names, list)'
              /\ Paths(DiskRecords') = Paths(DiskRecords)
              /\ Pairs(DiskRecords') \subseteq Pairs(DiskRecords) \cup Pairs(records)
<1> DEFINE P == Len(packNames)
           R == Len(records)
           D == Len(disk)
           p == NumNames
           M == NumRecords
           D1 == Len(disk')
<1>1. /\ p \in Nat /\ M \in Nat /\ D = 3 + p + M /\ disk[1] = Version /\ disk[2] = Count(p)
      /\ disk[3 + p] = Count(M) /\ DiskNames \in Seq(Names) /\ Len(DiskNames) = p
      /\ DiskRecords \in Seq(Made) /\ Len(DiskRecords) = M
      /\ \A i \in 1..p : disk[2 + i].kind = "name" /\ disk[2 + i].value = DiskNames[i]
  BY WholeShape
<1>0. p \in Nat /\ M \in Nat /\ D = 3 + p + M /\ DOMAIN DiskRecords = 1..M BY <1>1
<1>2. /\ P \in Nat /\ R \in Nat /\ D \in Nat /\ n \in Nat /\ n < 3 + P + R /\ n \in 0..Len(Block)
      /\ p <= P /\ M <= R /\ m \in n..n + 1 /\ (R # 0 => m < 3 + P + R) /\ m <= 3 + P + R
  <2>1. Len(Block) = 3 + P + R BY BlockCells
  <2>2. n \in Nat /\ P \in Nat /\ R \in Nat /\ D \in Nat BY <1>1, <2>1 DEF MemoryTyped
  <2>3. m \in n..n + 1 BY <2>2 DEF Left
  <2>4. p <= P /\ M <= R BY DEF Grown
  <2> HIDE DEF P, R, D, p, M
  <2> QED BY <2>1, <2>2, <2>3, <2>4 DEF R
<1>3. Block[1] = Version /\ Block[2] = Count(P) /\ Block[3 + P] = Count(R) BY BlockCells
<1>4. /\ disk' \in Seq(Cell) /\ D1 = (IF m < D THEN D ELSE m)
      /\ \A i \in 1..n : disk'[i] = Block[i]
      /\ m = n \/ (m = n + 1 /\ disk'[m] = Half(Block[m])
                   /\ (m <= D /\ Aligned(n) => disk[m] # Block[m]))
      /\ \A i \in m + 1..D : disk'[i] = IF Aligned(n) THEN disk[i] ELSE Garbled
  BY DEF Left
<1>5. \A i \in 1..p : DiskNames[i] = packNames[i] BY DEF Grown
<1>6. /\ Count(P).kind = "count" /\ Count(P).value = P /\ Count(p).kind = "count"
      /\ Count(p).value = p /\ Count(R).kind = "count" /\ Count(R).value = R
      /\ (Count(P) = Count(p) <=> P = p) /\ (Count(R) = Count(M) <=> R = M)
      /\ Half(Count(R)) = Garbled /\ Half(Count(P)) = Garbled
  <2>1. Half(Count(R)) = Garbled /\ Half(Count(P)) = Garbled BY <1>2, HalfCells
  <2> QED BY <2>1 DEF Count
<1>7. NumNames' = disk'[2].value /\ (p = NumNames' => NumRecords' = disk'[3 + p].value)
  BY DEF NumNames, NumRecords
<1>8. D1 \in Nat /\ 2 <= D1 /\ D1 <= 3 + P + R BY <1>1, <1>2, <1>4
<1>9. ASSUME disk' = disk
      PROVE  /\ WholeFile' /\ Grown(names, list)' /\ Paths(DiskRecords') = Paths(DiskRecords)
             /\ Pairs(DiskRecords') \subseteq Pairs(DiskRecords) \cup Pairs(records)
  <2>1. DiskNames' = DiskNames /\ DiskRecords' = DiskRecords /\ NumNames' = NumNames
        /\ NumRecords' = NumRecords /\ (Acceptable' <=> Acceptable)
    BY <1>9 DEF DiskNames, DiskRecords, NumNames, NumRecords, Acceptable
  <2> QED BY <1>9, <2>1 DEF WholeFile, Grown
<1> HIDE DEF P, R, D, p, M, D1
<1>10. CASE n < 2
  <2>0. Aligned(n) BY <1>10 DEF Aligned
  <2>1. CASE m = n
    <3>1. D1 = D BY <1>0, <1>2, <1>4, <1>10, <2>1
    <3>2. \A i \in 1..n : i = 1 BY <1>2, <1>10
    <3>3. \A i \in 1..D : i \in 1..n \/ i \in m + 1..D BY <1>2, <2>1
    <3>6. \A i \in m + 1..D : disk'[i] = disk[i] BY <1>4, <2>0
    <3>7. \A i \in 1..n : disk'[i] = disk[i] BY <1>1, <1>3, <1>4, <3>2
    <3>4. \A i \in 1..D : disk'[i] = disk[i] BY <3>3, <3>6, <3>7
    <3>5. disk' = disk BY <1>4, <3>1, <3>4, SameFile DEF D, D1
    <3> QED BY <1>9, <3>5
  <2>2. CASE m = n + 1 /\ n = 0
    <3>1. disk[1] # Block[1] BY <1>0, <1>4, <2>0, <2>2
    <3> QED BY <1>1, <1>3, <3>1
  <2>3. CASE m = n + 1 /\ n = 1
    <3>1. disk'[2] = Garbled BY <1>3, <1>4, <1>6, <2>3
    <3>2. disk'[1] = Version
      <4>1. 1 \in 1..n BY <2>3
      <4> QED BY <1>3, <1>4, <4>1
    <3>3. P # p BY <1>0, <1>1, <1>3, <1>4, <2>0, <2>3
    <3>4. 2 <= D1 /\ D1 < 3 + P + R BY <1>0, <1>2, <1>4, <2>3, <3>3
    <3>5. 2 <= D1 /\ D1 <= 3 + P + R /\ D1 # 3 + P + R BY <1>2, <1>8, <3>4
    <3> QED BY <3>1, <3>2, <3>5 DEF HalfWritten, HeadStops, P, R, D1
  <2> QED BY <1>2, <1>10, <2>1, <2>2, <2>3
<1>11. CASE n >= 2 /\ P # p
  <2>1. disk[2] # Block[2] BY <1>1, <1>3, <1>6, <1>11
  <2>2. 2 <= D /\ D <= 3 + P + R /\ D # 3 + P + R BY <1>0, <1>2, <1>11
  <2> QED BY <1>11, <2>1, <2>2, HeadHalf DEF D, P, R
<1>12. CASE n >= 2 /\ P = p
  <2>1. disk'[1] = Version /\ disk'[2] = Count(p) /\ NumNames' = p
    <3>1. 1 \in 1..n /\ 2 \in 1..n BY <1>2, <1>12
    <3> QED BY <1>3, <1>4, <1>6, <1>7, <1>12, <3>1
  <2>0. Aligned(n) BY <1>1, <1>3, <1>12 DEF Aligned
  <2>2. \A i \in m + 1..D : disk'[i] = disk[i] BY <1>4, <2>0
  <2>9. ASSUME NEW i \in 3..2 + p PROVE disk[i] = Block[i]
    <3> DEFINE j == i - 2
    <3>1. j \in 1..p /\ i = 2 + j /\ i \in 1..D BY <1>0
    <3> HIDE DEF j
    <3>2. j \in 1..Len(packNames) /\ packNames[j] \in Names BY <1>12, <3>1 DEF MemoryTyped, P
    <3>3. Block[i] = Name(packNames[j]) BY <3>1, <3>2, BlockCells
    <3>4. disk[i] \in Cell /\ disk[i].kind = "name" /\ disk[i].value = packNames[j]
      BY <1>1, <1>5, <3>1 DEF D
    <3>5. disk[i] = Name(packNames[j]) BY <3>4 DEF Cell, Name, Garbled
    <3> QED BY <3>3, <3>5
  <2>10. \A i \in 1..2 + p : disk[i] = Block[i]
    <3>1. \A i \in 1..2 + p : i = 1 \/ i = 2 \/ i \in 3..2 + p BY <1>0
    <3> QED BY <1>1, <1>3, <1>12, <2>9, <3>1
  <2>5. CASE m < 3 + p
    <3>1. m = n
      <4>1. CASE m = n + 1
        <5>1. m \in 1..2 + p /\ m <= D BY <1>0, <1>2, <2>5, <4>1
        <5> QED BY <1>4, <2>0, <2>10, <4>1, <5>1
      <4> QED BY <1>4, <4>1
    <3>2. D1 = D BY <1>0, <1>2, <1>4, <2>5
    <3>3. \A i \in 1..D : (i \in 1..n /\ i \in 1..2 + p) \/ i \in m + 1..D BY <1>0, <1>2, <2>5, <3>1
    <3>4. \A i \in 1..D : disk'[i] = disk[i] BY <1>4, <2>2, <2>10, <3>3
    <3>5. disk' = disk BY <1>4, <3>2, <3>4, SameFile DEF D, D1
    <3> QED BY <1>9, <3>5
  <2>11. CASE m = 3 + p /\ m = n + 1
    <3>1. disk'[3 + P] = Garbled BY <1>2, <1>3, <1>4, <1>6, <1>12, <2>11
    <3>2. disk[3 + p] # Block[3 + p] BY <1>0, <1>2, <1>4, <2>0, <2>11
    <3>3. R # M BY <1>1, <1>3, <1>12, <3>2
    <3>7. D1 = D BY <1>0, <1>2, <1>4, <2>11
    <3>4. D1 = D /\ 3 + P <= D1 /\ D1 < 3 + P + R BY <1>0, <1>2, <1>12, <3>3, <3>7
    <3>5. 2 <= D1 /\ D1 <= 3 + P + R /\ D1 # 3 + P + R /\ P \in 0..P BY <1>2, <1>8, <3>4
    <3>6. HeadStops(names, list)'
      BY <1>6, <1>12, <2>1, <3>1, <3>4, <3>5 DEF HeadStops, P, D1
    <3> QED BY <2>1, <3>5, <3>6 DEF HalfWritten, P, R, D1
  <2>6. CASE n >= 3 + p
    <3>0. \A i \in 1..p : disk'[2 + i].kind = "name" /\ disk'[2 + i].value = DiskNames[i]
      <4>1. \A i \in 1..p : 2 + i \in 1..n /\ 2 + i \in 1..2 + p BY <1>0, <1>2, <2>6
      <4> QED BY <1>1, <1>4, <2>10, <4>1
    <3>9. DiskNames' = DiskNames
      <4>1. DiskNames' = [i \in 1..p |-> disk'[2 + i].value] BY <2>1 DEF DiskNames
      <4> QED BY <1>1, <3>0, <4>1
    <3>1. disk'[3 + p] = Count(R) /\ NumRecords' = R
      <4>1. 3 + p \in 1..n BY <1>1, <1>2, <2>6
      <4>2. disk'[3 + p] = Count(R) BY <1>3, <1>4, <1>12, <4>1
      <4> QED BY <1>6, <1>7, <2>1, <4>2
    <3>2. CASE R # M
      <4>1. D1 < 3 + p + R BY <1>0, <1>2, <1>4, <1>12, <3>2
      <4>2. PICK k \in 2..D1 : k = D1 BY <1>8
      <4>3. EndsAt(k, list)'
        <5>1. \A j \in k + 1..D1 : disk'[j] = Garbled BY <1>8, <4>2
        <5>2. R \in 0..Len(list) BY <1>2 DEF R
        <5> QED BY <1>6, <2>1, <3>1, <4>1, <4>2, <5>1, <5>2 DEF EndsAt, D1
      <4>4. 2 <= D1 /\ D1 <= 3 + P + R /\ D1 # 3 + P + R /\ P \in 0..P
        BY <1>2, <1>8, <1>12, <4>1
      <4>5. HeadStops(names, list)'
        BY <1>6, <1>12, <2>1, <4>3, <4>4 DEF HeadStops, P, D1
      <4> QED BY <2>1, <4>4, <4>5 DEF HalfWritten, P, R, D1
    <3>3. CASE R = M
      <4>1. D1 = 3 + p + M BY <1>0, <1>2, <1>4, <1>12, <3>3
      <4>2. ASSUME NEW i \in 1..M
            PROVE  /\ disk'[3 + p + i].kind \in {"record", "torn"} /\ disk'[3 + p + i].pack \in 1..p
                   /\ DiskRecords'[i] \in {records[i], DiskRecords[i]}
                   /\ DiskRecords'[i].Crc = DiskRecords[i].Crc /\ DiskRecords'[i].node = <<i, M>>
        <5>1. DiskRecords'[i] =
                 LET cell == disk'[3 + p + i]
                 IN  [Crc |-> cell.Crc, node |-> cell.node, IsCompressed |-> cell.IsCompressed,
                      PackName |-> DiskNames[cell.pack]]
          BY <2>1, <3>9, <3>1, <3>3 DEF DiskRecords
        <5>2. CASE 3 + p + i \in 1..n \/ (m = n + 1 /\ 3 + p + i = m)
          <6>1. i \in DOMAIN records /\ i \in 1..Len(records) BY <3>3 DEF R, MemoryTyped
          <6>0. /\ Block[3 + p + i] = Entry(records[i], PlaceOf(records[i]))
                /\ PlaceOf(records[i]) \in 1..P /\ packNames[PlaceOf(records[i])] = records[i].PackName
                /\ records[i] \in Made
            BY <1>12, <6>1, BlockCells, Placed DEF P, MemoryTyped
          <6>2. PICK r \in Made, place \in 1..P :
                   /\ r = records[i] /\ place = PlaceOf(r) /\ packNames[place] = r.PackName
                   /\ disk'[3 + p + i] \in {Entry(r, place), Half(Entry(r, place))}
            BY <1>4, <5>2, <6>0
          <6>3. DiskNames[place] = r.PackName BY <1>5, <1>12, <6>2
          <6>4. /\ disk'[3 + p + i].kind \in {"record", "torn"} /\ disk'[3 + p + i].pack = place
                /\ disk'[3 + p + i].Crc = r.Crc /\ disk'[3 + p + i].node = r.node
                /\ disk'[3 + p + i].IsCompressed = r.IsCompressed
            <7>1. place \in Nat BY <1>2, <6>2
            <7> QED BY <6>2, <7>1, Cells, HalfCells
          <6>5. DiskRecords'[i] = records[i] BY <5>1, <6>2, <6>3, <6>4 DEF Made
          <6>6. records[i].Crc = DiskRecords[i].Crc BY <3>3 DEF Grown, R, M
          <6>7. records[i].node = <<i, M>> BY <3>3, <6>1 DEF Indexed, R
          <6> QED BY <1>12, <6>2, <6>4, <6>5, <6>6, <6>7
        <5>3. CASE 3 + p + i \in m + 1..D
          <6>1. disk'[3 + p + i] = disk[3 + p + i] BY <2>2, <5>3
          <6>2. disk[3 + p + i].kind \in {"record", "torn"} /\ disk[3 + p + i].pack \in 1..p
            BY DEF WholeFile, Acceptable, p, M
          <6>3. DiskRecords'[i] = DiskRecords[i] BY <5>1, <6>1 DEF DiskRecords, p, M
          <6>4. DiskRecords[i].node = <<i, M>> BY <1>1 DEF WholeFile, Indexed, M
          <6> QED BY <6>1, <6>2, <6>3, <6>4
        <5>4. 3 + p + i \in 1..n \/ (m = n + 1 /\ 3 + p + i = m) \/ 3 + p + i \in m + 1..D
          BY <1>0, <1>2
        <5> QED BY <5>2, <5>3, <5>4
      <4>3. DOMAIN DiskRecords' = 1..M BY <3>1, <3>3 DEF DiskRecords
      <4>4. \A i \in 1..M : DiskRecords'[i] \in Made /\ records[i] \in Made
        <5> TAKE i \in 1..M
        <5>1. i \in DOMAIN DiskRecords /\ DiskRecords \in Seq(Made) BY <1>0, <1>1
        <5>2. i \in 1..Len(records) /\ records \in Seq(Made) BY <3>3 DEF R, MemoryTyped
        <5>3. DiskRecords[i] \in Made BY <5>1
        <5>4. records[i] \in Made BY <5>2
        <5> QED BY <4>2, <5>3, <5>4
      <4>5. DiskRecords' \in Seq(Made) /\ Len(DiskRecords') = M
        <5>1. DiskRecords' = [i \in 1..M |-> DiskRecords'[i]] BY <3>1, <3>3, <4>3 DEF DiskRecords
        <5>2. \A i \in 1..M : DiskRecords'[i] \in Made BY <4>4
        <5> QED BY <1>0, <5>1, <5>2
      <4>6. Acceptable'
        <5>1. Len(disk') >= 2 /\ Len(disk') >= 3 + p /\ Len(disk') >= 3 + p + M
          BY <1>0, <4>1 DEF D1
        <5>2. disk'[2].kind = "count" /\ disk'[3 + p].kind = "count" /\ NumNames' = p /\ NumRecords' = M
          BY <1>6, <2>1, <3>1, <3>3
        <5>3. \A i \in 1..M : /\ disk'[3 + p + i].kind \in {"record", "torn"}
                              /\ disk'[3 + p + i].pack \in 1..p
          BY <4>2
        <5> QED BY <2>1, <3>0, <5>1, <5>2, <5>3 DEF Acceptable
      <4>7. Ascending(DiskRecords')
        <5>1. Ascending(DiskRecords) BY DEF WholeFile
        <5>2. \A i \in 1..M : DiskRecords'[i].Crc = DiskRecords[i].Crc BY <4>2
        <5> QED BY <1>0, <4>3, <5>1, <5>2 DEF Ascending
      <4>8. Indexed(DiskRecords') BY <4>2, <4>3, <4>5 DEF Indexed
      <4>9. WholeFile'
        BY <1>1, <2>1, <3>9, <3>1, <3>3, <4>1, <4>5, <4>6, <4>7, <4>8 DEF WholeFile, D1
      <4>11. Paths(DiskRecords') = Paths(DiskRecords) BY <1>0, <4>2, <4>3 DEF Paths
      <4>10. Grown(names, list)'
        <5>1. \A i \in 1..M : /\ list[i].Crc <= DiskRecords'[i].Crc
                              /\ list[i].Crc = DiskRecords'[i].Crc
          BY <3>3, <4>2 DEF Grown, R, M
        <5>2. p <= Len(names) /\ M <= Len(list) BY <1>2 DEF P, R
        <5>3. Paths(DiskRecords') \subseteq Paths(list) BY <4>11 DEF Grown
        <5> QED BY <1>5, <2>1, <3>9, <3>1, <3>3, <5>1, <5>2, <5>3 DEF Grown
      <4>12. Pairs(DiskRecords') \subseteq Pairs(DiskRecords) \cup Pairs(records)
        <5>1. ASSUME NEW i \in 1..M
              PROVE  <<DiskRecords'[i].Crc, ValueOf(DiskRecords'[i])>>
                        \in Pairs(DiskRecords) \cup Pairs(records)
          <6>1. i \in DOMAIN DiskRecords /\ i \in DOMAIN records BY <1>1, <3>3 DEF R, MemoryTyped
          <6> QED BY <4>2, <6>1 DEF Pairs
        <5> QED BY <4>3, <5>1 DEF Pairs
      <4> QED BY <4>9, <4>10, <4>11, <4>12
    <3> QED BY <3>2, <3>3
  <2> QED BY <1>0, <1>2, <2>5, <2>6, <2>11
<1> QED BY <1>1, <1>2, <1>10, <1>11, <1>12

-----------------------------------------------------------------------------
(* The invariant, action by action.                                        *)

LEMMA ForeignUnreadable == disk \in ForeignFiles => ~Acceptable
BY ForeignAssumption DEF Acceptable

LEMMA AcceptableTyped == Typed /\ Acceptable => disk \in Seq(Cell)
BY ForeignUnreadable DEF Typed

LEMMA DiskKept ==
    ASSUME disk' = disk
    PROVE  /\ DiskNames' = DiskNames /\ DiskRecords' = DiskRecords /\ NumNames' = NumNames
           /\ NumRecords' = NumRecords /\ (Acceptable' <=> Acceptable) /\ (WholeFile' <=> WholeFile)
           /\ (Readable' <=> Readable) /\ (Untorn' <=> Untorn)
<1>1. DiskNames' = DiskNames /\ DiskRecords' = DiskRecords /\ NumNames' = NumNames
      /\ NumRecords' = NumRecords /\ (Acceptable' <=> Acceptable)
  BY DEF DiskNames, DiskRecords, NumNames, NumRecords, Acceptable
<1>2. Readable' <=> Readable BY <1>1 DEF Readable, IsTorn
<1>3. Untorn' <=> Untorn BY DEF Untorn
<1> QED BY <1>1, <1>2, <1>3 DEF WholeFile

\* A file is read as it was written if no record is written in part.
LEMMA ReadableMeans ==
    ASSUME disk \in Seq(Cell), WholeFile
    PROVE  Readable <=> Untorn
<1>1. /\ NumNames \in Nat /\ NumRecords \in Nat /\ Len(disk) = 3 + NumNames + NumRecords
      /\ disk[1] = Version /\ disk[2] = Count(NumNames)
      /\ disk[3 + NumNames] = Count(NumRecords)
      /\ \A i \in 1..NumNames : disk[2 + i].kind = "name"
  BY WholeShape
<1>2. ASSUME Untorn PROVE Readable
  <2>1. \A i \in 1..NumRecords : 3 + NumNames + i \in DOMAIN disk BY <1>1
  <2> QED BY <1>2, <2>1 DEF Untorn, WholeFile, Readable, IsTorn
<1>3. ASSUME Readable, NEW j \in DOMAIN disk PROVE disk[j].kind # "torn"
  <2>0. j \in Nat /\ 1 <= j /\ j <= 3 + NumNames + NumRecords BY <1>1
  <2>1. CASE j = 1 BY <1>1, <2>1 DEF Version
  <2>2. CASE j = 2 BY <1>1, <2>2 DEF Count
  <2>3. CASE j = 3 + NumNames BY <1>1, <2>3 DEF Count
  <2>4. CASE j \in 3..2 + NumNames
    <3>1. j - 2 \in 1..NumNames /\ 2 + (j - 2) = j BY <1>1, <2>4
    <3> QED BY <1>1, <3>1
  <2>5. CASE j \in 4 + NumNames..3 + NumNames + NumRecords
    <3>1. PICK i \in 1..NumRecords : 3 + NumNames + i = j
      <4>1. j - (3 + NumNames) \in 1..NumRecords /\ 3 + NumNames + (j - (3 + NumNames)) = j
        BY <1>1, <2>5
      <4> QED BY <4>1
    <3> QED BY <1>3, <3>1 DEF Readable, IsTorn
  <2> QED BY <1>1, <2>0, <2>1, <2>2, <2>3, <2>4, <2>5
<1> QED BY <1>2, <1>3 DEF Untorn

LEMMA TornKept ==
    ASSUME WhenTorn, disk' = disk, begun' = begun, health' = health
    PROVE  WhenTorn'
BY DiskKept DEF WhenTorn

LEMMA NoFlushTyped == NoFlush \in [paths : SUBSET Crcs, values : SUBSET (Crcs \X Value)]
BY DEF NoFlush

LEMMA PairsTyped ==
    ASSUME NEW list \in Seq(Made)
    PROVE  Paths(list) \subseteq Crcs /\ Pairs(list) \subseteq Crcs \X Value
BY MadeFields DEF Paths, Pairs

LEMMA InitHolds == Init => CatalogInvariant
<1> SUFFICES ASSUME Init PROVE CatalogInvariant OBVIOUS
<1>1. ~Acceptable BY ForeignUnreadable DEF Init
<1>2. << >> \in Seq(Names) /\ << >> \in Seq(Made) /\ << >> \in Seq(Keys) OBVIOUS
<1>3. DOMAIN stored = {} BY DEF Init, Nothing
<1> QED BY <1>1, <1>2, <1>3, NoFlushTyped
        DEF Init, CatalogInvariant, Typed, WhenStoring, WhenOpen, InMemory, OnDisk, WhenTorn

LEMMA EmptyCells ==
    /\ Empty \in Seq(Cell) /\ Len(Empty) = 3
    /\ Empty[1] = Version /\ Empty[2] = Count(0) /\ Empty[3] = Count(0)
<1>1. Version \in Cell /\ Count(0) \in Cell BY Cells
<1> QED BY <1>1 DEF Empty

LEMMA CreateKeeps == CatalogInvariant /\ Create => CatalogInvariant'
<1> SUFFICES ASSUME CatalogInvariant, Create PROVE CatalogInvariant' OBVIOUS
<1>1. /\ packNames' = << >> /\ records' = << >> /\ order' = << >> /\ added' = << >>
      /\ given' = << >> /\ ~dirty' /\ pc' = "open" /\ disk' = Empty /\ stored' = stored
      /\ health' = health /\ health # "torn" /\ dirty' = dirty
  BY DEF CatalogInvariant, OnDisk, WhenTorn, Create, catalog, locals, past
<1>2. DOMAIN stored = {}
  <2>1. ~Acceptable BY DEF Create, Acceptable
  <2> QED BY <1>1, <2>1 DEF CatalogInvariant, OnDisk, Create
<1>3. Count(0).kind = "count" /\ Count(0).value = 0 BY DEF Count
<1>4. NumNames' = 0 /\ NumRecords' = 0 BY <1>1, <1>3, EmptyCells DEF NumNames, NumRecords
<1>5. DiskNames' = << >> /\ DiskRecords' = << >> BY <1>4 DEF DiskNames, DiskRecords
<1>6. Acceptable' BY <1>1, <1>3, <1>4, EmptyCells DEF Acceptable
<1>7. << >> \in Seq(Names) /\ << >> \in Seq(Made) /\ DOMAIN << >> = {} /\ Len(<< >>) = 0 OBVIOUS
<1>8. WholeFile'
  BY <1>1, <1>4, <1>5, <1>6, <1>7, EmptyCells DEF WholeFile, Distinct, Ascending, Indexed
<1>9. Grown(packNames, records)' BY <1>1, <1>4, <1>5, <1>7 DEF Grown, Paths
<1>14. Untorn' BY <1>1, EmptyCells DEF Untorn, Version, Count
<1>10. Serves(records', stored')
  <2>1. Paths(records') = {} BY <1>1, <1>7 DEF Paths
  <2> QED BY <1>1, <1>2, <2>1 DEF Serves
<1>11. Typed' BY <1>1, EmptyCells DEF CatalogInvariant, Typed, Create, catalog, locals, past
<1>12. InMemory'
  BY <1>1, <1>5, <1>7, <1>8, <1>9, <1>14, EmptyCells DEF InMemory, Distinct, NamedIn, Ascending
<1>13. WhenOpen' BY <1>1, <1>7, <1>10 DEF WhenOpen, Indexed
<1> QED BY <1>1, <1>11, <1>12, <1>13 DEF CatalogInvariant, WhenStoring, OnDisk, WhenTorn

LEMMA CreateFailsKeeps == CatalogInvariant /\ CreateFails => CatalogInvariant'
<1> SUFFICES ASSUME CatalogInvariant, CreateFails PROVE CatalogInvariant' OBVIOUS
<1>1. PICK n \in 0..Len(Empty) - 1, part \in {<< >>, <<Garbled>>} :
         disk' = SubSeq(Empty, 1, n) \o part
  BY DEF CreateFails
<1>2. n \in 0..2 BY EmptyCells
<1>8. PICK head : head = SubSeq(Empty, 1, n) OBVIOUS
<1>6. head \in Seq(Cell) /\ Len(head) = n /\ \A i \in 1..n : head[i] = Empty[i]
  BY <1>2, <1>8, EmptyCells
<1>7. part \in Seq(Cell) /\ (Len(part) = 0 \/ (Len(part) = 1 /\ part[1] = Garbled))
  <2>1. CASE part = << >> BY <2>1
  <2>2. CASE part = <<Garbled>>
    <3>1. Garbled \in Cell BY Cells
    <3> QED BY <2>2, <3>1
  <2> QED BY <2>1, <2>2
<1>3. /\ disk' \in Seq(Cell) /\ Len(disk') = n + Len(part)
      /\ \A i \in 1..n : disk'[i] = Empty[i]
      /\ \A i \in 1..Len(part) : disk'[n + i] = Garbled
  <2>1. /\ disk' \in Seq(Cell) /\ Len(disk') = n + Len(part)
        /\ \A i \in 1..n + Len(part) :
              disk'[i] = IF i <= n THEN head[i] ELSE part[i - n]
    BY <1>1, <1>2, <1>6, <1>7, <1>8
  <2>2. \A i \in 1..n : i \in 1..n + Len(part) /\ i <= n BY <1>2, <1>7
  <2>3. \A i \in 1..Len(part) : n + i \in 1..n + Len(part) /\ ~(n + i <= n) /\ (n + i) - n = 1 /\ i = 1
    <3>1. Len(part) = 0 \/ Len(part) = 1 BY <1>7
    <3>2. n \in Nat BY <1>2
    <3> TAKE i \in 1..Len(part)
    <3>4. PICK l \in {0, 1} : l = Len(part) BY <3>1
    <3>5. i \in 1..l BY <3>4
    <3>3. Len(part) = 1 /\ i = 1 BY <3>4, <3>5
    <3> QED BY <3>2, <3>3
  <2> QED BY <1>6, <1>7, <2>1, <2>2, <2>3
<1>4. ~Acceptable'
  <2> SUFFICES ASSUME Acceptable' PROVE FALSE OBVIOUS
  <2>1. Len(disk') >= 2 /\ disk'[2].kind = "count" BY DEF Acceptable
  <2>2. Garbled.kind # "count" BY DEF Garbled
  <2>3. n = 2
    <3>1. n < 2 => Len(part) = 1 /\ n + Len(part) = 2 /\ n + 1 = 2 BY <1>2, <1>3, <1>7, <2>1
    <3>2. n < 2 => disk'[2] = Garbled BY <1>3, <3>1
    <3> QED BY <1>2, <2>1, <2>2, <3>2
  <2>4. disk'[2] = Count(0) BY <1>3, <2>3, EmptyCells
  <2>5. NumNames' = 0 BY <2>4 DEF NumNames, Count
  <2>6. Len(disk') >= 3 /\ disk'[3].kind = "count" BY <2>5 DEF Acceptable
  <2>7. Len(part) = 1 /\ disk'[3] = Garbled BY <1>3, <1>7, <2>3, <2>6
  <2> QED BY <2>2, <2>6, <2>7
<1>5. pc = "closed" /\ health # "torn" /\ DOMAIN stored = {}
  <2>1. ~Acceptable BY DEF CreateFails, Acceptable
  <2> QED BY <2>1 DEF CatalogInvariant, OnDisk, WhenTorn, CreateFails
<1> QED BY <1>3, <1>4, <1>5
        DEF CatalogInvariant, Typed, WhenStoring, WhenOpen, InMemory, OnDisk, WhenTorn,
            CreateFails, catalog, locals, past

\* Names that are appended, and records that take the place of one with a
\* larger CRC, leave the list grown out of the file.
LEMMA GrowthKept ==
    ASSUME NEW names \in Seq(Names), NEW list \in Seq(Made), NEW names2 \in Seq(Names),
           NEW list2 \in Seq(Made),
           Len(names) <= Len(names2), \A i \in 1..Len(names) : names2[i] = names[i],
           Len(list) <= Len(list2), \A i \in 1..Len(list) : list2[i].Crc <= list[i].Crc,
           Len(list) = Len(list2) => \A i \in 1..Len(list) : list2[i].Crc = list[i].Crc,
           Paths(list) \subseteq Paths(list2)
    PROVE  /\ disk \in Seq(Cell) /\ WholeFile /\ Grown(names, list) => Grown(names2, list2)
           /\ HalfWritten(names, list) => HalfWritten(names2, list2)
<1>1. ASSUME disk \in Seq(Cell), WholeFile, Grown(names, list) PROVE Grown(names2, list2)
  <2>1. NumNames \in Nat /\ NumRecords \in Nat /\ DiskRecords \in Seq(Made) /\ Len(DiskRecords) = NumRecords
    BY <1>1, WholeShape
  <2>2. /\ NumNames <= Len(names) /\ NumRecords <= Len(list)
        /\ \A i \in 1..NumNames : DiskNames[i] = names[i]
        /\ \A i \in 1..NumRecords :
              /\ list[i].Crc <= DiskRecords[i].Crc
              /\ NumRecords = Len(list) => list[i].Crc = DiskRecords[i].Crc
        /\ Paths(DiskRecords) \subseteq Paths(list)
    BY <1>1 DEF Grown
  <2>3. \A i \in 1..NumRecords :
           list[i].Crc \in Nat /\ list2[i].Crc \in Nat /\ DiskRecords[i].Crc \in Nat
    <3> TAKE i \in 1..NumRecords
    <3>1. i \in DOMAIN list /\ i \in DOMAIN list2 /\ i \in DOMAIN DiskRecords BY <2>1, <2>2
    <3> QED BY <2>1, <3>1, MadeFields
  <2>4. ASSUME NEW i \in 1..NumRecords
        PROVE  /\ list2[i].Crc <= DiskRecords[i].Crc
               /\ NumRecords = Len(list2) => list2[i].Crc = DiskRecords[i].Crc
    <3>1. i \in 1..Len(list) BY <2>1, <2>2
    <3>2. list2[i].Crc <= list[i].Crc /\ list[i].Crc <= DiskRecords[i].Crc BY <2>2, <3>1
    <3>3. NumRecords = Len(list2) => NumRecords = Len(list) /\ Len(list) = Len(list2) BY <2>1, <2>2
    <3> QED BY <2>2, <2>3, <3>1, <3>2, <3>3
  <2>5. NumNames <= Len(names2) /\ NumRecords <= Len(list2) BY <2>1, <2>2
  <2>6. \A i \in 1..NumNames : i \in 1..Len(names) BY <2>1, <2>2
  <2> QED BY <2>2, <2>4, <2>5, <2>6 DEF Grown
<1>2. ASSUME HalfWritten(names, list) PROVE HalfWritten(names2, list2)
  <2>1. NumRecords \in 0..Len(list) => NumRecords \in 0..Len(list2) OBVIOUS
  <2>2. NumNames \in 0..Len(names) => NumNames \in 0..Len(names2) OBVIOUS
  <2>3. \A k \in 2..Len(disk) : EndsAt(k, list) => EndsAt(k, list2) BY <2>1 DEF EndsAt
  <2>4. HeadStops(names2, list2) BY <1>2, <2>2, <2>3 DEF HalfWritten, HeadStops
  <2>5. 2 <= Len(disk) /\ Len(disk) <= 3 + Len(names2) + Len(list2) /\ disk[1] = Version
    <3>1. Len(disk) \in Int /\ 2 <= Len(disk) /\ Len(disk) <= 3 + Len(names) + Len(list)
      BY <1>2 DEF HalfWritten
    <3> QED BY <1>2, <3>1 DEF HalfWritten
  <2>6. Len(list2) # 0 => Len(disk) # 3 + Len(names2) + Len(list2)
    BY <1>2 DEF HalfWritten
  <2> QED BY <2>4, <2>5, <2>6 DEF HalfWritten
<1> QED BY <1>1, <1>2

\* A catalog is opened: what was read is what is in memory.
LEMMA OpenKeeps == CatalogInvariant /\ Open => CatalogInvariant'
<1> SUFFICES ASSUME CatalogInvariant, Open PROVE CatalogInvariant' OBVIOUS
<1>1. /\ pc = "closed" /\ Acceptable /\ Readable /\ pc' = "open" /\ disk' = disk /\ ~dirty /\ dirty' = dirty
      /\ dirty \in BOOLEAN
      /\ packNames' = DiskNames /\ records' = DiskRecords
      /\ order' = << >> /\ added' = << >> /\ given' = << >>
      /\ health' # "torn" /\ health' \in {"whole", "torn", "lost"} /\ begun' = NoFlush
  BY DEF CatalogInvariant, OnDisk, Open, locals, Typed, Readable
<1>2. disk \in Seq(Cell) /\ WholeFile BY <1>1, AcceptableTyped DEF CatalogInvariant, OnDisk
<1>3. /\ NumNames \in Nat /\ NumRecords \in Nat /\ DiskNames \in Seq(Names) /\ Len(DiskNames) = NumNames
      /\ DiskRecords \in Seq(Made) /\ Len(DiskRecords) = NumRecords
  BY <1>2, WholeShape
<1>4. Ascending(DiskRecords) /\ Indexed(DiskRecords) /\ Distinct(DiskNames) BY <1>2 DEF WholeFile
<1>5. Serves(DiskRecords, stored') /\ \A c \in DOMAIN stored' : c \in Crcs /\ stored'[c] \subseteq Value
  <2>1. CASE health = "torn"
    <3>1. stored' = Contents(DiskRecords) BY <2>1 DEF Open
    <3>2. \A c \in DOMAIN Contents(DiskRecords) :
             c \in Crcs /\ Contents(DiskRecords)[c] \subseteq Value
      <4>1. ASSUME NEW c \in Paths(DiskRecords)
            PROVE  c \in Crcs /\ Contents(DiskRecords)[c] \subseteq Value
        <5>1. c \in Crcs BY <1>3, MadeFields DEF Paths
        <5>2. \A i \in Found(DiskRecords, c) : ValueOf(DiskRecords[i]) \in Value
          BY <1>3, MadeFields DEF Found
        <5>3. Contents(DiskRecords)[c] = {ValueOf(DiskRecords[i]) : i \in Found(DiskRecords, c)}
          BY DEF Contents
        <5> QED BY <5>1, <5>2, <5>3
      <4>2. DOMAIN Contents(DiskRecords) = Paths(DiskRecords) BY DEF Contents
      <4> QED BY <4>1, <4>2
    <3> QED BY <1>3, <1>4, <3>1, <3>2, ServesItself
  <2>2. CASE health # "torn"
    <3>1. stored' = stored BY <2>2 DEF Open
    <3> QED BY <1>1, <2>2, <3>1 DEF CatalogInvariant, OnDisk, Typed
  <2> QED BY <2>1, <2>2
<1>6. NamedIn(DiskRecords, DiskNames)
  <2> SUFFICES ASSUME NEW i \in 1..NumRecords
               PROVE  \E k \in DOMAIN DiskNames : DiskNames[k] = DiskRecords[i].PackName
    BY <1>3 DEF NamedIn
  <2>0. DOMAIN DiskNames = 1..NumNames BY DEF DiskNames
  <2>1. disk[3 + NumNames + i].pack \in DOMAIN DiskNames BY <1>1, <2>0 DEF Acceptable
  <2>2. DiskRecords[i].PackName = DiskNames[disk[3 + NumNames + i].pack] BY DEF DiskRecords
  <2> QED BY <2>1, <2>2
<1>7. /\ DiskNames' = DiskNames /\ DiskRecords' = DiskRecords /\ NumNames' = NumNames
      /\ NumRecords' = NumRecords /\ WholeFile' /\ Untorn'
  BY <1>1, <1>2, DiskKept, ReadableMeans
<1>8. Grown(packNames, records)'
  <2>1. \A i \in 1..NumRecords : DiskRecords[i].Crc \in Nat
    <3> TAKE i \in 1..NumRecords
    <3>1. i \in DOMAIN DiskRecords BY <1>3
    <3> QED BY <1>3, <3>1, MadeFields
  <2> QED BY <1>1, <1>3, <1>7, <2>1 DEF Grown
<1>9. InMemory'
  <2>1. DOMAIN << >> = {} OBVIOUS
  <2> QED BY <1>1, <1>2, <1>4, <1>6, <1>7, <1>8, <2>1 DEF InMemory, NamedIn
<1>10. Typed'
  <2>1. << >> \in Seq(Made) /\ << >> \in Seq(Keys) OBVIOUS
  <2> QED BY <1>1, <1>2, <1>3, <1>5, <2>1, NoFlushTyped DEF Typed
<1>11. WhenOpen' BY <1>1, <1>4, <1>5 DEF WhenOpen
<1> QED BY <1>1, <1>9, <1>10, <1>11 DEF CatalogInvariant, WhenStoring, OnDisk, WhenTorn

LEMMA OpenGarbledKeeps == CatalogInvariant /\ OpenGarbled => CatalogInvariant'
<1> SUFFICES ASSUME CatalogInvariant, OpenGarbled PROVE CatalogInvariant' OBVIOUS
<1>1. /\ pc = "closed" /\ ~Readable /\ pc' = "garbled" /\ disk' = disk /\ dirty' = dirty
      /\ packNames' = packNames /\ records' = records /\ order' = order /\ added' = added
      /\ given' = given /\ stored' = stored /\ begun' = begun /\ health' = health
  BY DEF OpenGarbled, catalog, locals, past
<1>2. /\ ~Readable' /\ (Acceptable' <=> Acceptable) /\ (WholeFile' <=> WholeFile)
      /\ (Untorn' <=> Untorn) /\ DiskRecords' = DiskRecords
  BY <1>1, DiskKept
<1>3. WhenTorn' BY <1>1, TornKept DEF CatalogInvariant
<1> QED BY <1>1, <1>2, <1>3
        DEF CatalogInvariant, Typed, WhenStoring, WhenOpen, InMemory, OnDisk

LEMMA AbandonKeeps == CatalogInvariant /\ Abandon => CatalogInvariant'
<1> SUFFICES ASSUME CatalogInvariant, Abandon PROVE CatalogInvariant' OBVIOUS
<1>1. /\ pc = "garbled" /\ pc' = "closed" /\ disk' = disk /\ dirty' = FALSE
      /\ packNames' = << >> /\ records' = << >> /\ order' = << >> /\ added' = << >>
      /\ given' = << >> /\ stored' = stored /\ begun' = begun /\ health' = health
  BY DEF Abandon, Closes, Forget, past, CatalogInvariant, OnDisk
<1>2. /\ (Acceptable' <=> Acceptable) /\ (WholeFile' <=> WholeFile)
      /\ (Untorn' <=> Untorn) /\ DiskRecords' = DiskRecords
  BY <1>1, DiskKept
<1>3. WhenTorn' BY <1>1, TornKept DEF CatalogInvariant
<1>4. << >> \in Seq(Names) /\ << >> \in Seq(Made) /\ << >> \in Seq(Keys) OBVIOUS
<1> QED BY <1>1, <1>2, <1>3, <1>4
        DEF CatalogInvariant, Typed, WhenStoring, WhenOpen, InMemory, OnDisk

\* A record at the end of a list.
LEMMA Appended ==
    ASSUME NEW list \in Seq(Made), NEW r \in Made
    PROVE  /\ Append(list, r) \in Seq(Made) /\ Len(Append(list, r)) = Len(list) + 1
           /\ \A i \in DOMAIN list : i \in DOMAIN Append(list, r) /\ Append(list, r)[i] = list[i]
           /\ Len(list) + 1 \in DOMAIN Append(list, r) /\ Append(list, r)[Len(list) + 1] = r
           /\ \A i \in DOMAIN Append(list, r) : i \in DOMAIN list \/ i = Len(list) + 1
           /\ Paths(Append(list, r)) = Paths(list) \cup {r.Crc}
           /\ Pairs(Append(list, r)) = Pairs(list) \cup {<<r.Crc, ValueOf(r)>>}
<1>1. /\ Append(list, r) \in Seq(Made) /\ Len(Append(list, r)) = Len(list) + 1
      /\ \A i \in DOMAIN list : i \in DOMAIN Append(list, r) /\ Append(list, r)[i] = list[i]
      /\ Len(list) + 1 \in DOMAIN Append(list, r) /\ Append(list, r)[Len(list) + 1] = r
      /\ \A i \in DOMAIN Append(list, r) : i \in DOMAIN list \/ i = Len(list) + 1
  OBVIOUS
<1> DEFINE new == Append(list, r)
<1> HIDE DEF new
<1>2. Paths(new) = Paths(list) \cup {r.Crc} BY <1>1 DEF Paths, new
<1>3. Pairs(new) = Pairs(list) \cup {<<r.Crc, ValueOf(r)>>} BY <1>1 DEF Pairs, new
<1> QED BY <1>1, <1>2, <1>3 DEF new

LEMMA BeginStoreKeeps == CatalogInvariant /\ BeginStore => CatalogInvariant'
<1> SUFFICES ASSUME CatalogInvariant, BeginStore PROVE CatalogInvariant' OBVIOUS
<1>1. /\ pc = "open" /\ pc' = "store" /\ disk' = disk /\ dirty' = TRUE
      /\ packNames' = packNames /\ records' = records /\ order' = order /\ added' = added
      /\ given' = given /\ stored' = stored /\ begun' = begun /\ health' = health
      /\ added = << >> /\ given = << >>
  BY DEF BeginStore, locals, past, CatalogInvariant, WhenOpen
<1>2. DiskNames' = DiskNames /\ DiskRecords' = DiskRecords /\ NumNames' = NumNames
      /\ NumRecords' = NumRecords /\ (WholeFile' <=> WholeFile) /\ (Untorn' <=> Untorn)
  BY <1>1, DiskKept
<1>3. WhenTorn' BY <1>1, TornKept DEF CatalogInvariant
<1>4. Grown(packNames, records) => Grown(packNames, records)' BY <1>1, <1>2 DEF Grown
<1>5. HalfWritten(packNames, records) => HalfWritten(packNames, records)'
  BY <1>1, <1>2 DEF HalfWritten, HeadStops, EndsAt
<1>6. Storing'
  <2>1. Paths(<< >>) = {} BY DEF Paths
  <2>2. Paths(records) = DOMAIN stored
        /\ \A c \in DOMAIN stored : Settled(records, c) =>
              \A i \in Found(records, c) : ValueOf(records[i]) \in stored[c]
    BY <1>1, ServesMeans DEF CatalogInvariant, WhenOpen
  <2>3. DOMAIN << >> = {} OBVIOUS
  <2> QED BY <1>1, <2>1, <2>2, <2>3 DEF Storing
<1>7. InMemory'
  BY <1>1, <1>2, <1>4, <1>5 DEF CatalogInvariant, InMemory
<1>8. Typed' BY <1>1 DEF CatalogInvariant, Typed
<1> QED BY <1>1, <1>3, <1>6, <1>7, <1>8 DEF CatalogInvariant, WhenStoring, WhenOpen, OnDisk

LEMMA StoreNameKeeps ==
    ASSUME CatalogInvariant, NEW key \in Keys, StoreName(key)
    PROVE  CatalogInvariant'
<1>1. /\ pc = "store" /\ pc' = "store" /\ disk' = disk /\ dirty' = dirty
      /\ order' = Append(order, key)
      /\ records' = records /\ added' = added
      /\ given' = given /\ stored' = stored /\ begun' = begun /\ health' = health
      /\ packNames' = IF Contains(packNames, Cleaned[key]) THEN packNames
                      ELSE Append(packNames, Cleaned[key])
  BY DEF StoreName, past
<1>2. DiskNames' = DiskNames /\ DiskRecords' = DiskRecords /\ NumNames' = NumNames
      /\ NumRecords' = NumRecords /\ (WholeFile' <=> WholeFile) /\ (Untorn' <=> Untorn)
  BY <1>1, DiskKept
<1>3. WhenTorn' BY <1>1, TornKept DEF CatalogInvariant
<1>4. packNames \in Seq(Names) /\ records \in Seq(Made) /\ added \in Seq(Made) /\ order \in Seq(Keys)
      /\ disk \in Seq(Cell) /\ Distinct(packNames) /\ dirty
  BY <1>1 DEF CatalogInvariant, Typed, InMemory, WhenStoring
<1>5. Cleaned[key] \in Names BY DEF Names
<1>6. /\ packNames' \in Seq(Names) /\ Len(packNames) <= Len(packNames')
      /\ \A i \in 1..Len(packNames) : i \in DOMAIN packNames' /\ packNames'[i] = packNames[i]
      /\ \E i \in DOMAIN packNames' : packNames'[i] = Cleaned[key]
      /\ Distinct(packNames')
  <2>1. CASE Contains(packNames, Cleaned[key]) BY <1>1, <1>4, <2>1 DEF Contains
  <2>2. CASE ~Contains(packNames, Cleaned[key])
    <3>1. packNames' = Append(packNames, Cleaned[key]) BY <1>1, <2>2
    <3>2. /\ packNames' \in Seq(Names) /\ Len(packNames') = Len(packNames) + 1
          /\ \A i \in 1..Len(packNames) : i \in DOMAIN packNames' /\ packNames'[i] = packNames[i]
          /\ Len(packNames) + 1 \in DOMAIN packNames'
          /\ packNames'[Len(packNames) + 1] = Cleaned[key]
          /\ \A i \in DOMAIN packNames' : i \in 1..Len(packNames) \/ i = Len(packNames) + 1
      BY <1>4, <1>5, <3>1
    <3>3. \A i \in 1..Len(packNames) : packNames[i] # Cleaned[key] BY <1>4, <2>2 DEF Contains
    <3>4. Distinct(packNames')
      <4>1. \A i, j \in 1..Len(packNames) : i # j => packNames[i] # packNames[j]
        BY <1>4 DEF Distinct
      <4> QED BY <3>2, <3>3, <4>1 DEF Distinct
    <3>5. Len(packNames) <= Len(packNames') BY <1>4, <3>2
    <3> QED BY <3>2, <3>4, <3>5
  <2> QED BY <2>1, <2>2
<1>7. order' \in Seq(Keys) /\ \A i \in DOMAIN order' : Contains(packNames', Cleaned[order'[i]])
  <2>1. /\ order' \in Seq(Keys) /\ order'[Len(order) + 1] = key
        /\ \A i \in DOMAIN order : order'[i] = order[i]
        /\ \A i \in DOMAIN order' : i \in DOMAIN order \/ i = Len(order) + 1
    BY <1>1, <1>4
  <2>2. \A i \in DOMAIN order : Contains(packNames, Cleaned[order[i]])
    BY <1>1 DEF CatalogInvariant, InMemory
  <2>3. \A s : Contains(packNames, s) => Contains(packNames', s) BY <1>4, <1>6 DEF Contains
  <2>4. Contains(packNames', Cleaned[key]) BY <1>6 DEF Contains
  <2> QED BY <2>1, <2>2, <2>3, <2>4
<1>8. NamedIn(records, packNames)' /\ NamedIn(added, packNames)'
  <2>1. NamedIn(records, packNames) /\ NamedIn(added, packNames)
    BY <1>1 DEF CatalogInvariant, InMemory
  <2>2. \A s : (\E k \in DOMAIN packNames : packNames[k] = s)
               => \E k \in DOMAIN packNames' : packNames'[k] = s
    <3>1. \A k \in DOMAIN packNames : k \in DOMAIN packNames' /\ packNames'[k] = packNames[k]
      BY <1>4, <1>6
    <3> QED BY <3>1
  <2>3. NamedIn(records', packNames') BY <1>1, <2>1, <2>2 DEF NamedIn
  <2>4. NamedIn(added', packNames') BY <1>1, <2>1, <2>2 DEF NamedIn
  <2> QED BY <2>3, <2>4
<1>9. /\ WholeFile /\ Grown(packNames, records) => Grown(packNames, records)'
      /\ HalfWritten(packNames, records) => HalfWritten(packNames, records)'
  <2>1. Len(records) <= Len(records)
        /\ \A i \in 1..Len(records) : records[i].Crc <= records[i].Crc
    <3>1. \A i \in 1..Len(records) : records[i].Crc \in Nat BY <1>4, MadeFields
    <3>2. Len(records) \in Nat BY <1>4
    <3> QED BY <3>1, <3>2
  <2>2. PICK names2 : names2 = packNames' OBVIOUS
  <2>3. names2 \in Seq(Names) /\ Len(packNames) <= Len(names2)
        /\ \A i \in 1..Len(packNames) : names2[i] = packNames[i]
    BY <1>6, <2>2
  <2>4. /\ WholeFile /\ Grown(packNames, records) => Grown(names2, records)
        /\ HalfWritten(packNames, records) => HalfWritten(names2, records)
    BY <1>4, <2>1, <2>3, GrowthKept
  <2>5. Grown(names2, records) => Grown(packNames, records)' BY <1>1, <1>2, <2>2 DEF Grown
  <2>6. HalfWritten(names2, records) => HalfWritten(packNames, records)'
    BY <1>1, <1>2, <2>2 DEF HalfWritten, HeadStops, EndsAt
  <2> QED BY <2>4, <2>5, <2>6
<1>10. Storing' BY <1>1 DEF CatalogInvariant, WhenStoring, Storing
<1>11. InMemory'
  BY <1>1, <1>2, <1>4, <1>6, <1>7, <1>8, <1>9 DEF CatalogInvariant, InMemory
<1>12. Typed' BY <1>1, <1>6, <1>7 DEF CatalogInvariant, Typed
<1> QED BY <1>1, <1>3, <1>4, <1>10, <1>11, <1>12 DEF CatalogInvariant, WhenStoring, WhenOpen, OnDisk

LEMMA NewRecordMade ==
    ASSUME CatalogInvariant, pc = "store", order # << >>, NEW c \in Crcs, NEW flag \in Flags
    PROVE  /\ NewRecord(c, flag) \in Made /\ NewRecord(c, flag).Crc = c
           /\ \E k \in DOMAIN packNames : packNames[k] = NewRecord(c, flag).PackName
<1> DEFINE last == Len(order)
<1>1. last \in DOMAIN order /\ order[last] \in Keys BY DEF CatalogInvariant, Typed
<1>2. Cleaned[order[last]] \in Names BY <1>1 DEF Names
<1>3. Contains(packNames, Cleaned[order[last]]) BY <1>1 DEF CatalogInvariant, InMemory
<1>4. NewRecord(c, flag) = [Crc |-> c, node |-> <<0, 0>>, IsCompressed |-> flag,
                            PackName |-> Cleaned[order[last]]]
  BY DEF NewRecord, CleanName
<1> HIDE DEF last
<1>5. <<0, 0>> \in Nat \X Nat OBVIOUS
<1> QED BY <1>2, <1>3, <1>4, <1>5 DEF Made, Contains

\* The path is in the list of the catalog: its record is replaced in place.
LEMMA StoreFoundKeeps ==
    ASSUME CatalogInvariant, NEW c \in Crcs, NEW flag \in Flags, StoreEntry(c, flag),
           Found(records, c) # {}
    PROVE  CatalogInvariant'
<1> DEFINE r == NewRecord(c, flag)
<1>1. /\ pc = "store" /\ pc' = "store" /\ order # << >> /\ disk' = disk /\ dirty' = dirty
      /\ order' = order /\ packNames' = packNames
      /\ records' = [i \in DOMAIN records |-> IF i \in Found(records, c) THEN r ELSE records[i]]
      /\ added' = added /\ given' = Append(given, r)
      /\ stored' = stored /\ begun' = begun /\ health' = health
  BY DEF StoreEntry, past
<1>2. DiskNames' = DiskNames /\ DiskRecords' = DiskRecords /\ NumNames' = NumNames
      /\ NumRecords' = NumRecords /\ (WholeFile' <=> WholeFile) /\ (Untorn' <=> Untorn)
  BY <1>1, DiskKept
<1>3. WhenTorn' BY <1>1, TornKept DEF CatalogInvariant
<1>4. packNames \in Seq(Names) /\ records \in Seq(Made) /\ added \in Seq(Made) /\ given \in Seq(Made)
      /\ disk \in Seq(Cell) /\ dirty /\ Ascending(records) /\ Storing
      /\ NamedIn(records, packNames) /\ NamedIn(added, packNames)
  BY <1>1 DEF CatalogInvariant, Typed, InMemory, WhenStoring
<1>5. r \in Made /\ r.Crc = c /\ \E k \in DOMAIN packNames : packNames[k] = r.PackName
  BY <1>1, NewRecordMade
<1> HIDE DEF r
<1>6. \A i \in Found(records, c) : i \in DOMAIN records /\ records[i].Crc = c BY DEF Found
<1>7. /\ records' \in Seq(Made) /\ Len(records') = Len(records) /\ DOMAIN records' = DOMAIN records
      /\ \A i \in DOMAIN records : records'[i].Crc = records[i].Crc
  <2>1. \A i \in DOMAIN records : (IF i \in Found(records, c) THEN r ELSE records[i]) \in Made
    BY <1>4, <1>5
  <2>2. records' \in Seq(Made) /\ Len(records') = Len(records) /\ DOMAIN records' = DOMAIN records
    <3>1. Len(records) \in Nat /\ DOMAIN records = 1..Len(records) BY <1>4
    <3>2. \A i \in 1..Len(records) : records'[i] \in Made BY <1>1, <2>1, <3>1
    <3>3. DOMAIN records' = 1..Len(records) BY <1>1, <3>1
    <3>4. records' = [i \in 1..Len(records) |-> records'[i]] BY <1>1, <3>1
    <3> QED BY <3>1, <3>2, <3>3, <3>4
  <2> QED BY <1>1, <1>5, <1>6, <2>2
<1>8. \A x : Found(records', x) = Found(records, x)
  <2>1. \A i \in DOMAIN records : \A j \in 1..i - 1 : j \in DOMAIN records BY <1>4
  <2> QED BY <1>7, <2>1 DEF Found
<1>9. Paths(records') = Paths(records) BY <1>7 DEF Paths
<1>10. c \in Paths(records) BY <1>6 DEF Paths
<1>11. /\ given' \in Seq(Made) /\ Paths(given') = Paths(given) \cup {c}
       /\ Pairs(given') = Pairs(given) \cup {<<c, ValueOf(r)>>}
       /\ \A i \in DOMAIN given : i \in DOMAIN given' /\ given'[i] = given[i]
  BY <1>1, <1>4, <1>5, Appended
<1>12. Storing'
  <2>1. Paths(records') \cup Paths(added') = DOMAIN stored' \cup Paths(given')
    BY <1>1, <1>4, <1>9, <1>10, <1>11 DEF Storing
  <2>2. ASSUME NEW x \in Paths(records'), Settled(records', x), NEW i \in Found(records', x)
        PROVE  IF x \in Paths(given') THEN <<x, ValueOf(records'[i])>> \in Pairs(given')
               ELSE ValueOf(records'[i]) \in stored'[x]
    <3>1. x \in Paths(records) /\ i \in Found(records, x) /\ i \in DOMAIN records
          /\ records[i].Crc = x
      BY <1>8, <1>9, <2>2 DEF Found
    <3>4. Settled(records, x) BY <1>7, <2>2 DEF Settled
    <3>2. CASE i \in Found(records, c)
      <4>1. x = c /\ records'[i] = r BY <1>1, <1>6, <3>1, <3>2
      <4> QED BY <1>11, <4>1
    <3>3. CASE i \notin Found(records, c)
      <4>1. x # c /\ records'[i] = records[i] BY <1>1, <3>1, <3>3
      <4>2. IF x \in Paths(given) THEN <<x, ValueOf(records[i])>> \in Pairs(given)
            ELSE ValueOf(records[i]) \in stored[x]
        BY <1>4, <3>1, <3>4 DEF Storing
      <4> QED BY <1>1, <1>11, <4>1, <4>2
    <3> QED BY <3>2, <3>3
  <2>3. \A i \in DOMAIN added' :
           /\ added'[i].Crc \notin Paths(records')
           /\ \E j \in DOMAIN given' : given'[j] = added'[i]
    BY <1>1, <1>4, <1>9, <1>11 DEF Storing
  <2> QED BY <2>1, <2>2, <2>3 DEF Storing
<1>13. Ascending(records') BY <1>4, <1>7 DEF Ascending
<1>14. NamedIn(records', packNames') BY <1>1, <1>4, <1>5, <1>7 DEF NamedIn
<1>15. NamedIn(added', packNames') BY <1>1, <1>4 DEF NamedIn
<1>16. /\ WholeFile /\ Grown(packNames, records) => Grown(packNames, records)'
       /\ HalfWritten(packNames, records) => HalfWritten(packNames, records)'
  <2>1. PICK list2 : list2 = records' OBVIOUS
  <2>2. /\ list2 \in Seq(Made) /\ Len(packNames) <= Len(packNames) /\ Len(records) <= Len(list2)
        /\ \A i \in 1..Len(records) : list2[i].Crc <= records[i].Crc /\ list2[i].Crc = records[i].Crc
        /\ Paths(list2) = Paths(records)
    <3>1. \A i \in 1..Len(records) : records[i].Crc \in Nat BY <1>4, MadeFields
    <3>2. Len(records) \in Nat /\ Len(packNames) \in Nat BY <1>4
    <3> QED BY <1>4, <1>7, <1>9, <2>1, <3>1, <3>2
  <2>3. /\ WholeFile /\ Grown(packNames, records) => Grown(packNames, list2)
        /\ HalfWritten(packNames, records) => HalfWritten(packNames, list2)
    <3>1. list2 \in Seq(Made) /\ Len(packNames) <= Len(packNames) /\ Len(records) <= Len(list2)
      BY <2>2
    <3>2. \A i \in 1..Len(packNames) : packNames[i] = packNames[i] OBVIOUS
    <3>3. \A i \in 1..Len(records) : list2[i].Crc <= records[i].Crc BY <2>2
    <3>4. \A i \in 1..Len(records) : list2[i].Crc = records[i].Crc BY <2>2
    <3>5. Paths(records) \subseteq Paths(list2) BY <2>2
    <3> QED BY <1>4, <3>1, <3>2, <3>3, <3>4, <3>5, GrowthKept
  <2>4. Grown(packNames, list2) => Grown(packNames, records)' BY <1>1, <1>2, <2>1 DEF Grown
  <2>5. HalfWritten(packNames, list2) => HalfWritten(packNames, records)'
    BY <1>1, <1>2, <2>1 DEF HalfWritten, HeadStops, EndsAt
  <2> QED BY <2>3, <2>4, <2>5
<1>17. InMemory'
  BY <1>1, <1>2, <1>4, <1>9, <1>13, <1>14, <1>15, <1>16 DEF CatalogInvariant, InMemory
<1>18. Typed' BY <1>1, <1>7, <1>11 DEF CatalogInvariant, Typed
<1> QED BY <1>1, <1>3, <1>4, <1>12, <1>17, <1>18 DEF CatalogInvariant, WhenStoring, WhenOpen, OnDisk

\* It is not: the record waits for the end of the Store.
LEMMA StoreAddedKeeps ==
    ASSUME CatalogInvariant, NEW c \in Crcs, NEW flag \in Flags, StoreEntry(c, flag),
           Found(records, c) = {}
    PROVE  CatalogInvariant'
<1> DEFINE r == NewRecord(c, flag)
<1>1. /\ pc = "store" /\ pc' = "store" /\ order # << >> /\ disk' = disk /\ dirty' = dirty
      /\ order' = order /\ packNames' = packNames /\ records' = records
      /\ added' = Append(added, r) /\ given' = Append(given, r)
      /\ stored' = stored /\ begun' = begun /\ health' = health
  BY DEF StoreEntry, past
<1>2. DiskNames' = DiskNames /\ DiskRecords' = DiskRecords /\ NumNames' = NumNames
      /\ NumRecords' = NumRecords /\ (WholeFile' <=> WholeFile) /\ (Untorn' <=> Untorn)
  BY <1>1, DiskKept
<1>3. WhenTorn' BY <1>1, TornKept DEF CatalogInvariant
<1>4. packNames \in Seq(Names) /\ records \in Seq(Made) /\ added \in Seq(Made) /\ given \in Seq(Made)
      /\ disk \in Seq(Cell) /\ dirty /\ Ascending(records) /\ Storing
      /\ NamedIn(records, packNames) /\ NamedIn(added, packNames)
  BY <1>1 DEF CatalogInvariant, Typed, InMemory, WhenStoring
<1>5. r \in Made /\ r.Crc = c /\ \E k \in DOMAIN packNames : packNames[k] = r.PackName
  BY <1>1, NewRecordMade
<1> HIDE DEF r
<1>6. c \notin Paths(records) BY <1>4, FirstFound
<1>7. /\ given' \in Seq(Made) /\ Paths(given') = Paths(given) \cup {c}
      /\ Pairs(given') = Pairs(given) \cup {<<c, ValueOf(r)>>}
      /\ \A i \in DOMAIN given : i \in DOMAIN given' /\ given'[i] = given[i]
      /\ \E j \in DOMAIN given' : given'[j] = r
  BY <1>1, <1>4, <1>5, Appended
<1>8. /\ added' \in Seq(Made) /\ Paths(added') = Paths(added) \cup {c}
      /\ \A i \in DOMAIN added' : (i \in DOMAIN added /\ added'[i] = added[i]) \/ added'[i] = r
  BY <1>1, <1>4, <1>5, Appended
<1>9. Storing'
  <2>1. Paths(records') \cup Paths(added') = DOMAIN stored' \cup Paths(given')
    BY <1>1, <1>4, <1>7, <1>8 DEF Storing
  <2>2. ASSUME NEW x \in Paths(records'), Settled(records', x), NEW i \in Found(records', x)
        PROVE  IF x \in Paths(given') THEN <<x, ValueOf(records'[i])>> \in Pairs(given')
               ELSE ValueOf(records'[i]) \in stored'[x]
    <3>1. x \in Paths(records) /\ Settled(records, x) /\ i \in Found(records, x) /\ x # c
      BY <1>1, <1>6, <2>2
    <3>2. IF x \in Paths(given) THEN <<x, ValueOf(records[i])>> \in Pairs(given)
          ELSE ValueOf(records[i]) \in stored[x]
      BY <1>4, <3>1 DEF Storing
    <3> QED BY <1>1, <1>7, <3>1, <3>2
  <2>3. \A i \in DOMAIN added' :
           /\ added'[i].Crc \notin Paths(records')
           /\ \E j \in DOMAIN given' : given'[j] = added'[i]
    BY <1>1, <1>4, <1>5, <1>6, <1>7, <1>8 DEF Storing
  <2> QED BY <2>1, <2>2, <2>3 DEF Storing
<1>10. NamedIn(added', packNames') BY <1>1, <1>4, <1>5, <1>8 DEF NamedIn
<1>11. Grown(packNames, records) => Grown(packNames, records)' BY <1>1, <1>2 DEF Grown
<1>12. HalfWritten(packNames, records) => HalfWritten(packNames, records)'
  BY <1>1, <1>2 DEF HalfWritten, HeadStops, EndsAt
<1>13. InMemory'
  BY <1>1, <1>2, <1>4, <1>10, <1>11, <1>12 DEF CatalogInvariant, InMemory
<1>14. Typed' BY <1>1, <1>7, <1>8 DEF CatalogInvariant, Typed
<1> QED BY <1>1, <1>3, <1>4, <1>9, <1>13, <1>14 DEF CatalogInvariant, WhenStoring, WhenOpen, OnDisk

LEMMA EndStoreKeeps == CatalogInvariant /\ EndStore => CatalogInvariant'
<1> SUFFICES ASSUME CatalogInvariant, EndStore PROVE CatalogInvariant' OBVIOUS
<1>1. /\ pc = "store" /\ pc' = "open" /\ disk' = disk /\ dirty' = dirty
      /\ packNames' = packNames
      /\ order' = << >> /\ added' = << >> /\ given' = << >>
      /\ begun' = begun /\ health' = health
      /\ stored' = [c \in DOMAIN stored \cup Paths(given) |->
                       IF c \in Paths(given) THEN {v \in Value : <<c, v>> \in Pairs(given)}
                       ELSE stored[c]]
  BY DEF EndStore
<1>2. DiskNames' = DiskNames /\ DiskRecords' = DiskRecords /\ NumNames' = NumNames
      /\ NumRecords' = NumRecords /\ (WholeFile' <=> WholeFile) /\ (Untorn' <=> Untorn)
  BY <1>1, DiskKept
<1>3. WhenTorn' BY <1>1, TornKept DEF CatalogInvariant
<1>4. packNames \in Seq(Names) /\ records \in Seq(Made) /\ added \in Seq(Made) /\ given \in Seq(Made)
      /\ disk \in Seq(Cell) /\ dirty /\ Ascending(records) /\ Storing
      /\ NamedIn(records, packNames) /\ NamedIn(added, packNames)
  BY <1>1 DEF CatalogInvariant, Typed, InMemory, WhenStoring
<1> DEFINE both == records \o added
<1>0. PICK p \in Orders(both) : records' = Ordered(both, p) BY DEF EndStore
<1> DEFINE new == Ordered(both, p)
<1>5. /\ new \in Seq(Made) /\ Len(new) = Len(records) + Len(added)
      /\ Ascending(new) /\ Indexed(new)
      /\ Paths(new) = Paths(records) \cup Paths(added)
      /\ \A k \in DOMAIN records : new[k].Crc <= records[k].Crc
      /\ added = << >> => \A k \in DOMAIN records : new[k].Crc = records[k].Crc
      /\ \A k \in DOMAIN new : \E i \in DOMAIN both :
            /\ new[k].Crc = both[i].Crc /\ ValueOf(new[k]) = ValueOf(both[i])
            /\ new[k].PackName = both[i].PackName
  BY <1>0, <1>4, OrderedList
<1>6. /\ both \in Seq(Made) /\ Len(both) = Len(records) + Len(added)
      /\ \A i \in 1..Len(records) : both[i] = records[i]
      /\ \A i \in Len(records) + 1..Len(records) + Len(added) : both[i] = added[i - Len(records)]
  BY <1>4, Joined
<1>7. ASSUME NEW c, NEW k \in Found(new, c), Settled(new, c)
      PROVE  \/ /\ Settled(records, c)
                /\ \E i \in Found(records, c) : ValueOf(new[k]) = ValueOf(records[i])
             \/ /\ c \notin Paths(records)
                /\ \E i \in DOMAIN added : added[i].Crc = c /\ ValueOf(new[k]) = ValueOf(added[i])
  BY <1>4, <1>7, OrderedFirst
<1>8. records' = new BY <1>0
<1> HIDE DEF new, both
<1>9. NamedIn(new, packNames)
  <2> SUFFICES ASSUME NEW k \in DOMAIN new
               PROVE  \E m \in DOMAIN packNames : packNames[m] = new[k].PackName
    BY DEF NamedIn
  <2>1. PICK i \in DOMAIN both : new[k].PackName = both[i].PackName BY <1>5
  <2>2. CASE i \in 1..Len(records)
    <3>1. i \in DOMAIN records /\ both[i] = records[i] BY <1>4, <1>6, <2>2
    <3> QED BY <1>4, <2>1, <3>1 DEF NamedIn
  <2>3. CASE i \in Len(records) + 1..Len(records) + Len(added)
    <3>1. i - Len(records) \in DOMAIN added /\ both[i] = added[i - Len(records)]
      BY <1>4, <1>6, <2>3
    <3> QED BY <1>4, <2>1, <3>1 DEF NamedIn
  <2>4. i \in 1..Len(records) \/ i \in Len(records) + 1..Len(records) + Len(added)
    BY <1>4, <1>6
  <2> QED BY <2>2, <2>3, <2>4
<1>10. /\ WholeFile /\ Grown(packNames, records) => Grown(packNames, records)'
       /\ HalfWritten(packNames, records) => HalfWritten(packNames, records)'
  <2>1. /\ Len(packNames) <= Len(packNames) /\ Len(records) <= Len(new)
        /\ \A i \in 1..Len(packNames) : packNames[i] = packNames[i]
        /\ \A i \in 1..Len(records) : new[i].Crc <= records[i].Crc
        /\ Len(records) = Len(new) => \A i \in 1..Len(records) : new[i].Crc = records[i].Crc
        /\ Paths(records) \subseteq Paths(new)
    <3>1. Len(records) \in Nat /\ Len(packNames) \in Nat /\ Len(added) \in Nat BY <1>4
    <3>2. \A i \in 1..Len(records) : i \in DOMAIN records BY <1>4
    <3>3. Len(records) = Len(new) => added = << >>
      <4>1. Len(records) = Len(new) => Len(added) = 0 BY <1>5, <3>1
      <4> QED BY <1>4, <4>1
    <3> QED BY <1>5, <3>1, <3>2, <3>3
  <2>2. /\ WholeFile /\ Grown(packNames, records) => Grown(packNames, new)
        /\ HalfWritten(packNames, records) => HalfWritten(packNames, new)
    BY <1>4, <1>5, <2>1, GrowthKept
  <2>3. Grown(packNames, new) => Grown(packNames, records)' BY <1>1, <1>2, <1>8 DEF Grown
  <2>4. HalfWritten(packNames, new) => HalfWritten(packNames, records)'
    BY <1>1, <1>2, <1>8 DEF HalfWritten, HeadStops, EndsAt
  <2> QED BY <2>2, <2>3, <2>4
<1>11. DOMAIN stored' = Paths(new)
  BY <1>1, <1>4, <1>5 DEF Storing
<1>12. Serves(new, stored')
  <2>1. ASSUME NEW c \in Paths(new), Settled(new, c), NEW k \in Found(new, c)
        PROVE  ValueOf(new[k]) \in stored'[c]
    <3>0. ValueOf(new[k]) \in Value
      <4>1. k \in DOMAIN new BY DEF Found
      <4> QED BY <1>5, <4>1, MadeFields
    <3>1. stored'[c] = IF c \in Paths(given) THEN {v \in Value : <<c, v>> \in Pairs(given)}
                       ELSE stored[c]
      BY <1>1, <1>11
    <3>2. ASSUME NEW i \in Found(records, c), Settled(records, c),
                 ValueOf(new[k]) = ValueOf(records[i])
          PROVE  ValueOf(new[k]) \in stored'[c]
      <4>1. c \in Paths(records) BY DEF Found, Paths
      <4>2. IF c \in Paths(given) THEN <<c, ValueOf(records[i])>> \in Pairs(given)
            ELSE ValueOf(records[i]) \in stored[c]
        BY <1>4, <3>2, <4>1 DEF Storing
      <4> QED BY <3>0, <3>1, <3>2, <4>2
    <3>3. ASSUME NEW i \in DOMAIN added, added[i].Crc = c, ValueOf(new[k]) = ValueOf(added[i])
          PROVE  ValueOf(new[k]) \in stored'[c]
      <4>1. PICK j \in DOMAIN given : given[j] = added[i] BY <1>4 DEF Storing
      <4>2. c \in Paths(given) BY <3>3, <4>1 DEF Paths
      <4>3. <<c, ValueOf(added[i])>> \in Pairs(given) BY <3>3, <4>1 DEF Pairs
      <4> QED BY <3>0, <3>1, <3>3, <4>2, <4>3
    <3> QED BY <1>7, <2>1, <3>2, <3>3
  <2>2. \A c \in Paths(new) : Found(new, c) # {} BY <1>5, FirstFound
  <2> QED BY <1>11, <2>1, <2>2, ServesMeans
<1>13. \A c \in DOMAIN stored' : c \in Crcs /\ stored'[c] \subseteq Value
  <2> SUFFICES ASSUME NEW c \in DOMAIN stored' PROVE c \in Crcs /\ stored'[c] \subseteq Value
    OBVIOUS
  <2>1. c \in Crcs BY <1>5, <1>11, MadeFields DEF Paths
  <2>2. c \in DOMAIN stored \cup Paths(given) BY <1>1
  <2>3. \A x \in DOMAIN stored : stored[x] \subseteq Value BY DEF CatalogInvariant, Typed
  <2>4. stored'[c] \subseteq Value BY <1>1, <2>2, <2>3
  <2> QED BY <2>1, <2>4
<1>14. InMemory'
  <2>1. DOMAIN << >> = {} OBVIOUS
  <2>2. Paths(records) \subseteq Paths(records') BY <1>5, <1>8
  <2> QED BY <1>1, <1>2, <1>4, <1>5, <1>8, <1>9, <1>10, <2>1, <2>2
          DEF CatalogInvariant, InMemory, NamedIn
<1>15. Typed'
  <2>1. << >> \in Seq(Made) /\ << >> \in Seq(Keys) OBVIOUS
  <2> QED BY <1>1, <1>5, <1>8, <1>13, <2>1 DEF CatalogInvariant, Typed
<1>16. WhenOpen' BY <1>1, <1>5, <1>8, <1>12 DEF WhenOpen
<1> QED BY <1>1, <1>3, <1>14, <1>15, <1>16 DEF CatalogInvariant, WhenStoring, OnDisk

LEMMA FlushCleanKeeps == CatalogInvariant /\ FlushClean => CatalogInvariant'
<1> SUFFICES ASSUME CatalogInvariant, FlushClean PROVE CatalogInvariant' OBVIOUS
<1>1. /\ pc = "open" /\ ~dirty /\ disk' = disk /\ dirty \in BOOLEAN
      /\ stored' = stored /\ begun' = begun /\ health' = health
      /\ WholeFile /\ records = DiskRecords /\ packNames = DiskNames /\ health # "torn"
      /\ Serves(records, stored)
  BY DEF FlushClean, past, CatalogInvariant, InMemory, Typed, WhenOpen
<1>2. DiskNames' = DiskNames /\ DiskRecords' = DiskRecords /\ NumNames' = NumNames
      /\ NumRecords' = NumRecords /\ WholeFile' /\ (Untorn' <=> Untorn) /\ Untorn
  BY <1>1, DiskKept DEF CatalogInvariant, InMemory
<1>3. WhenTorn' BY <1>1, TornKept DEF CatalogInvariant
<1>4. CASE Stays /\ UNCHANGED dirty
  <2>1. /\ pc' = pc /\ dirty' = dirty /\ packNames' = packNames /\ records' = records
        /\ order' = order /\ added' = added /\ given' = given
    BY <1>1, <1>4 DEF Stays, locals
  <2>2. Grown(packNames, records) => Grown(packNames, records)' BY <1>1, <1>2, <2>1 DEF Grown
  <2>3. HalfWritten(packNames, records) => HalfWritten(packNames, records)'
    BY <1>1, <1>2, <2>1 DEF HalfWritten, HeadStops, EndsAt
  <2>4. InMemory' BY <1>1, <1>2, <2>1, <2>2, <2>3 DEF CatalogInvariant, InMemory
  <2>5. WhenOpen' BY <1>1, <2>1 DEF CatalogInvariant, WhenOpen
  <2>6. Typed' BY <1>1, <2>1 DEF CatalogInvariant, Typed
  <2> QED BY <1>1, <1>3, <2>1, <2>4, <2>5, <2>6 DEF CatalogInvariant, WhenStoring, OnDisk
<1>5. CASE Closes
  <2>1. /\ pc' = "closed" /\ dirty' = FALSE /\ packNames' = << >> /\ records' = << >>
        /\ order' = << >> /\ added' = << >> /\ given' = << >>
    BY <1>5 DEF Closes, Forget
  <2>2. << >> \in Seq(Names) /\ << >> \in Seq(Made) /\ << >> \in Seq(Keys) OBVIOUS
  <2>3. Typed' BY <1>1, <2>1, <2>2 DEF CatalogInvariant, Typed
  <2>4. OnDisk' BY <1>1, <1>2, <2>1 DEF OnDisk, WholeFile
  <2> QED BY <1>3, <2>1, <2>3, <2>4 DEF CatalogInvariant, WhenStoring, WhenOpen, InMemory
<1> QED BY <1>4, <1>5 DEF FlushClean

\* The memory of an open catalog, as the lemmas about Flush need it.
LEMMA FlushFrom ==
    ASSUME CatalogInvariant, pc = "open", dirty
    PROVE  /\ MemoryTyped /\ disk \in Seq(Cell) /\ Len(disk) <= Len(Block) /\ Nameless = {}
           /\ Indexed(records) /\ Ascending(records) /\ Distinct(packNames)
           /\ Serves(records, stored)
<1>1. /\ packNames \in Seq(Names) /\ records \in Seq(Made) /\ disk \in Seq(Cell)
      /\ NamedIn(records, packNames) /\ Ascending(records) /\ Distinct(packNames)
      /\ Indexed(records) /\ Serves(records, stored)
  BY DEF CatalogInvariant, Typed, InMemory, WhenOpen
<1>2. MemoryTyped BY <1>1 DEF MemoryTyped
<1>3. Len(Block) = 3 + Len(packNames) + Len(records) BY <1>2, BlockCells
<1>4. Len(disk) <= Len(Block)
  <2>0. Len(packNames) \in Nat /\ Len(records) \in Nat BY <1>1
  <2>1. CASE WholeFile /\ Grown(packNames, records)
    <3>1. NumNames \in Nat /\ NumRecords \in Nat /\ Len(disk) = 3 + NumNames + NumRecords
      BY <1>1, <2>1, WholeShape
    <3>2. NumNames <= Len(packNames) /\ NumRecords <= Len(records) BY <2>1 DEF Grown
    <3> QED BY <1>3, <2>0, <3>1, <3>2
  <2>2. CASE HalfWritten(packNames, records) BY <1>3, <2>2 DEF HalfWritten
  <2> QED BY <2>1, <2>2 DEF CatalogInvariant, InMemory
<1>5. Nameless = {} BY <1>1 DEF Nameless, NamedIn, Contains
<1> QED BY <1>1, <1>2, <1>4, <1>5

LEMMA FlushKeeps == CatalogInvariant /\ Flush => CatalogInvariant'
<1> SUFFICES ASSUME CatalogInvariant, Flush PROVE CatalogInvariant' OBVIOUS
<1>1. /\ pc = "open" /\ dirty /\ disk' = Overwritten(Len(Block)) /\ stored' = stored
      /\ health' \in {"whole", "lost"} /\ begun' = NoFlush
  BY DEF Flush, CatalogInvariant, Typed
<1>2. /\ MemoryTyped /\ disk \in Seq(Cell) /\ Len(disk) <= Len(Block)
      /\ Indexed(records) /\ Ascending(records) /\ Distinct(packNames)
      /\ Serves(records, stored)
  BY <1>1, FlushFrom
<1>3. disk' = Block /\ disk' \in Seq(Cell) BY <1>1, <1>2, FullOverwrite, BlockCells
<1>4. /\ Acceptable' /\ NumNames' = Len(packNames) /\ NumRecords' = Len(records)
      /\ Len(disk') = 3 + Len(packNames) + Len(records)
      /\ DiskNames' = packNames /\ DiskRecords' = records
  <2>1. Len(Block) = 3 + Len(packNames) + Len(records) BY <1>2, BlockCells
  <2> QED BY <1>2, <1>3, <2>1, BlockReadsBack
<1>9. Untorn' BY <1>2, <1>3, BlockUntorn
<1>5. packNames \in Seq(Names) /\ records \in Seq(Made) /\ NamedIn(records, packNames)
  BY <1>2 DEF MemoryTyped
<1>6. WholeFile' BY <1>2, <1>4, <1>5 DEF WholeFile
<1>7. CASE Stays /\ dirty' = FALSE
  <2>1. /\ pc' = "open" /\ packNames' = packNames /\ records' = records
        /\ order' = << >> /\ added' = << >> /\ given' = << >>
    BY <1>1, <1>7 DEF Stays, locals, CatalogInvariant, WhenOpen
  <2>2. Grown(packNames, records)'
    <3>1. \A i \in 1..Len(records) : records[i].Crc \in Nat BY <1>5, MadeFields
    <3>2. Len(packNames) \in Nat /\ Len(records) \in Nat BY <1>5
    <3> QED BY <1>4, <2>1, <3>1, <3>2 DEF Grown
  <2>3. DOMAIN << >> = {} OBVIOUS
  <2>4. InMemory'
    BY <1>1, <1>2, <1>3, <1>4, <1>5, <1>6, <1>7, <1>9, <2>1, <2>2, <2>3 DEF InMemory, NamedIn
  <2>5. WhenOpen' BY <1>1, <1>2, <2>1 DEF WhenOpen
  <2>6. << >> \in Seq(Made) /\ << >> \in Seq(Keys) OBVIOUS
  <2>7. Typed' BY <1>1, <1>3, <1>5, <1>7, <2>1, <2>6, NoFlushTyped DEF CatalogInvariant, Typed
  <2> QED BY <1>1, <2>1, <2>4, <2>5, <2>7 DEF CatalogInvariant, WhenStoring, OnDisk, WhenTorn
<1>8. CASE Closes
  <2>1. /\ pc' = "closed" /\ dirty' = FALSE /\ packNames' = << >> /\ records' = << >>
        /\ order' = << >> /\ added' = << >> /\ given' = << >>
    BY <1>8 DEF Closes, Forget
  <2>2. << >> \in Seq(Names) /\ << >> \in Seq(Made) /\ << >> \in Seq(Keys) OBVIOUS
  <2>3. Typed' BY <1>1, <1>3, <2>1, <2>2, NoFlushTyped DEF CatalogInvariant, Typed
  <2>4. OnDisk' BY <1>1, <1>2, <1>4, <1>6, <1>9, <2>1 DEF OnDisk
  <2> QED BY <1>1, <2>1, <2>3, <2>4 DEF CatalogInvariant, WhenStoring, WhenOpen, InMemory, WhenTorn
<1> QED BY <1>7, <1>8 DEF Flush

\* However many cells a Flush that fails has written, the file is as it was
\* but for records of the same paths, or it cannot be opened.
LEMMA FlushFailsKeeps == CatalogInvariant /\ FlushFails => CatalogInvariant'
<1> SUFFICES ASSUME CatalogInvariant, FlushFails PROVE CatalogInvariant' OBVIOUS
<1>1. /\ pc = "open" /\ dirty /\ dirty \in BOOLEAN /\ stored' = stored /\ health' = "torn"
      /\ begun' = IF health = "torn" THEN [begun EXCEPT !.values = @ \cup Pairs(records)]
                  ELSE [paths  |-> Paths(DiskRecords),
                        values |-> Pairs(DiskRecords) \cup Pairs(records)]
  BY DEF FlushFails, CatalogInvariant, Typed
<1>2. /\ MemoryTyped /\ disk \in Seq(Cell) /\ Nameless = {}
      /\ Indexed(records) /\ Ascending(records) /\ Distinct(packNames)
      /\ Serves(records, stored)
  BY <1>1, FlushFrom
<1>12. PICK n \in 0..Len(Block) - 1 : disk' = Overwritten(n) \/ (Changes(n) /\ disk' = Cut(n))
  BY <1>2 DEF FlushFails
<1>3. PICK m : Left(n, m) BY <1>2, <1>12, FailsLeaves
<1>4. disk' \in Seq(Cell) /\ disk' # << >>
  <2>1. disk' \in Seq(Cell) /\ Len(disk') = IF m < Len(disk) THEN Len(disk) ELSE m
    BY <1>3 DEF Left
  <2>2. m \in Nat
    <3>1. n \in Nat /\ n + 1 \in Nat BY <1>2, BlockCells
    <3> QED BY <1>3, <3>1 DEF Left
  <2>3. Len(disk) > 0
    <3>1. CASE WholeFile
      <4>1. NumNames \in Nat /\ NumRecords \in Nat /\ Len(disk) = 3 + NumNames + NumRecords
        BY <1>2, <3>1, WholeShape
      <4> QED BY <4>1
    <3>2. CASE HalfWritten(packNames, records) BY <1>2, <3>2 DEF HalfWritten
    <3> QED BY <1>1, <3>1, <3>2 DEF CatalogInvariant, InMemory
  <2>4. Len(disk') > 0 BY <1>2, <2>1, <2>2, <2>3
  <2> QED BY <2>1, <2>4
<1>5. PICK names : names = packNames OBVIOUS
<1>6. PICK list : list = records OBVIOUS
<1>14. begun'.paths \subseteq Paths(records)
  <2>1. CASE health = "torn" BY <1>1, <2>1 DEF CatalogInvariant, InMemory, Typed
  <2>2. CASE health # "torn" BY <1>1, <2>2 DEF CatalogInvariant, InMemory, Grown
  <2> QED BY <2>1, <2>2
<1>15. Pairs(records) \subseteq begun'.values
  BY <1>1 DEF CatalogInvariant, Typed
<1>7. \/ HalfWritten(names, list)' /\ ~Acceptable'
      \/ /\ WholeFile' /\ Grown(names, list)'
         /\ Pairs(DiskRecords') \subseteq begun'.values /\ begun'.paths \subseteq Paths(DiskRecords')
  <2>1. CASE m = Len(Block) /\ Len(records) # 0
    <3>1. Len(disk) <= Len(Block) BY <1>1, FlushFrom
    <3>2. WholeFile' /\ Grown(names, list)' /\ DiskRecords' = records
      BY <1>2, <1>3, <1>5, <1>6, <2>1, <3>1, LastTorn
    <3> QED BY <1>14, <1>15, <3>2
  <2>2. CASE ~(m = Len(Block) /\ Len(records) # 0) /\ HalfWritten(packNames, records)
    <3>1. HalfWritten(names, list) BY <1>5, <1>6, <2>2
    <3>2. HalfWritten(names, list)' BY <1>2, <1>3, <1>5, <1>6, <2>2, <3>1, FailHalf
    <3> QED BY <1>4, <3>2, HalfUnreadable
  <2>3. CASE ~(m = Len(Block) /\ Len(records) # 0) /\ WholeFile /\ Grown(packNames, records)
    <3>1. WholeFile /\ Grown(names, list) BY <1>5, <1>6, <2>3
    <3>2. \/ HalfWritten(names, list)'
          \/ /\ WholeFile' /\ Grown(names, list)'
             /\ Paths(DiskRecords') = Paths(DiskRecords)
             /\ Pairs(DiskRecords') \subseteq Pairs(DiskRecords) \cup Pairs(records)
      BY <1>2, <1>3, <1>5, <1>6, <2>3, <3>1, FailWhole
    <3>3. CASE HalfWritten(names, list)' BY <1>4, <3>3, HalfUnreadable
    <3>4. CASE /\ WholeFile' /\ Grown(names, list)'
               /\ Paths(DiskRecords') = Paths(DiskRecords)
               /\ Pairs(DiskRecords') \subseteq Pairs(DiskRecords) \cup Pairs(records)
      <4>1. CASE health = "torn"
        <5>1. Pairs(DiskRecords) \subseteq begun.values /\ begun.paths \subseteq Paths(DiskRecords)
          BY <2>3, <4>1 DEF CatalogInvariant, WhenTorn, WholeFile
        <5>2. begun'.values = begun.values \cup Pairs(records) /\ begun'.paths = begun.paths
          BY <1>1, <4>1 DEF CatalogInvariant, Typed
        <5> QED BY <3>4, <5>1, <5>2
      <4>2. CASE health # "torn"
        <5>1. begun'.values = Pairs(DiskRecords) \cup Pairs(records)
              /\ begun'.paths = Paths(DiskRecords)
          BY <1>1, <4>2
        <5> QED BY <3>4, <5>1
      <4> QED BY <3>4, <4>1, <4>2
    <3> QED BY <3>2, <3>3, <3>4
  <2> QED BY <1>1, <2>1, <2>2, <2>3 DEF CatalogInvariant, InMemory
<1>8. WhenTorn' BY <1>4, <1>7 DEF WhenTorn
<1>9. begun' \in [paths : SUBSET Crcs, values : SUBSET (Crcs \X Value)]
  <2>1. Pairs(records) \subseteq Crcs \X Value BY <1>2, PairsTyped DEF MemoryTyped
  <2>2. CASE health = "torn"
    <3>1. begun \in [paths : SUBSET Crcs, values : SUBSET (Crcs \X Value)]
      BY DEF CatalogInvariant, Typed
    <3>2. begun' = [begun EXCEPT !.values = begun.values \cup Pairs(records)] BY <1>1, <2>2
    <3> QED BY <2>1, <3>1, <3>2
  <2>3. CASE health # "torn"
    <3>1. WholeFile BY <1>1, <2>3 DEF CatalogInvariant, InMemory
    <3>2. Paths(DiskRecords) \subseteq Crcs /\ Pairs(DiskRecords) \subseteq Crcs \X Value
      BY <3>1, PairsTyped DEF WholeFile
    <3> QED BY <1>1, <2>1, <2>3, <3>2
  <2> QED BY <2>2, <2>3
<1>10. CASE Stays /\ StillDirty
  <2>1. /\ pc' = "open" /\ dirty' /\ dirty' = dirty /\ packNames' = packNames /\ records' = records
        /\ order' = order /\ added' = added /\ given' = given
        /\ order = << >> /\ added = << >> /\ given = << >>
    BY <1>1, <1>10 DEF Stays, StillDirty, locals, CatalogInvariant, WhenOpen
  <2>2. HalfWritten(names, list)' => HalfWritten(packNames, records)'
    BY <1>5, <1>6, <2>1 DEF HalfWritten, HeadStops, EndsAt
  <2>3. Grown(names, list)' => Grown(packNames, records)' BY <1>5, <1>6, <2>1 DEF Grown
  <2>4. InMemory'
    <3>1. DOMAIN << >> = {} OBVIOUS
    <3> QED BY <1>1, <1>2, <1>4, <1>7, <1>14, <2>1, <2>2, <2>3, <3>1 DEF InMemory, NamedIn, MemoryTyped
  <2>5. WhenOpen' BY <1>1, <1>2, <2>1 DEF WhenOpen
  <2>6. Typed' BY <1>1, <1>4, <1>9, <2>1 DEF CatalogInvariant, Typed
  <2> QED BY <1>8, <2>1, <2>4, <2>5, <2>6 DEF CatalogInvariant, WhenStoring, OnDisk
<1>11. CASE Closes
  <2>1. /\ pc' = "closed" /\ dirty' = FALSE /\ packNames' = << >> /\ records' = << >>
        /\ order' = << >> /\ added' = << >> /\ given' = << >>
    BY <1>11 DEF Closes, Forget
  <2>2. << >> \in Seq(Names) /\ << >> \in Seq(Made) /\ << >> \in Seq(Keys) OBVIOUS
  <2>3. Typed' BY <1>1, <1>4, <1>9, <2>1, <2>2 DEF CatalogInvariant, Typed
  <2>4. OnDisk' BY <1>1, <1>7, <2>1 DEF OnDisk
  <2> QED BY <1>8, <2>1, <2>3, <2>4 DEF CatalogInvariant, WhenStoring, WhenOpen, InMemory
<1> QED BY <1>10, <1>11 DEF FlushFails

LEMMA CrashKeeps == CatalogInvariant /\ Crash => CatalogInvariant'
<1> SUFFICES ASSUME CatalogInvariant, Crash PROVE CatalogInvariant' OBVIOUS
<1>1. /\ pc \in {"open", "store"} /\ disk' = disk /\ begun' = begun /\ health' = health
      /\ stored' = (IF health = "torn" THEN stored ELSE Contents(DiskRecords))
      /\ pc' = "closed" /\ dirty' = FALSE /\ packNames' = << >> /\ records' = << >>
      /\ order' = << >> /\ added' = << >> /\ given' = << >>
  BY DEF Crash, Closes, Forget
<1>2. /\ DiskNames' = DiskNames /\ DiskRecords' = DiskRecords /\ NumNames' = NumNames
      /\ NumRecords' = NumRecords /\ (WholeFile' <=> WholeFile) /\ (Acceptable' <=> Acceptable)
      /\ (Untorn' <=> Untorn)
  BY <1>1, DiskKept
<1>3. WhenTorn' BY <1>1, TornKept DEF CatalogInvariant
<1>4. disk \in Seq(Cell) /\ disk' \in Seq(Cell) BY <1>1 DEF CatalogInvariant, InMemory
<1>5. Acceptable => WholeFile
  <2>1. ASSUME HalfWritten(packNames, records) PROVE ~Acceptable
    <3>1. PICK names : names = packNames OBVIOUS
    <3>2. PICK list : list = records OBVIOUS
    <3>3. HalfWritten(names, list)'
      BY <1>1, <1>2, <2>1, <3>1, <3>2 DEF HalfWritten, HeadStops, EndsAt
    <3> QED BY <1>2, <1>4, <3>3, HalfUnreadable
  <2> QED BY <1>1, <2>1 DEF CatalogInvariant, InMemory
<1>6. health # "torn" => WholeFile /\ Untorn BY <1>1 DEF CatalogInvariant, InMemory
<1>7. ASSUME WholeFile
      PROVE  /\ Serves(DiskRecords, Contents(DiskRecords))
             /\ \A c \in DOMAIN Contents(DiskRecords) :
                   c \in Crcs /\ Contents(DiskRecords)[c] \subseteq Value
  <2>1. DiskRecords \in Seq(Made) /\ Ascending(DiskRecords) BY <1>7 DEF WholeFile
  <2>2. \A c \in Paths(DiskRecords) : c \in Crcs BY <2>1, MadeFields DEF Paths
  <2>3. \A c \in Paths(DiskRecords) : Contents(DiskRecords)[c] \subseteq Value
    <3> TAKE c \in Paths(DiskRecords)
    <3>1. \A i \in Found(DiskRecords, c) : ValueOf(DiskRecords[i]) \in Value
      BY <2>1, MadeFields DEF Found
    <3>2. Contents(DiskRecords)[c] = {ValueOf(DiskRecords[i]) : i \in Found(DiskRecords, c)}
      BY DEF Contents
    <3> QED BY <3>1, <3>2
  <2>4. DOMAIN Contents(DiskRecords) = Paths(DiskRecords) BY DEF Contents
  <2> QED BY <2>1, <2>2, <2>3, <2>4, ServesItself
<1>8. OnDisk' BY <1>1, <1>2, <1>5, <1>6, <1>7 DEF OnDisk, WholeFile
<1>9. Typed'
  <2>1. << >> \in Seq(Names) /\ << >> \in Seq(Made) /\ << >> \in Seq(Keys) OBVIOUS
  <2>2. \A c \in DOMAIN stored' : c \in Crcs /\ stored'[c] \subseteq Value
    BY <1>1, <1>6, <1>7 DEF CatalogInvariant, Typed
  <2> QED BY <1>1, <2>1, <2>2 DEF CatalogInvariant, Typed
<1> QED BY <1>1, <1>3, <1>8, <1>9 DEF CatalogInvariant, WhenStoring, WhenOpen, InMemory

LEMMA NextKeeps == CatalogInvariant /\ [Next]_vars => CatalogInvariant'
<1> SUFFICES ASSUME CatalogInvariant, [Next]_vars PROVE CatalogInvariant' OBVIOUS
<1>1. CASE UNCHANGED vars
  <2>1. /\ pc' = pc /\ disk' = disk /\ dirty' = dirty /\ packNames' = packNames
        /\ records' = records /\ order' = order /\ added' = added /\ given' = given
        /\ stored' = stored /\ begun' = begun /\ health' = health
    BY <1>1 DEF vars, catalog, locals, past
  <2>2. /\ DiskNames' = DiskNames /\ DiskRecords' = DiskRecords /\ NumNames' = NumNames
        /\ NumRecords' = NumRecords /\ (Acceptable' <=> Acceptable) /\ (WholeFile' <=> WholeFile)
        /\ (Readable' <=> Readable) /\ (Untorn' <=> Untorn)
    BY <2>1, DiskKept
  <2>3. WhenTorn' BY <2>1, TornKept DEF CatalogInvariant
  <2>4. Typed' /\ WhenStoring' /\ WhenOpen' /\ OnDisk'
    BY <2>1, <2>2 DEF CatalogInvariant, Typed, WhenStoring, Storing, WhenOpen, OnDisk
  <2>5. Grown(packNames, records) => Grown(packNames, records)' BY <2>1, <2>2 DEF Grown
  <2>6. HalfWritten(packNames, records) => HalfWritten(packNames, records)'
    BY <2>1, <2>2 DEF HalfWritten, HeadStops, EndsAt
  <2>7. InMemory' BY <2>1, <2>2, <2>5, <2>6 DEF CatalogInvariant, InMemory
  <2> QED BY <2>3, <2>4, <2>7 DEF CatalogInvariant
<1>2. CASE Create BY <1>2, CreateKeeps
<1>3. CASE CreateFails BY <1>3, CreateFailsKeeps
<1>4. CASE Open BY <1>4, OpenKeeps
<1>5. CASE OpenRefused BY <1>1, <1>5 DEF OpenRefused
<1>6. CASE OpenGarbled BY <1>6, OpenGarbledKeeps
<1>7. CASE BeginStore BY <1>7, BeginStoreKeeps
<1>8. CASE \E key \in Keys : StoreName(key) BY <1>8, StoreNameKeeps
<1>9. CASE \E c \in Crcs, flag \in Flags : StoreEntry(c, flag)
  BY <1>9, StoreFoundKeeps, StoreAddedKeeps
<1>10. CASE EndStore BY <1>10, EndStoreKeeps
<1>11. CASE FlushClean BY <1>11, FlushCleanKeeps
<1>12. CASE Flush BY <1>12, FlushKeeps
<1>13. CASE FlushFails BY <1>13, FlushFailsKeeps
<1>14. CASE Crash BY <1>14, CrashKeeps
<1>15. CASE Abandon BY <1>15, AbandonKeeps
<1> QED
  BY <1>1, <1>2, <1>3, <1>4, <1>5, <1>6, <1>7, <1>8, <1>9, <1>10, <1>11, <1>12, <1>13, <1>14,
     <1>15
  DEF Next

-----------------------------------------------------------------------------
(* The theorems.                                                           *)

\* The list in memory, the file and what was stored belong together after
\* every call of catalog.go, in whatever order the calls are made, wherever
\* a write fails and whenever the process ends.
THEOREM CatalogInvariantHolds == Spec => []CatalogInvariant
<1>1. Init => CatalogInvariant BY InitHolds
<1>2. CatalogInvariant /\ [Next]_vars => CatalogInvariant' BY NextKeeps
<1> QED BY <1>1, <1>2, PTL DEF Spec

LEMMA MadeAreRecords == Seq(Made) \subseteq Seq(Record)
<1>1. Made \subseteq Record BY CatalogAssumption DEF Made, Record, Names
<1> QED BY <1>1

\* Every variable keeps its shape: packNames and records of Catalog, the
\* locals of Store, and the cells of the file.
THEOREM TypesHold == Spec => []TypeOK
<1>1. CatalogInvariant => TypeOK
  <2> SUFFICES ASSUME CatalogInvariant PROVE TypeOK OBVIOUS
  <2>1. /\ disk \in ForeignFiles \cup Seq(Cell)
        /\ pc \in {"closed", "open", "store", "garbled"}
        /\ dirty \in BOOLEAN
        /\ packNames \in Seq(Names)
        /\ records \in Seq(Made) /\ added \in Seq(Made) /\ given \in Seq(Made)
        /\ order \in Seq(Keys)
        /\ \A c \in DOMAIN stored : c \in Crcs /\ stored[c] \subseteq Value
        /\ health \in {"whole", "torn", "lost"}
    BY DEF CatalogInvariant, Typed
  <2>2. records \in Seq(Record) /\ added \in Seq(Record) /\ given \in Seq(Record)
    BY <2>1, MadeAreRecords
  <2> QED BY <2>1, <2>2 DEF TypeOK, Names
<1> QED BY <1>1, CatalogInvariantHolds, PTL

\* Search (catalog.go:64-72) finds every path that was stored, and no other,
\* after any Stores, Flushes, failures and openings; and it finds the pack and
\* the compression the path was last stored with, unless the path has several
\* records in a list that is too long to be sorted by insertion.
THEOREM SearchFinds == Spec => []SearchFindsStored
<1>1. CatalogInvariant => SearchFindsStored
  BY DEF CatalogInvariant, WhenOpen, SearchFindsStored
<1> QED BY <1>1, CatalogInvariantHolds, PTL

\* No record is left without the name of its pack, so that writeRecord
\* (catalog.go:215-218) never stops a Flush behind the head of the file.
THEOREM RecordsAreNamed == Spec => []RecordsNamed
<1>1. CatalogInvariant => RecordsNamed
  <2> SUFFICES ASSUME CatalogInvariant PROVE RecordsNamed OBVIOUS
  <2>1. CASE pc \in {"open", "store"}
    BY <2>1 DEF CatalogInvariant, InMemory, Distinct, NamedIn, RecordsNamed, Contains
  <2>2. CASE pc \in {"closed", "garbled"}
    <3>1. packNames = << >> /\ records = << >> BY <2>2 DEF CatalogInvariant, OnDisk
    <3>2. DOMAIN << >> = {} OBVIOUS
    <3> QED BY <3>1, <3>2 DEF RecordsNamed
  <2> QED BY <2>1, <2>2 DEF CatalogInvariant, Typed
<1> QED BY <1>1, CatalogInvariantHolds, PTL

\* The tree indices that UpdateIndices fills in (catalog.go:189) are those
\* of the list as it was sorted.
THEOREM NodesFitTheList == Spec => []NodesFit
<1>1. CatalogInvariant => NodesFit
  BY DEF CatalogInvariant, WhenOpen, NodesFit, Indexed
<1> QED BY <1>1, CatalogInvariantHolds, PTL

\* A clean catalog is in its file, and a closed one with no Flush left
\* unfinished: NewCatalog reads it back (catalog.go:239-269, 301-343).
THEOREM CleanIsDurable == Spec => []Durable
<1>1. CatalogInvariant => Durable
  <2> SUFFICES ASSUME CatalogInvariant, ~dirty, pc = "open" \/ health = "whole",
                      DOMAIN stored # {}
               PROVE  Readable /\ Serves(DiskRecords, stored)
    BY DEF Durable
  <2>1. CASE pc = "open"
    <3>1. WholeFile /\ Untorn /\ disk \in Seq(Cell) /\ Serves(DiskRecords, stored)
      BY <2>1 DEF CatalogInvariant, InMemory, WhenOpen
    <3> QED BY <3>1, ReadableMeans
  <2>2. CASE pc = "store" BY <2>2 DEF CatalogInvariant, WhenStoring
  <2>3. CASE pc \in {"closed", "garbled"}
    <3>1. Acceptable /\ WholeFile /\ Untorn /\ Serves(DiskRecords, stored)
      BY <2>3 DEF CatalogInvariant, OnDisk
    <3>2. disk \in Seq(Cell) BY <3>1, AcceptableTyped DEF CatalogInvariant
    <3> QED BY <3>1, <3>2, ReadableMeans
  <2> QED BY <2>1, <2>2, <2>3 DEF CatalogInvariant, Typed
<1> QED BY <1>1, CatalogInvariantHolds, PTL

\* Flush writes over all of the old file without truncating it
\* (catalog.go:239-269): behind the last record there is nothing.
THEOREM NothingLeftBehind == Spec => []NothingBehind
<1>1. CatalogInvariant => NothingBehind
  BY DEF CatalogInvariant, InMemory, WholeFile, NothingBehind
<1> QED BY <1>1, CatalogInvariantHolds, PTL

\* A file that a failed Flush left behind and that can be opened: each record
\* that is not itself written in part is one that was in the file or in
\* memory, and of the paths that were saved none is missing but that of such
\* a record, wherever inside its cells the writes of Flush stopped
\* (catalog.go:100, 239-269).
THEOREM OldOrNewIsRead == Spec => []OldOrNew
<1>1. CatalogInvariant => OldOrNew
  <2> SUFFICES ASSUME CatalogInvariant, health = "torn", Acceptable
               PROVE  /\ \A i \in 1..NumRecords :
                            <<DiskRecords[i].Crc, ValueOf(DiskRecords[i])>> \in begun.values
                      /\ begun.paths \subseteq Paths(DiskRecords)
    BY DEF OldOrNew
  <2>1. Pairs(DiskRecords) \subseteq begun.values /\ begun.paths \subseteq Paths(DiskRecords)
    BY DEF CatalogInvariant, WhenTorn
  <2>2. DOMAIN DiskRecords = 1..NumRecords BY DEF DiskRecords
  <2> QED BY <2>1, <2>2 DEF Pairs
<1> QED BY <1>1, CatalogInvariantHolds, PTL
=============================================================================
