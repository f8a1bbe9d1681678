-------------------------- MODULE BinaryTreeProofs --------------------------
(***************************************************************************)
(* The tree indices of a list of any length lead to every record, in a     *)
(* logarithmic number of steps.                                            *)
(*                                                                         *)
(* A recursive function is what its definition says only if some function  *)
(* is.  That is proved first, from the fact that each call is for a        *)
(* smaller number: any set of natural numbers has a smallest, so there is  *)
(* none for which the calls up to it have no result, or two.               *)
(***************************************************************************)
EXTENDS BinaryTree, WellFoundedInduction, TLAPS

LEMMA Smallest ==
    ASSUME NEW S \in SUBSET Nat, S # {}
    PROVE  \E x \in S : \A y \in S : x <= y
<1> DEFINE R == OpToRel(<, Nat)
<1>1. \A x, y \in Nat : <<x, y>> \in R <=> x < y
  BY DEF OpToRel
<1>2. IsWellFoundedOn(R, Nat)
  BY NatLessThanWellFounded
<1> HIDE DEF R
<1>3. PICK x \in S : \A y \in S : <<y, x>> \notin R
  BY <1>2, WFMin
<1>4. ASSUME NEW y \in S PROVE x <= y
  <2>1. ~(y < x)
    BY <1>1, <1>3
  <2>2. QED
    BY <2>1
<1>5. QED
  BY <1>4

-----------------------------------------------------------------------------
(* updateNodeIndices exists.                                               *)

\* What a call for n nodes returns, when g is what the calls for fewer do.
Result(g, n) == [bottom \in Nat |->
    IF n = 0 THEN [root |-> None, nodes |-> [i \in {} |-> None]]
    ELSE LET center == Center(n)
             below  == g[center][bottom]
             above  == g[n - (center + 1)][center + 1 + bottom]
         IN  [root  |-> Root(center, bottom),
              nodes |-> [i \in bottom .. bottom + n - 1 |->
                  IF i < center + bottom THEN below.nodes[i]
                  ELSE IF i > center + bottom THEN above.nodes[i]
                  ELSE [LowerIndex |-> below.root, UpperIndex |-> above.root]]]]

LEMMA Halves ==
    ASSUME NEW n \in Nat, n # 0
    PROVE  /\ Center(n) \in 0 .. n - 1 /\ n - (Center(n) + 1) \in 0 .. n - 1
           /\ 2 * Center(n) <= n /\ 2 * (n - (Center(n) + 1)) <= n
BY DEF Center

LEMMA ResultIs ==
    ASSUME NEW g, NEW h, NEW n \in Nat, \A m \in 0 .. n - 1 : g[m] = h[m]
    PROVE  Result(g, n) = Result(h, n)
<1>1. CASE n = 0
  BY <1>1 DEF Result
<1>2. CASE n # 0
  <2>1. g[Center(n)] = h[Center(n)] /\ g[n - (Center(n) + 1)] = h[n - (Center(n) + 1)]
    BY <1>2, Halves
  <2>2. QED
    BY <1>2, <2>1 DEF Result
<1>3. QED
  BY <1>1, <1>2

\* g is the function up to n.
UpTo(g, n) == DOMAIN g = 0 .. n /\ \A m \in 0 .. n : g[m] = Result(g, m)

LEMMA OneUpTo ==
    ASSUME NEW n \in Nat, NEW k \in Nat, n <= k, NEW g, UpTo(g, n), NEW h, UpTo(h, k)
    PROVE  \A m \in 0 .. n : g[m] = h[m]
<1> DEFINE S == {m \in 0 .. n : g[m] # h[m]}
<1> SUFFICES ASSUME S # {} PROVE FALSE
  OBVIOUS
<1>1. PICK m \in S : \A l \in S : m <= l
  <2>1. S \in SUBSET Nat
    OBVIOUS
  <2>2. QED
    BY <2>1, Smallest
<1>2. m \in 0 .. n /\ m \in 0 .. k /\ m \in Nat
  OBVIOUS
<1>3. \A l \in 0 .. m - 1 : g[l] = h[l]
  BY <1>1
<1>4. Result(g, m) = Result(h, m)
  BY <1>2, <1>3, ResultIs
<1>5. g[m] = h[m]
  BY <1>2, <1>4 DEF UpTo
<1>6. QED
  BY <1>5

LEMMA SomeUpTo == ASSUME NEW n \in Nat PROVE \E g : UpTo(g, n)
<1> DEFINE S == {m \in Nat : ~\E g : UpTo(g, m)}
<1> SUFFICES ASSUME S # {} PROVE FALSE
  OBVIOUS
<1>1. PICK m \in S : \A l \in S : m <= l
  BY Smallest
<1>2. \E g : \A l \in 0 .. m - 1 : g[l] = Result(g, l)
  <2>1. CASE m = 0
    BY <2>1
  <2>2. CASE m # 0
    <3>1. m - 1 \in Nat /\ m - 1 \notin S
      BY <1>1, <2>2
    <3>2. QED
      BY <3>1 DEF UpTo
  <2>3. QED
    BY <2>1, <2>2
<1>3. PICK g : \A l \in 0 .. m - 1 : g[l] = Result(g, l)
  BY <1>2
<1> DEFINE h == [l \in 0 .. m |-> IF l < m THEN g[l] ELSE Result(g, m)]
<1>4. \A l \in 0 .. m - 1 : h[l] = g[l]
  OBVIOUS
<1>5. h[m] = Result(g, m) /\ DOMAIN h = 0 .. m
  OBVIOUS
<1> HIDE DEF h
<1>6. ASSUME NEW l \in 0 .. m PROVE h[l] = Result(h, l)
  <2>1. l \in Nat /\ \A j \in 0 .. l - 1 : g[j] = h[j]
    BY <1>4
  <2>2. Result(g, l) = Result(h, l)
    BY <2>1, ResultIs
  <2>3. l \in 0 .. m - 1 \/ l = m
    OBVIOUS
  <2>4. QED
    BY <1>3, <1>4, <1>5, <2>2, <2>3
<1>7. UpTo(h, m)
  BY <1>5, <1>6 DEF UpTo
<1>8. QED
  BY <1>7

LEMMA ResultExists == \E f : f = [n \in Nat |-> Result(f, n)]
<1> DEFINE G(n) == CHOOSE g : UpTo(g, n)
           f == [n \in Nat |-> G(n)[n]]
<1>1. \A n \in Nat : UpTo(G(n), n)
  BY SomeUpTo
<1>2. \A n \in Nat : f[n] = G(n)[n]
  OBVIOUS
<1> HIDE DEF G
<1>3. DOMAIN f = Nat /\ f = [n \in Nat |-> f[n]]
  OBVIOUS
<1> HIDE DEF f
<1>4. ASSUME NEW n \in Nat PROVE f[n] = Result(f, n)
  <2>1. ASSUME NEW m \in 0 .. n - 1 PROVE f[m] = G(n)[m]
    <3>1. m \in Nat /\ m <= n /\ m \in 0 .. m
      OBVIOUS
    <3>2. G(m)[m] = G(n)[m]
      BY <1>1, <3>1, OneUpTo
    <3>3. QED
      BY <1>2, <3>1, <3>2
  <2>2. Result(f, n) = Result(G(n), n)
    BY <2>1, ResultIs
  <2>3. G(n)[n] = Result(G(n), n)
    BY <1>1 DEF UpTo
  <2>4. QED
    BY <1>2, <2>2, <2>3
<1>5. QED
  BY <1>3, <1>4

LEMMA updateNodeIndicesIs ==
    ASSUME NEW n \in Nat
    PROVE  updateNodeIndices[n] = Result(updateNodeIndices, n)
<1>1. updateNodeIndices = CHOOSE f : f = [m \in Nat |-> Result(f, m)]
  BY DEF updateNodeIndices, Result
<1>2. updateNodeIndices = [m \in Nat |-> Result(updateNodeIndices, m)]
  BY <1>1, ResultExists
<1>3. QED
  BY <1>2

-----------------------------------------------------------------------------
(* PowerOf2 exists.                                                        *)

Doubles(g, n) == g[0] = 1 /\ \A m \in 1 .. n : g[m] = 2 * g[m - 1]

LEMMA OneDoubles ==
    ASSUME NEW n \in Nat, NEW k \in Nat, n <= k, NEW g, Doubles(g, n), NEW h, Doubles(h, k)
    PROVE  \A m \in 0 .. n : g[m] = h[m]
<1> DEFINE S == {m \in 0 .. n : g[m] # h[m]}
<1> SUFFICES ASSUME S # {} PROVE FALSE
  OBVIOUS
<1>1. PICK m \in S : \A l \in S : m <= l
  <2>1. S \in SUBSET Nat
    OBVIOUS
  <2>2. QED
    BY <2>1, Smallest
<1>2. CASE m = 0
  BY <1>2 DEF Doubles
<1>3. CASE m # 0
  <2>1. m \in 1 .. n /\ m \in 1 .. k /\ m - 1 \in 0 .. n /\ ~(m <= m - 1)
    BY <1>3
  <2>2. g[m - 1] = h[m - 1]
    BY <1>1, <2>1
  <2>3. QED
    BY <2>1, <2>2 DEF Doubles
<1>4. QED
  BY <1>2, <1>3

LEMMA SomeDoubles == ASSUME NEW n \in Nat PROVE \E g : Doubles(g, n)
<1> DEFINE S == {m \in Nat : ~\E g : Doubles(g, m)}
<1> SUFFICES ASSUME S # {} PROVE FALSE
  OBVIOUS
<1>1. PICK m \in S : \A l \in S : m <= l
  BY Smallest
<1>2. m # 0
  <2>1. Doubles([l \in {0} |-> 1], 0)
    BY DEF Doubles
  <2>2. QED
    BY <1>1, <2>1
<1>3. PICK g : Doubles(g, m - 1)
  <2>1. m - 1 \in Nat /\ ~(m <= m - 1)
    BY <1>2
  <2>2. QED
    BY <1>1, <2>1
<1> DEFINE h == [l \in 0 .. m |-> IF l < m THEN g[l] ELSE 2 * g[m - 1]]
<1>4. /\ \A l \in 0 .. m - 1 : h[l] = g[l]
      /\ h[m] = 2 * g[m - 1]
  OBVIOUS
<1> HIDE DEF h
<1>5. h[0] = 1
  BY <1>2, <1>3, <1>4 DEF Doubles
<1>6. ASSUME NEW l \in 1 .. m PROVE h[l] = 2 * h[l - 1]
  <2>1. h[l - 1] = g[l - 1]
    <3>1. l - 1 \in 0 .. m - 1
      OBVIOUS
    <3>2. QED
      BY <1>4, <3>1
  <2>2. CASE l = m
    BY <1>4, <2>1, <2>2
  <2>3. CASE l # m
    <3>1. l \in 1 .. m - 1 /\ l \in 0 .. m - 1
      BY <2>3
    <3>2. QED
      BY <1>3, <1>4, <2>1, <3>1 DEF Doubles
  <2>4. QED
    BY <2>2, <2>3
<1>7. QED
  BY <1>5, <1>6 DEF Doubles

LEMMA DoublingExists == \E f : f = [n \in Nat |-> IF n = 0 THEN 1 ELSE 2 * f[n - 1]]
<1> DEFINE G(n) == CHOOSE g : Doubles(g, n)
           f == [n \in Nat |-> G(n)[n]]
<1>1. \A n \in Nat : Doubles(G(n), n)
  BY SomeDoubles
<1>2. \A n \in Nat : f[n] = G(n)[n]
  OBVIOUS
<1> HIDE DEF G
<1>3. f = [n \in Nat |-> f[n]]
  OBVIOUS
<1> HIDE DEF f
<1>4. ASSUME NEW n \in Nat PROVE f[n] = IF n = 0 THEN 1 ELSE 2 * f[n - 1]
  <2>1. CASE n = 0
    BY <1>1, <1>2, <2>1 DEF Doubles
  <2>2. CASE n # 0
    <3>1. n - 1 \in Nat /\ n - 1 <= n /\ n - 1 \in 0 .. n - 1 /\ n \in 1 .. n
      BY <2>2
    <3>2. G(n - 1)[n - 1] = G(n)[n - 1]
      BY <1>1, <3>1, OneDoubles
    <3>3. G(n)[n] = 2 * G(n)[n - 1]
      BY <1>1, <3>1 DEF Doubles
    <3>4. f[n] = 2 * f[n - 1]
      BY <1>2, <3>1, <3>2, <3>3
    <3>5. QED
      BY <2>2, <3>4
  <2>3. QED
    BY <2>1, <2>2
<1>5. QED
  BY <1>3, <1>4

LEMMA PowerOf2Is ==
    /\ PowerOf2[0] = 1
    /\ \A n \in Nat : PowerOf2[n + 1] = 2 * PowerOf2[n]
    /\ \A n \in Nat : PowerOf2[n] \in Nat \ {0}
<1>1. PowerOf2 = [n \in Nat |-> IF n = 0 THEN 1 ELSE 2 * PowerOf2[n - 1]]
  BY DoublingExists DEF PowerOf2
<1>2. PowerOf2[0] = 1
  BY <1>1
<1>3. ASSUME NEW n \in Nat PROVE PowerOf2[n + 1] = 2 * PowerOf2[n]
  <2>1. n + 1 \in Nat /\ n + 1 # 0 /\ (n + 1) - 1 = n
    OBVIOUS
  <2>2. QED
    BY <1>1, <2>1
<1>4. \A n \in Nat : PowerOf2[n] \in Nat \ {0}
  <2> DEFINE S == {m \in Nat : PowerOf2[m] \notin Nat \ {0}}
  <2> SUFFICES ASSUME S # {} PROVE FALSE
    OBVIOUS
  <2>1. PICK m \in S : \A l \in S : m <= l
    BY Smallest
  <2>2. m # 0
    BY <1>2
  <2>3. m - 1 \in Nat /\ ~(m <= m - 1) /\ (m - 1) + 1 = m
    BY <2>2
  <2>4. PowerOf2[m - 1] \in Nat \ {0} /\ PowerOf2[m] = 2 * PowerOf2[m - 1]
    BY <1>3, <2>1, <2>3
  <2>5. QED
    BY <2>1, <2>4
<1>5. QED
  BY <1>2, <1>3, <1>4

-----------------------------------------------------------------------------
(* The search.                                                             *)

\* The tree of a slice: its root is the center, and the indices are those of
\* the trees below and above, but for the root's.
LEMMA TreeIs ==
    ASSUME NEW n \in Nat, n # 0, NEW bottom \in Nat
    PROVE  LET tree  == updateNodeIndices[n][bottom]
               below == updateNodeIndices[Center(n)][bottom]
               above == updateNodeIndices[n - (Center(n) + 1)][Center(n) + 1 + bottom]
           IN  /\ tree.root = Center(n) + bottom
               /\ \A i \in bottom .. bottom + n - 1 :
                     tree.nodes[i] =
                        IF i < Center(n) + bottom THEN below.nodes[i]
                        ELSE IF i > Center(n) + bottom THEN above.nodes[i]
                        ELSE [LowerIndex |-> below.root, UpperIndex |-> above.root]
<1>1. updateNodeIndices[n][bottom] = Result(updateNodeIndices, n)[bottom]
  BY updateNodeIndicesIs
<1>2. QED
  BY <1>1 DEF Result, Root

LEMMA Product ==
    ASSUME NEW m \in Nat, NEW n \in Nat, NEW p \in Nat, NEW q \in Nat, 2 * m <= n, n * p <= q
    PROVE  m * (2 * p) <= q
<1>1. PICK d \in Nat : n = 2 * m + d
  <2>1. n - 2 * m \in Nat /\ n = 2 * m + (n - 2 * m)
    OBVIOUS
  <2>2. QED
    BY <2>1
<1>2. d * p \in Nat /\ m * (2 * p) \in Nat
  OBVIOUS
<1>3. n * p = m * (2 * p) + d * p
  BY <1>1
<1>4. QED
  BY <1>2, <1>3

\* The part of a slice on the target's side of its root.
LEMMA Narrows ==
    ASSUME Searching, NEW n \in 1 .. length, NEW bottom \in 0 .. length, InSlice(n, bottom),
           at # target,
           at' = IF target < at THEN UpdateIndices(length)[at].LowerIndex
                 ELSE UpdateIndices(length)[at].UpperIndex,
           steps' = steps + 1, UNCHANGED <<length, target>>
    PROVE  Searching'
<1> DEFINE c == Center(n)
           U == UpdateIndices(length)
<1>1. /\ length \in Nat /\ target \in Nat /\ steps \in Nat /\ n \in Nat /\ n # 0 /\ bottom \in Nat
      /\ bottom <= target /\ target < bottom + n /\ bottom + n <= length
      /\ at = updateNodeIndices[n][bottom].root
      /\ \A i \in bottom .. bottom + n - 1 : U[i] = updateNodeIndices[n][bottom].nodes[i]
      /\ n * PowerOf2[steps] <= length
  BY DEF Searching, InSlice
<1>2. /\ c \in 0 .. n - 1 /\ n - (c + 1) \in 0 .. n - 1
      /\ 2 * c <= n /\ 2 * (n - (c + 1)) <= n
  BY <1>1, Halves
<1>3. /\ at = c + bottom
      /\ \A i \in bottom .. bottom + n - 1 :
            U[i] = IF i < c + bottom THEN updateNodeIndices[c][bottom].nodes[i]
                   ELSE IF i > c + bottom
                        THEN updateNodeIndices[n - (c + 1)][c + 1 + bottom].nodes[i]
                   ELSE [LowerIndex |-> updateNodeIndices[c][bottom].root,
                         UpperIndex |-> updateNodeIndices[n - (c + 1)][c + 1 + bottom].root]
  BY <1>1, TreeIs
<1>4. /\ steps' \in Nat /\ PowerOf2[steps'] = 2 * PowerOf2[steps] /\ PowerOf2[steps] \in Nat
      /\ length' = length /\ target' = target
  BY <1>1, PowerOf2Is
<1> HIDE DEF c, U
<1>5. c + bottom \in bottom .. bottom + n - 1
  BY <1>1, <1>2
<1>6. CASE target < at
  <2>1. at' = updateNodeIndices[c][bottom].root
    BY <1>3, <1>5, <1>6 DEF U
  <2>2. c \in 1 .. length' /\ bottom \in 0 .. length' /\ target < bottom + c /\ bottom + c <= length
    BY <1>1, <1>2, <1>3, <1>4, <1>6
  <2>3. c * PowerOf2[steps'] <= length
    BY <1>1, <1>2, <1>4, Product
  <2>4. \A i \in bottom .. bottom + c - 1 : U[i] = updateNodeIndices[c][bottom].nodes[i]
    <3>1. \A i \in bottom .. bottom + c - 1 :
             i \in bottom .. bottom + n - 1 /\ i < c + bottom
      BY <1>1, <1>2
    <3>2. QED
      BY <1>3, <3>1
  <2>5. InSlice(c, bottom)'
    BY <1>1, <1>4, <2>1, <2>2, <2>3, <2>4 DEF InSlice, U, UpdateIndices
  <2>6. QED
    BY <1>1, <1>4, <2>2, <2>5 DEF Searching
<1>7. CASE ~(target < at)
  <2> DEFINE m == n - (c + 1)
             b == c + 1 + bottom
  <2>1. at' = updateNodeIndices[m][b].root
    BY <1>3, <1>5, <1>7 DEF U
  <2>2. target > c + bottom
    BY <1>1, <1>2, <1>3, <1>7
  <2>3. m \in Nat /\ b \in Nat /\ b + m = bottom + n /\ 2 * m <= n
    BY <1>1, <1>2
  <2>4. \A i \in b .. b + m - 1 : i \in bottom .. bottom + n - 1 /\ i > c + bottom /\ ~(i < c + bottom)
    BY <1>1, <1>2
  <2>5. b <= target
    BY <1>1, <1>2, <2>2
  <2>6. \A i \in b .. b + m - 1 : U[i] = updateNodeIndices[m][b].nodes[i]
    BY <1>3, <2>4
  <2> HIDE DEF m, b
  <2>7. m \in 1 .. length /\ b \in 0 .. length /\ target < b + m /\ b + m <= length
    BY <1>1, <2>3, <2>5
  <2>8. m * PowerOf2[steps'] <= length
    BY <1>1, <1>4, <2>3, Product
  <2>9. InSlice(m, b)'
    BY <1>1, <1>4, <2>1, <2>5, <2>6, <2>7, <2>8 DEF InSlice, U, UpdateIndices
  <2>10. QED
    BY <1>1, <1>4, <2>7, <2>9 DEF Searching
<1>8. QED
  BY <1>6, <1>7

\* The search is always at the root of the tree of a slice that has the
\* record, and halves it in every step: the inductive invariant.
THEOREM SearchNarrows == Spec => []Searching
<1>1. Init => Searching
  <2> SUFFICES ASSUME Init PROVE Searching
    OBVIOUS
  <2>1. /\ length \in Nat /\ length \in 1 .. length /\ target \in Nat /\ target < length
        /\ 0 \in 0 .. length /\ steps = 0
    BY LengthAssumption DEF Init
  <2>2. length * PowerOf2[steps] <= length
    BY <2>1, PowerOf2Is
  <2>3. InSlice(length, 0)
    BY <2>1, <2>2 DEF Init, InSlice, UpdateIndices
  <2>4. QED
    BY <2>1, <2>3 DEF Searching
<1>2. Searching /\ [Next]_vars => Searching'
  <2> SUFFICES ASSUME Searching, [Next]_vars PROVE Searching'
    OBVIOUS
  <2>1. CASE UNCHANGED vars
    BY <2>1 DEF vars, Searching, InSlice
  <2>2. CASE Next
    <3>1. PICK n \in 1 .. length, bottom \in 0 .. length : InSlice(n, bottom)
      BY DEF Searching
    <3>2. QED
      BY <2>2, <3>1, Narrows DEF Next, Descend
  <2>3. QED
    BY <2>1, <2>2
<1>3. QED
  BY <1>1, <1>2, PTL DEF Spec

\* A search that follows the indices meets records of the list only, until it
\* has found the one it looks for: no index leads out of the list or to a
\* part that does not have the record, for lists of every length.
THEOREM EveryRecordIsReached == Spec => []NeverLost
<1>1. Searching => NeverLost
  <2> SUFFICES ASSUME Searching PROVE at \in 0 .. length - 1
    BY DEF NeverLost
  <2>1. PICK n \in 1 .. length, bottom \in 0 .. length : InSlice(n, bottom)
    BY DEF Searching
  <2>2. length \in Nat /\ n \in Nat /\ n # 0 /\ bottom \in Nat /\ bottom + n <= length
        /\ at = updateNodeIndices[n][bottom].root
    BY <2>1 DEF Searching, InSlice
  <2>3. at = Center(n) + bottom /\ Center(n) \in 0 .. n - 1
    BY <2>2, TreeIs, Halves
  <2>4. QED
    BY <2>2, <2>3
<1>2. QED
  BY <1>1, SearchNarrows, PTL

\* The number of steps is at most the logarithm of the length.
THEOREM SearchIsLogarithmic == Spec => []Logarithmic
<1>1. Searching => Logarithmic
  <2> SUFFICES ASSUME Searching PROVE PowerOf2[steps] <= length
    BY DEF Logarithmic
  <2>1. PICK n \in 1 .. length, bottom \in 0 .. length : InSlice(n, bottom)
    BY DEF Searching
  <2> DEFINE p == PowerOf2[steps]
  <2>2. length \in Nat /\ n \in Nat /\ n >= 1 /\ n * p <= length /\ p \in Nat
    BY <2>1, PowerOf2Is DEF Searching, InSlice
  <2> HIDE DEF p
  <2>3. PICK d \in Nat : n = d + 1
    <3>1. n - 1 \in Nat /\ n = (n - 1) + 1
      BY <2>2
    <3>2. QED
      BY <3>1
  <2>4. n * p = d * p + p /\ d * p \in Nat
    BY <2>2, <2>3
  <2>5. p <= length
    BY <2>2, <2>4
  <2>6. QED
    BY <2>5 DEF p
<1>2. QED
  BY <1>1, SearchNarrows, PTL
=============================================================================
