----------------------------- MODULE BinaryTree -----------------------------
(***************************************************************************)
(* archive/internal/binarytree: the indices that make a list sorted by CRC *)
(* a binary search tree, and the search of a program that follows them     *)
(* instead of bisecting the list, which is what they are stored for.       *)
(*                                                                         *)
(* Positions count from 0 as in the code; -1 is no node.                   *)
(***************************************************************************)
EXTENDS Integers

CONSTANT MaxLength      \* bound: no longer list is looked at

ASSUME LengthAssumption == MaxLength \in Nat

VARIABLES
    length,     \* of the list
    target,     \* the position of the record that is looked for
    at,         \* the node the search looks at
    steps       \* the nodes it has looked at before

vars == <<length, target, at, steps>>

None == -1

\* Mutant: the last node is taken for the root.
LastNode(n) == n - 1

Center(n) == n \div 2

\* Mutant: positions are relative to the half.
CenterOfHalf(center, bottom) == center

\* What a call returns: the position of the root in the whole list.
Root(center, bottom) == center + bottom

\* What updateNodeIndices does with n nodes that start at position bottom of
\* the list: the position it returns and the indices it fills in.
updateNodeIndices[n \in Nat] == [bottom \in Nat |->
    IF n = 0 THEN [root |-> None, nodes |-> [i \in {} |-> None]]
    ELSE LET center == Center(n)
             below  == updateNodeIndices[center][bottom]
             above  == updateNodeIndices[n - (center + 1)][center + 1 + bottom]
         IN  [root  |-> Root(center, bottom),
              nodes |-> [i \in bottom .. bottom + n - 1 |->
                  IF i < center + bottom THEN below.nodes[i]
                  ELSE IF i > center + bottom THEN above.nodes[i]
                  ELSE [LowerIndex |-> below.root, UpperIndex |-> above.root]]]]

UpdateIndices(n) == updateNodeIndices[n][0].nodes

Init ==
    /\ length \in 1 .. MaxLength
    /\ target \in 0 .. length - 1
    /\ at = updateNodeIndices[length][0].root
    /\ steps = 0

\* CRCs compare as positions do, for the list is strictly sorted.
Descend ==
    LET node == UpdateIndices(length)[at]
    IN  /\ at \notin {None, target}
        /\ at' = IF target < at THEN node.LowerIndex ELSE node.UpperIndex
        /\ steps' = steps + 1
        /\ UNCHANGED <<length, target>>

Next == Descend

Spec == Init /\ [][Next]_vars

-----------------------------------------------------------------------------
\* The search meets nodes of the list only, never a dead end before it has
\* found the record: all records are reachable from the root, in CRC order.
NeverLost == at \in 0 .. length - 1

PowerOf2[d \in Nat] == IF d = 0 THEN 1 ELSE 2 * PowerOf2[d - 1]

\* The tree is balanced, so that the search ends: a list of up to 2^d - 1
\* records is searched in less than d steps.
Logarithmic == PowerOf2[steps] <= length

\* Why: the search is always at the root of the tree of a slice of the list
\* that has the record, and halves that slice in every step.
InSlice(n, bottom) ==
    LET tree == updateNodeIndices[n][bottom]
    IN  /\ bottom <= target /\ target < bottom + n /\ bottom + n <= length
        /\ at = tree.root
        /\ \A i \in bottom .. bottom + n - 1 : UpdateIndices(length)[i] = tree.nodes[i]
        /\ n * PowerOf2[steps] <= length

Searching ==
    /\ length \in Nat /\ target \in Nat /\ steps \in Nat
    /\ \E n \in 1 .. length, bottom \in 0 .. length : InSlice(n, bottom)
=============================================================================
