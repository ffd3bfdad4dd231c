----------------------------- MODULE LinkedList -----------------------------
(* A doubly linked list of IPQ or RPQ structures (msphash.c), as the        *)
(* sequence of the memory cells that hold them.                             *)
EXTENDS Integers, Sequences

Cells(q) == {q[i] : i \in 1..Len(q)}

\* Mutants: a new entry goes to the front; an entry stays in the list.
LinkFirst(q, a) == <<a>> \o q
UnlinkNothing(q, a) == q

\* A new entry goes to the end.
Link(q, a) == Append(q, a)

\* The list without the cell a, if it is there.
Unlink(q, a) ==
    IF a \notin Cells(q) THEN q
    ELSE LET i == CHOOSE j \in 1..Len(q) : q[j] = a
         IN  [j \in 1..(Len(q) - 1) |-> IF j < i THEN q[j] ELSE q[j + 1]]

\* The sum of w[a] over the cells a of the list, in its order.
Total(q, w) ==
    LET sum[i \in 0..Len(q)] == IF i = 0 THEN 0 ELSE sum[i - 1] + w[q[i]]
    IN  sum[Len(q)]
=============================================================================
