------------------------------- MODULE Lists -------------------------------
(***************************************************************************)
(* What the two logs do with Python lists.                                 *)
(***************************************************************************)
EXTENDS Integers, Sequences

Smaller(a, b) == IF a < b THEN a ELSE b

\* list slicing: the elements with index a up to, not including, b, from 0.
Slice(s, a, b) == SubSeq(s, a + 1, b)

\* The numbers of K, which are in 1 .. n, in ascending order: a loop over a
\* list that appends what it keeps.
Ascending(K, n) ==
    LET kept[i \in 0 .. n] ==
            IF i = 0 THEN <<>>
            ELSE IF i \in K THEN Append(kept[i - 1], i) ELSE kept[i - 1]
    IN  kept[n]

\* The elements of s at the places in K.
Picked(s, K) ==
    LET places == Ascending(K, Len(s)) IN [k \in DOMAIN places |-> s[places[k]]]
=============================================================================
