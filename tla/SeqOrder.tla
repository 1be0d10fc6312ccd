------------------------------ MODULE SeqOrder ------------------------------
(***************************************************************************)
(* Ordered selections from finite sets and sequences, the counterparts of  *)
(* Rust's VecDeque::retain, Iterator::filter and "push in the order of     *)
(* first encounter".  They are defined by ranks rather than by recursion   *)
(* (SelectSeq, folds), so that what they return can be proved for          *)
(* sequences of every length; the module MCBlockPool checks on short       *)
(* sequences that Retain is the library's SelectSeq.                       *)
(***************************************************************************)
EXTENDS Integers, Sequences, FiniteSets, Functions

(* The elements of the finite set D in the order of R, a set of pairs that *)
(* is a strict total order on D: the k-th one has k - 1 predecessors.      *)
Predecessors(D, R, d) == {e \in D : <<e, d>> \in R}

Enumerate(D, R) ==
  [k \in 1 .. Cardinality(D) |->
     CHOOSE d \in D : Cardinality(Predecessors(D, R, d)) = k - 1]

(* The order of the natural numbers, on I.                                 *)
Ascending(I) == {p \in I \X I : p[1] < p[2]}

(* The numbers of the finite set I, from the least to the greatest.        *)
InOrder(I) == Enumerate(I, Ascending(I))

(* The elements of s that belong to S, in the order they have in s.        *)
Retain(s, S) ==
  LET I == {i \in DOMAIN s : s[i] \in S}
      at == Enumerate(I, Ascending(I))
  IN  [k \in 1 .. Cardinality(I) |-> s[at[k]]]

NoDuplicates(s) == \A i, j \in DOMAIN s : i # j => s[i] # s[j]

(* The place of an element in a sequence without duplicates.               *)
PositionIn(s, e) == CHOOSE i \in DOMAIN s : s[i] = e

(* Walking each sequence of ss from its end to its start, one after the    *)
(* other, a is met for the first time before b is.                         *)
Met(ss, a) == {i \in DOMAIN ss : a \in Range(ss[i])}

MetFirst(ss, a) == CHOOSE i \in Met(ss, a) : \A j \in Met(ss, a) : i <= j

MetBefore(ss, a, b) ==
  \/ MetFirst(ss, a) < MetFirst(ss, b)
  \/ /\ MetFirst(ss, a) = MetFirst(ss, b)
     /\ PositionIn(ss[MetFirst(ss, a)], a) > PositionIn(ss[MetFirst(ss, b)], b)

(* The members of D in the order in which that walk meets them.            *)
WalkOrder(ss, D) == Enumerate(D, {p \in D \X D : MetBefore(ss, p[1], p[2])})

(* The sum of the first n numbers of f, and of all of them (Iterator::sum).*)
SumTo(f, n) ==
  LET sum[i \in 0 .. n] == IF i = 0 THEN 0 ELSE sum[i - 1] + f[i] IN sum[n]

Total(f) == SumTo(f, Len(f))
=============================================================================
