---------------------------- MODULE MCBlockPool ----------------------------
(***************************************************************************)
(* Instances of BlockPool for TLC.                                         *)
(***************************************************************************)
EXTENDS BlockPool, TLC

CONSTANTS s1, s2      \* model values for SeqId

(* The pool treats sequences alike and every order of a batch is tried.    *)
SeqSymmetry == Permutations(SeqId)

(* Every sequence over Tok whose length is between m and n.                *)
MCSeqs(Tok, m, n) == UNION {[1 .. k -> Tok] : k \in m .. n}

(* A hash that hits the sentinel for some blocks and collides for others.  *)
SentinelHash(prefix, ts) == IF ts[1] = 0 THEN NoHash ELSE 0

MCPrompt == {<<0, 0>>, <<0, 1>>, <<1>>}

MCHashVal == {NoHash, 0}

(* Retain is the library's filter.                                         *)
ASSUME RetainIsSelectSeq ==
  \A s \in MCSeqs({1, 2, 3}, 0, 4), S \in SUBSET {1, 2, 3} :
    Retain(s, S) = SelectSeq(s, LAMBDA e : e \in S)

=============================================================================
