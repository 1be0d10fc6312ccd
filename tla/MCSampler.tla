----------------------------- MODULE MCSampler -----------------------------
(* Rows that meet every path of the sampler, alone and as batch-mates.     *)
EXTENDS Sampler

Logits(a, b, c, d) == (0 :> a) @@ (1 :> b) @@ (2 :> c) @@ (3 :> d)

Greedy == [temp |-> 0, topK |-> NoTopK, topP |-> PUnit,
           pres |-> 0, freq |-> 0, rep |-> 0]

Row(l, p, h) == [logits |-> l, params |-> p, history |-> h]

MCRows == {
  Row(Logits(4, 8, 8, 0), Greedy, <<>>),
  Row(Logits(8, 8, 4, 4), [Greedy EXCEPT !.temp = 4, !.topK = 3], <<2>>),
  Row(Logits(4, 8, 8, 8), [Greedy EXCEPT !.temp = 4, !.topP = 3], <<>>),
  Row(Logits(8, 4, 8, 8), [Greedy EXCEPT !.temp = 4, !.topP = 2], <<>>),
  Row(Logits(8, 16, 4, 8), [Greedy EXCEPT !.temp = 4, !.topK = 3, !.topP = 3,
        !.pres = 2, !.freq = 4, !.rep = 4], <<3, 1, 1, 5>>),
  Row(Logits(4, 4, -8, 8), [Greedy EXCEPT !.topK = 1, !.temp = 2, !.rep = 1,
        !.pres = -1], <<2, 0>>),
  Row(Logits(36, 32, 36, -36), [Greedy EXCEPT !.temp = 1, !.topP = 2], <<>>),
  Row(Logits(32, 36, 32, 36), [Greedy EXCEPT !.temp = 2], <<>>),
  Row(Logits(8, 4, 0, 4), [Greedy EXCEPT !.temp = Inf, !.topK = 2], <<>>),
  Row(Logits(36, 40, 36, 0), [Greedy EXCEPT !.freq = -4], <<2, 0, 2, 1, 2>>),
  Row(Logits(4, 8, 4, 0), [Greedy EXCEPT !.temp = 2, !.freq = 2], <<1, 3, 1>>),
  Row(Logits(4, 8, 4, 0), [Greedy EXCEPT !.topK = 0, !.temp = 2], <<>>)}

MCBatches == {<<r>> : r \in MCRows} \cup {<<r, s>> : r \in MCRows, s \in MCRows}

MCNoise == <<Logits(1, -2, 3, 0), Logits(0, 2, -1, 3), Logits(3, 0, 1, -2)>>
=============================================================================
