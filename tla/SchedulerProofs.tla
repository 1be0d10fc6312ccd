-------------------------- MODULE SchedulerProofs --------------------------
(***************************************************************************)
(* The scheduler uses the pool as its interface allows, keeps its queues   *)
(* in order, and captures plans that compute exactly what is missing       *)
(* within every limit: for any number of requests and blocks, every block  *)
(* size, token budget and sequence limit, and any interleaving of arrivals *)
(* with steps, failed steps included.                                      *)
(*                                                                         *)
(* The second part is admission: no request waits without a reason.  When  *)
(* a plan is captured, the head of the queue is left waiting only if the   *)
(* budget, the sequence limit or the blocks do not admit it, rollbacks     *)
(* included.  The hard part is a rollback: the blocks it frees never       *)
(* suffice for the request that gave them up, because whatever its         *)
(* admission shared or found is either still held by an earlier sequence   *)
(* or was held by nobody else.                                             *)
(***************************************************************************)
EXTENDS Scheduler, BlockPoolProofs

(* The inductive invariant.                                                *)

(* Queues r and w in order of arrival, of requests numbered below n.       *)
Ordered(r, w, n) ==
  /\ Increasing(r)
  /\ Increasing(w)
  /\ \A a \in Range(r), b \in Range(w) : a < b
  /\ \A a \in Range(r) \cup Range(w) : a < n

(* The sequence is in one of the queues.                                   *)
Queued(s) == s \in Range(running) \/ s \in Range(waiting)

(* The sequence does not exist yet.                                        *)
Unused(s) == tokens[s] = <<>> /\ recomputeTarget[s] = 0

(* The lengths a request keeps to.                                         *)
LengthsOK(s) ==
  /\ numPrompt[s] \in 1 .. Len(tokens[s])
  /\ recomputeTarget[s] # 0 => recomputeTarget[s] \in numPrompt[s] .. Len(tokens[s])
  /\ numPrompt[s] + maxTokens[s] <= MaxModelLen

(* What a running sequence lacks: in prefill, only computing; in decode,   *)
(* only its last token, and a block for it at most.                        *)
InPhase(s) ==
  IF Phase(s) = "prefill"
  THEN PrefillTarget(s) = Len(tokens[s]) /\ MissingBlocks(s) = 0
  ELSE numCached[s] = Len(tokens[s]) - 1 /\ MissingBlocks(s) \in {0, 1}

(* plan_step is selecting work, or a captured plan is not yet applied.     *)
Selecting == pc \in {"admit", "reserve", "capture"}
Executing == pc \in {"execute", "apply"}

(* What is scheduled for a sequence is work it has, and from the captured  *)
(* plan on it has the blocks for it.                                       *)
WorkOK(s) ==
  numScheduled[s] > 0 =>
    /\ s \in Range(running)
    /\ Selecting \/ Executing
    /\ numScheduled[s] <= Wanted(s)
    /\ pc = "capture" \/ Executing => MissingBlocks(s) = 0

(* The invariant of one request.                                           *)
RequestOK(s) ==
  /\ s >= nextId => Unused(s)
  /\ Queued(s) => LengthsOK(s)
  /\ Queued(s) /\ s \notin finished => Len(tokens[s]) < numPrompt[s] + maxTokens[s]
  /\ s \in Range(waiting) => PrefillTarget(s) = Len(tokens[s])
  /\ s \in Range(running) => InPhase(s)
  /\ WorkOK(s)

(* An entry of the plan, before and after it is applied.                   *)
EntryOK(k) ==
  LET p == inFlight[k]
      s == p.id
  IN  /\ s \in Range(running)
      /\ \A j \in DOMAIN inFlight : inFlight[j].id = s => j = k
      /\ k <= applied => numScheduled[s] = 0
      /\ k > applied =>
           /\ numScheduled[s] = TokenBudget(p)
           /\ p.first = numCached[s] + 1
           /\ p.last \in p.first .. Len(tokens[s])
           /\ p.sampling <=> p.last = Len(tokens[s])
           /\ s \notin finished
           /\ s \notin recovered

(* The tokens each entry of the plan computes.                             *)
PlanBudgets == [k \in DOMAIN inFlight |-> TokenBudget(inFlight[k])]

(* The invariant of the captured plan and of the result being applied.     *)
PlanOK ==
  /\ inFlight # <<>> <=> Executing
  /\ \A k \in DOMAIN inFlight : EntryOK(k)
  /\ Executing => \A s \in SeqId :
       numScheduled[s] > 0 => \E k \in DOMAIN inFlight : inFlight[k].id = s
  /\ applied <= Len(inFlight)
  /\ pc # "apply" => applied = 0 /\ finished = {} /\ recovered = {}
  /\ pc = "apply" =>
       /\ DOMAIN result = DOMAIN inFlight
       /\ \A k \in DOMAIN inFlight : (result[k] # <<>>) = inFlight[k].sampling
  /\ finished \subseteq Range(running)
  /\ recovered \subseteq Range(running)
  /\ \A s \in recovered : Phase(s) = "decode"
  /\ pc = "execute" => Total(PlanBudgets) <= MaxNumBatchedTokens

(* The sequences that ran before the admissions of this step, the blocks   *)
(* they hold, and the decoders that still need one.                        *)
Early == {running[i] : i \in 1 .. runningBefore}
HeldEarly == {b \in Block : \E s \in Early : b \in Range(table[s])}
ShortDecoders ==
  {s \in Range(running) : /\ numScheduled[s] > 0
                          /\ Phase(s) = "decode"
                          /\ MissingBlocks(s) = 1}

(* preempt_if_needed has made room for the decoders, admissions aside.     *)
SelectionOK ==
  /\ Len(running) <= MaxNumSeqs
  /\ Selecting =>
       /\ ScheduledTokens <= MaxNumBatchedTokens
       /\ runningBefore <= Len(running)
       /\ \A i \in DOMAIN running : i > runningBefore =>
            Phase(running[i]) = "prefill" /\ numScheduled[running[i]] > 0
  /\ pc \in {"admit", "reserve"} =>
       Cardinality(HeldEarly) + Cardinality(ShortDecoders) <= NumBlocks

(* There is always something to compute.                                   *)
EarlyWork == \E s \in Early : numScheduled[s] > 0

ProgressOK ==
  /\ pc = "preempt" => IsRunning
  /\ pc = "admit" => EarlyWork \/ Len(running) > runningBefore \/ CanAdmit
  /\ pc \in {"reserve", "capture"} => EarlyWork \/ Len(running) > runningBefore

(* The inductive invariant of the scheduler, over that of the pool.        *)
SchedInv ==
  /\ SchedTypeOK
  /\ Ordered(running, waiting, nextId)
  /\ OnlyRunningOwn
  /\ \A s \in SeqId : RequestOK(s)
  /\ PlanOK
  /\ SelectionOK
  /\ ProgressOK
-----------------------------------------------------------------------------
(* Queues.                                                                 *)

(* The least and the greatest of two numbers.                              *)
LEMMA MinMaxOfTwo ==
  ASSUME NEW a \in Int, NEW b \in Int
  PROVE  /\ Min({a, b}) = IF a <= b THEN a ELSE b
         /\ Max({a, b}) = IF a <= b THEN b ELSE a
<1> DEFINE S == {a, b}
           lo == IF a <= b THEN a ELSE b
           hi == IF a <= b THEN b ELSE a
<1>1. lo \in S /\ \A x \in S : lo <= x
  OBVIOUS
<1>2. \A m \in S : (\A x \in S : m <= x) => m = lo
  OBVIOUS
<1>3. hi \in S /\ \A x \in S : hi >= x
  OBVIOUS
<1>4. \A m \in S : (\A x \in S : m >= x) => m = hi
  OBVIOUS
<1> HIDE DEF S, lo, hi
<1>5. Min(S) = lo
  BY <1>1, <1>2, Zenon DEF Min
<1>6. Max(S) = hi
  BY <1>3, <1>4, Zenon DEF Max
<1> QED
  BY <1>5, <1>6 DEF S, lo, hi

(* Taking the last element off (pop_back).                                 *)
LEMMA FrontProperties ==
  ASSUME NEW T, NEW q \in Seq(T), q # <<>>
  PROVE  /\ Len(q) \in Nat \ {0}
         /\ Front(q) \in Seq(T) /\ Len(Front(q)) = Len(q) - 1
         /\ \A i \in 1 .. Len(q) - 1 : Front(q)[i] = q[i]
         /\ Last(q) \in T /\ Last(q) \in Range(q)
         /\ Range(q) = Range(Front(q)) \cup {Last(q)}
         /\ NoDuplicates(q) => Last(q) \notin Range(Front(q))
<1> DEFINE n == Len(q)
           f == Front(q)
<1>1. n \in Nat \ {0} /\ DOMAIN q = 1 .. n /\ \A i \in 1 .. n : q[i] \in T
  BY EmptySeq
<1>2. f = SubSeq(q, 1, n - 1)
  BY DEF Front
<1> HIDE DEF n, f
<1>3. f \in Seq(T) /\ Len(f) = n - 1 /\ \A i \in 1 .. n - 1 : f[i] = q[i]
  <2>1. \A i \in 1 .. n - 1 : q[i] \in T
    BY <1>1
  <2> QED
    BY <1>1, <1>2, <2>1, SubSeqProperties
<1>4. DOMAIN f = 1 .. n - 1
  BY <1>3
<1>5. Last(q) = q[n]
  BY DEF Last, n
<1>6. Range(q) = Range(f) \cup {q[n]}
  BY <1>1, <1>3, <1>4 DEF Range
<1>7. NoDuplicates(q) => q[n] \notin Range(f)
  BY <1>1, <1>3, <1>4 DEF Range, NoDuplicates
<1> QED
  BY <1>1, <1>3, <1>5, <1>6, <1>7 DEF n, f

(* Putting an element first (push_front).                                  *)
LEMMA PushFrontProperties ==
  ASSUME NEW T, NEW q \in Seq(T), NEW s \in T
  PROVE  /\ <<s>> \o q \in Seq(T) /\ Len(<<s>> \o q) = Len(q) + 1
         /\ (<<s>> \o q)[1] = s /\ Head(<<s>> \o q) = s
         /\ \A i \in 2 .. Len(q) + 1 : (<<s>> \o q)[i] = q[i - 1]
         /\ Range(<<s>> \o q) = {s} \cup Range(q)
<1> DEFINE p == <<s>> \o q
           n == Len(q)
<1>1. n \in Nat /\ DOMAIN q = 1 .. n
  OBVIOUS
<1>2. <<s>> \in Seq(T) /\ Len(<<s>>) = 1 /\ <<s>>[1] = s
  OBVIOUS
<1>3. /\ p \in Seq(T) /\ Len(p) = 1 + n
      /\ \A i \in 1 .. 1 + n : p[i] = IF i <= 1 THEN <<s>>[i] ELSE q[i - 1]
  BY <1>2, ConcatProperties
<1> HIDE DEF p, n
<1>4. p[1] = s /\ \A i \in 2 .. n + 1 : p[i] = q[i - 1]
  BY <1>1, <1>2, <1>3
<1>5. DOMAIN p = 1 .. n + 1 /\ Head(p) = p[1]
  BY <1>1, <1>3
<1>6. Range(p) = {s} \cup Range(q)
  <2>0. \A i \in 1 .. n + 1 : i = 1 \/ (i \in 2 .. n + 1 /\ i - 1 \in 1 .. n)
    BY <1>1
  <2>1. Range(p) \subseteq {s} \cup Range(q)
    BY <1>1, <1>4, <1>5, <2>0 DEF Range
  <2>2. s \in Range(p)
    BY <1>1, <1>4, <1>5 DEF Range
  <2>3. ASSUME NEW i \in 1 .. n PROVE q[i] \in Range(p)
    <3>1. i + 1 \in 1 .. n + 1 /\ p[i + 1] = q[i]
      BY <1>1, <1>4
    <3> QED
      BY <1>5, <3>1 DEF Range
  <2> QED
    BY <1>1, <2>1, <2>2, <2>3 DEF Range
<1> QED
  BY <1>1, <1>3, <1>4, <1>5, <1>6 DEF p, n

(* Putting an element last (push_back).                                    *)
LEMMA PushBackProperties ==
  ASSUME NEW T, NEW q \in Seq(T), NEW s \in T
  PROVE  /\ Append(q, s) \in Seq(T) /\ Len(Append(q, s)) = Len(q) + 1
         /\ \A i \in 1 .. Len(q) : Append(q, s)[i] = q[i]
         /\ Append(q, s)[Len(q) + 1] = s
         /\ Range(Append(q, s)) = Range(q) \cup {s}
<1> DEFINE p == Append(q, s)
           n == Len(q)
<1>1. /\ n \in Nat /\ DOMAIN q = 1 .. n /\ p \in Seq(T) /\ Len(p) = n + 1
      /\ DOMAIN p = 1 .. n + 1 /\ p[n + 1] = s /\ \A i \in 1 .. n : p[i] = q[i]
  OBVIOUS
<1> HIDE DEF p, n
<1>2. Range(p) = Range(q) \cup {s}
  <2>1. \A i \in 1 .. n + 1 : i \in 1 .. n \/ i = n + 1
    BY <1>1
  <2>2. Range(p) \subseteq Range(q) \cup {s}
    BY <1>1, <2>1 DEF Range
  <2>3. \A i \in 1 .. n : i \in 1 .. n + 1
    BY <1>1
  <2>4. n + 1 \in 1 .. n + 1
    BY <1>1
  <2> QED
    BY <1>1, <2>2, <2>3, <2>4 DEF Range
<1> QED
  BY <1>1, <1>2 DEF p, n

(* Taking the first element off (pop_front).                               *)
LEMMA PopProperties ==
  ASSUME NEW T, NEW q \in Seq(T), q # <<>>
  PROVE  /\ Len(q) \in Nat \ {0} /\ Head(q) \in T /\ Head(q) = q[1]
         /\ Tail(q) \in Seq(T) /\ Len(Tail(q)) = Len(q) - 1
         /\ \A i \in 1 .. Len(q) - 1 : Tail(q)[i] = q[i + 1]
         /\ Range(q) = {Head(q)} \cup Range(Tail(q))
<1> DEFINE n == Len(q)
           t == Tail(q)
<1>1. n \in Nat \ {0} /\ DOMAIN q = 1 .. n /\ Head(q) = q[1]
  BY EmptySeq
<1>2. Head(q) \in T /\ t \in Seq(T) /\ Len(t) = n - 1 /\ \A i \in 1 .. n - 1 : t[i] = q[i + 1]
  BY HeadTailProperties
<1> HIDE DEF n, t
<1>3. DOMAIN t = 1 .. n - 1
  BY <1>2
<1>4. Range(q) = {q[1]} \cup Range(t)
  <2>1. ASSUME NEW i \in 1 .. n PROVE q[i] \in {q[1]} \cup Range(t)
    <3>1. CASE i = 1
      BY <3>1
    <3>2. CASE i # 1
      <4>1. i - 1 \in 1 .. n - 1 /\ t[i - 1] = q[i]
        BY <1>1, <1>2, <3>2
      <4> QED
        BY <1>3, <4>1 DEF Range
    <3> QED
      BY <3>1, <3>2
  <2>2. ASSUME NEW i \in 1 .. n - 1 PROVE t[i] \in Range(q)
    <3>1. i + 1 \in 1 .. n /\ t[i] = q[i + 1]
      BY <1>1, <1>2
    <3> QED
      BY <1>1, <3>1 DEF Range
  <2>3. q[1] \in Range(q)
    BY <1>1 DEF Range
  <2> QED
    BY <1>1, <1>3, <2>1, <2>2, <2>3 DEF Range
<1> QED
  BY <1>1, <1>2, <1>4 DEF n, t

(* A queue in order of arrival has no duplicates.                          *)
LEMMA IncreasingNoDuplicates ==
  ASSUME NEW q \in Seq(Int), Increasing(q)
  PROVE  NoDuplicates(q)
<1> SUFFICES ASSUME NEW i \in DOMAIN q, NEW j \in DOMAIN q, i # j PROVE q[i] # q[j]
  BY DEF NoDuplicates
<1>1. q[i] \in Int /\ q[j] \in Int /\ (i < j \/ j < i)
  OBVIOUS
<1> QED
  BY <1>1 DEF Increasing

(* The last running sequence becomes the first waiting one.                *)
LEMMA OrderedBack ==
  ASSUME NEW r \in Seq(Int), NEW w \in Seq(Int), NEW n \in Int, Ordered(r, w, n), r # <<>>
  PROVE  Ordered(Front(r), <<Last(r)>> \o w, n)
<1> DEFINE f == Front(r)
           x == Last(r)
           v == <<x>> \o w
           m == Len(r)
           k == Len(w)
<1>1. /\ m \in Nat \ {0} /\ f \in Seq(Int) /\ Len(f) = m - 1
      /\ \A i \in 1 .. m - 1 : f[i] = r[i]
      /\ x \in Int /\ Range(r) = Range(f) \cup {x}
  BY FrontProperties
<1>2. /\ v \in Seq(Int) /\ Len(v) = k + 1 /\ v[1] = x
      /\ \A i \in 2 .. k + 1 : v[i] = w[i - 1]
      /\ Range(v) = {x} \cup Range(w)
  BY <1>1, PushFrontProperties
<1>3. x = r[m] /\ DOMAIN r = 1 .. m /\ DOMAIN w = 1 .. k /\ k \in Nat
  BY DEF Last
<1>4. DOMAIN f = 1 .. m - 1 /\ DOMAIN v = 1 .. k + 1
  BY <1>1, <1>2, <1>3
<1>5. /\ \A i, j \in 1 .. m : i < j => r[i] < r[j]
      /\ \A i, j \in 1 .. k : i < j => w[i] < w[j]
  BY <1>3 DEF Ordered, Increasing
<1>6. \A a \in Range(r), b \in Range(w) : a < b
  BY DEF Ordered
<1>7. \A a \in Range(r) \cup Range(w) : a < n
  BY DEF Ordered
<1>11. \A i \in 1 .. k : w[i] \in Range(w)
  BY <1>3 DEF Range
<1> HIDE DEF f, x, v, m, k
<1>8. Increasing(f)
  <2> SUFFICES ASSUME NEW i \in 1 .. m - 1, NEW j \in 1 .. m - 1, i < j PROVE f[i] < f[j]
    BY <1>4 DEF Increasing
  <2>1. i \in 1 .. m /\ j \in 1 .. m
    BY <1>1
  <2> QED
    BY <1>1, <1>5, <2>1
<1>9. Increasing(v)
  <2> SUFFICES ASSUME NEW i \in 1 .. k + 1, NEW j \in 1 .. k + 1, i < j PROVE v[i] < v[j]
    BY <1>4 DEF Increasing
  <2>1. j \in 2 .. k + 1 /\ j - 1 \in 1 .. k /\ v[j] = w[j - 1]
    BY <1>2, <1>3
  <2>2. CASE i = 1
    BY <1>1, <1>2, <1>6, <1>11, <2>1, <2>2
  <2>3. CASE i # 1
    <3>1. i \in 2 .. k + 1 /\ i - 1 \in 1 .. k /\ v[i] = w[i - 1] /\ i - 1 < j - 1
      BY <1>2, <1>3, <2>3
    <3> QED
      BY <1>5, <2>1, <3>1
  <2> QED
    BY <2>2, <2>3
<1>10. ASSUME NEW a \in Range(f), NEW b \in Range(v) PROVE a < b
  <2>1. CASE b = x
    <3>1. PICK i \in 1 .. m - 1 : a = r[i]
      BY <1>1, <1>4 DEF Range
    <3>2. i \in 1 .. m /\ m \in 1 .. m /\ i < m
      BY <1>1
    <3> QED
      BY <1>3, <1>5, <2>1, <3>1, <3>2
  <2>2. CASE b \in Range(w)
    BY <1>1, <1>6, <2>2
  <2> QED
    BY <1>2, <2>1, <2>2
<1>12. \A a \in Range(f) \cup Range(v) : a < n
  BY <1>1, <1>2, <1>7
<1> QED
  BY <1>8, <1>9, <1>10, <1>12, Zenon DEF Ordered, f, v, x

(* The first waiting sequence becomes the last running one.                *)
LEMMA OrderedForth ==
  ASSUME NEW r \in Seq(Int), NEW w \in Seq(Int), NEW n \in Int, Ordered(r, w, n), w # <<>>
  PROVE  Ordered(Append(r, Head(w)), Tail(w), n)
<1> DEFINE x == Head(w)
           p == Append(r, x)
           v == Tail(w)
           m == Len(r)
           k == Len(w)
<1>1. /\ k \in Nat \ {0} /\ x \in Int /\ x = w[1] /\ v \in Seq(Int) /\ Len(v) = k - 1
      /\ \A i \in 1 .. k - 1 : v[i] = w[i + 1]
      /\ Range(w) = {x} \cup Range(v)
  BY PopProperties
<1>2. /\ p \in Seq(Int) /\ Len(p) = m + 1 /\ \A i \in 1 .. m : p[i] = r[i]
      /\ p[m + 1] = x /\ Range(p) = Range(r) \cup {x}
  BY <1>1, PushBackProperties
<1>3. DOMAIN r = 1 .. m /\ DOMAIN w = 1 .. k /\ m \in Nat
  OBVIOUS
<1>4. DOMAIN p = 1 .. m + 1 /\ DOMAIN v = 1 .. k - 1
  BY <1>1, <1>2, <1>3
<1>5. /\ \A i, j \in 1 .. m : i < j => r[i] < r[j]
      /\ \A i, j \in 1 .. k : i < j => w[i] < w[j]
  BY <1>3 DEF Ordered, Increasing
<1>6. \A a \in Range(r), b \in Range(w) : a < b
  BY DEF Ordered
<1>7. \A a \in Range(r) \cup Range(w) : a < n
  BY DEF Ordered
<1>11. \A i \in 1 .. m : r[i] \in Range(r)
  BY <1>3 DEF Range
<1> HIDE DEF x, p, v, m, k
<1>8. Increasing(p)
  <2> SUFFICES ASSUME NEW i \in 1 .. m + 1, NEW j \in 1 .. m + 1, i < j PROVE p[i] < p[j]
    BY <1>4 DEF Increasing
  <2>1. i \in 1 .. m
    BY <1>3
  <2>2. CASE j = m + 1
    BY <1>1, <1>2, <1>6, <1>11, <2>1, <2>2
  <2>3. CASE j # m + 1
    <3>1. j \in 1 .. m
      BY <1>3, <2>3
    <3> QED
      BY <1>2, <1>5, <2>1, <3>1
  <2> QED
    BY <2>2, <2>3
<1>9. Increasing(v)
  <2> SUFFICES ASSUME NEW i \in 1 .. k - 1, NEW j \in 1 .. k - 1, i < j PROVE v[i] < v[j]
    BY <1>4 DEF Increasing
  <2>1. i + 1 \in 1 .. k /\ j + 1 \in 1 .. k /\ i + 1 < j + 1
    BY <1>1
  <2> QED
    BY <1>1, <1>5, <2>1
<1>10. ASSUME NEW a \in Range(p), NEW b \in Range(v) PROVE a < b
  <2>1. CASE a = x
    <3>1. PICK i \in 1 .. k - 1 : b = w[i + 1]
      BY <1>1, <1>4 DEF Range
    <3>2. i + 1 \in 1 .. k /\ 1 \in 1 .. k /\ 1 < i + 1
      BY <1>1
    <3> QED
      BY <1>1, <1>5, <2>1, <3>1, <3>2
  <2>2. CASE a \in Range(r)
    BY <1>1, <1>6, <2>2
  <2> QED
    BY <1>2, <2>1, <2>2
<1>12. \A a \in Range(p) \cup Range(v) : a < n
  BY <1>1, <1>2, <1>7
<1> QED
  BY <1>8, <1>9, <1>10, <1>12, Zenon DEF Ordered, p, v, x

(* A new request waits last; some running sequences leave.                 *)
LEMMA OrderedArrival ==
  ASSUME NEW r \in Seq(Int), NEW w \in Seq(Int), NEW n \in Int, Ordered(r, w, n)
  PROVE  Ordered(r, Append(w, n), n + 1)
<1> DEFINE p == Append(w, n)
           k == Len(w)
<1>1. /\ p \in Seq(Int) /\ Len(p) = k + 1 /\ \A i \in 1 .. k : p[i] = w[i]
      /\ p[k + 1] = n /\ Range(p) = Range(w) \cup {n}
  BY PushBackProperties
<1>2. k \in Nat /\ DOMAIN w = 1 .. k /\ DOMAIN p = 1 .. k + 1
  BY <1>1
<1>3. \A i, j \in 1 .. k : i < j => w[i] < w[j]
  BY <1>2 DEF Ordered, Increasing
<1>4. \A i \in 1 .. k : w[i] < n
  BY <1>2 DEF Ordered, Range
<1>5. /\ Increasing(r)
      /\ \A a \in Range(r), b \in Range(w) : a < b
      /\ \A a \in Range(r) \cup Range(w) : a < n
  BY DEF Ordered
<1>8. \A a \in Range(r) \cup Range(w) : a \in Int
  BY DEF Range
<1> HIDE DEF p, k
<1>6. Increasing(p)
  <2> SUFFICES ASSUME NEW i \in 1 .. k + 1, NEW j \in 1 .. k + 1, i < j PROVE p[i] < p[j]
    BY <1>2 DEF Increasing
  <2>1. i \in 1 .. k /\ (j = k + 1 \/ j \in 1 .. k)
    BY <1>2
  <2> QED
    BY <1>1, <1>3, <1>4, <2>1
<1>7. \A a \in Range(r) \cup Range(p) : a < n + 1
  <2>1. \A a \in Range(r) \cup Range(p) : a \in Int /\ (a < n \/ a = n)
    BY <1>1, <1>5, <1>8
  <2> QED
    BY <2>1
<1>9. \A a \in Range(r), b \in Range(p) : a < b
  BY <1>1, <1>5
<1> QED
  BY <1>5, <1>6, <1>7, <1>9, Zenon DEF Ordered, p

(* Removing finished sequences keeps the order.                            *)
LEMMA OrderedRetain ==
  ASSUME NEW r \in Seq(Int), NEW w \in Seq(Int), NEW n \in Int, Ordered(r, w, n), NEW S
  PROVE  Ordered(Retain(r, S), w, n)
<1> DEFINE q == Retain(r, S)
<1>1. PICK g : KeptPlaces(g, r, S)
  BY RetainInOrder
<1>2. q \in Seq(Int) /\ Len(q) \in Nat /\ Range(q) = Range(r) \cap S
  BY RetainProperties
<1>3. DOMAIN q = 1 .. Len(q)
  BY <1>2
<1>4. /\ g \in [1 .. Len(q) -> DOMAIN r]
      /\ Increasing(g)
      /\ \A k \in 1 .. Len(q) : q[k] = r[g[k]]
  BY <1>1 DEF KeptPlaces
<1> HIDE DEF q
<1>5. Increasing(q)
  <2> SUFFICES ASSUME NEW i \in 1 .. Len(q), NEW j \in 1 .. Len(q), i < j PROVE q[i] < q[j]
    BY <1>3 DEF Increasing
  <2>1. g[i] < g[j] /\ g[i] \in DOMAIN r /\ g[j] \in DOMAIN r
    BY <1>4 DEF Increasing
  <2> QED
    BY <1>4, <2>1 DEF Ordered, Increasing
<1>6. Range(q) \subseteq Range(r)
  BY <1>2
<1> QED
  BY <1>5, <1>6 DEF Ordered, q

(* The property the runs check.                                            *)
LEMMA OrderedIsFifo ==
  ASSUME running \in Seq(Int), waiting \in Seq(Int), Ordered(running, waiting, nextId)
  PROVE  FifoOrder
<1> DEFINE q == running \o waiting
           m == Len(running)
           k == Len(waiting)
<1>1. m \in Nat /\ k \in Nat /\ DOMAIN running = 1 .. m /\ DOMAIN waiting = 1 .. k
  OBVIOUS
<1>2. /\ q \in Seq(Int) /\ Len(q) = m + k
      /\ \A i \in 1 .. m + k : q[i] = IF i <= m THEN running[i] ELSE waiting[i - m]
  BY ConcatProperties
<1>3. DOMAIN q = 1 .. m + k
  BY <1>2
<1>4. /\ \A i, j \in 1 .. m : i < j => running[i] < running[j]
      /\ \A i, j \in 1 .. k : i < j => waiting[i] < waiting[j]
      /\ \A i \in 1 .. m, j \in 1 .. k : running[i] < waiting[j]
  BY <1>1 DEF Ordered, Increasing, Range
<1> HIDE DEF q, m, k
<1> SUFFICES ASSUME NEW i \in 1 .. m + k, NEW j \in 1 .. m + k, i < j PROVE q[i] < q[j]
  BY <1>3 DEF FifoOrder, q
<1>5. CASE j <= m
  <2>1. i \in 1 .. m /\ j \in 1 .. m
    BY <1>1, <1>5
  <2> QED
    BY <1>1, <1>2, <1>4, <1>5, <2>1
<1>6. CASE i <= m /\ ~(j <= m)
  <2>1. i \in 1 .. m /\ j - m \in 1 .. k
    BY <1>1, <1>6
  <2> QED
    BY <1>1, <1>2, <1>4, <1>6, <2>1
<1>7. CASE ~(i <= m)
  <2>1. i - m \in 1 .. k /\ j - m \in 1 .. k /\ i - m < j - m /\ ~(j <= m)
    BY <1>1, <1>7
  <2>2. q[i] = waiting[i - m] /\ q[j] = waiting[j - m]
    BY <1>2, <1>7, <2>1
  <2> QED
    BY <1>4, <2>1, <2>2
<1> QED
  BY <1>5, <1>6, <1>7
-----------------------------------------------------------------------------
(* The fields of requests.                                                 *)

(* The types of the fields of a request and of what is derived from them.  *)
LEMMA RequestTypes ==
  ASSUME SchedTypeOK, NEW s \in SeqId
  PROVE  /\ s \in Nat \ {0} /\ SeqId \subseteq Int
         /\ tokens[s] \in Seq(Token) /\ Len(tokens[s]) \in Nat
         /\ table[s] \in Seq(Block) /\ Len(table[s]) \in Nat
         /\ numCached[s] \in Nat /\ numPrompt[s] \in Nat /\ numScheduled[s] \in Nat
         /\ recomputeTarget[s] \in Nat /\ maxTokens[s] \in Nat
         /\ PrefillTarget(s) \in Nat /\ Phase(s) \in {"prefill", "decode"}
         /\ Wanted(s) \in Nat \ {0}
         /\ BlockSize \in Nat \ {0}
         /\ BlocksNeeded(s) \in Nat /\ MissingBlocks(s) \in Int
<1>1. s \in Nat \ {0} /\ SeqId \subseteq Int
  <2>1. Cardinality(SeqId) \in Nat
    BY PoolSizes, FS_CardinalityType
  <2> QED
    BY <2>1, EngineOptions
<1>2. /\ tokens[s] \in Seq(Token) /\ table[s] \in Seq(Block) /\ numCached[s] \in Nat
      /\ numPrompt[s] \in Nat /\ numScheduled[s] \in Nat
      /\ recomputeTarget[s] \in Nat /\ maxTokens[s] \in Nat
  BY DEF SchedTypeOK, PoolTypeOK
<1>3. Len(tokens[s]) \in Nat /\ Len(table[s]) \in Nat
  BY <1>2
<1>4. PrefillTarget(s) \in Nat
  BY <1>2 DEF PrefillTarget
<1>5. Phase(s) \in {"prefill", "decode"} /\ Wanted(s) \in Nat \ {0}
  BY <1>2, <1>4 DEF Phase, Wanted
<1>6. BlockSize \in Nat \ {0}
  BY PoolSizes
<1>7. BlocksNeeded(s) \in Nat
  <2>1. Len(tokens[s]) + BlockSize - 1 \in Nat
    BY <1>3, <1>6
  <2> QED
    BY <1>6, <2>1, DivProperties DEF BlocksNeeded
<1>8. MissingBlocks(s) \in Int
  BY <1>3, <1>7 DEF MissingBlocks
<1> QED
  BY <1>1, <1>2, <1>3, <1>4, <1>5, <1>6, <1>7, <1>8

(* A step that leaves the fields of a request alone.                       *)
Same(s) ==
  /\ tokens'[s] = tokens[s]
  /\ table'[s] = table[s]
  /\ numCached'[s] = numCached[s]
  /\ numPrompt'[s] = numPrompt[s]
  /\ recomputeTarget'[s] = recomputeTarget[s]
  /\ maxTokens'[s] = maxTokens[s]

(* Unchanged fields have unchanged consequences.                           *)
LEMMA SameFields ==
  ASSUME NEW s, Same(s)
  PROVE  /\ PrefillTarget(s)' = PrefillTarget(s)
         /\ Phase(s)' = Phase(s)
         /\ Wanted(s)' = Wanted(s)
         /\ MissingBlocks(s)' = MissingBlocks(s)
         /\ InPhase(s)' = InPhase(s)
         /\ LengthsOK(s)' = LengthsOK(s)
         /\ Unused(s)' = Unused(s)
<1>1. PrefillTarget(s)' = PrefillTarget(s)
  BY DEF Same, PrefillTarget
<1>2. Phase(s)' = Phase(s) /\ Wanted(s)' = Wanted(s)
  BY <1>1 DEF Same, Phase, Wanted
<1>3. MissingBlocks(s)' = MissingBlocks(s)
  BY DEF Same, MissingBlocks, BlocksNeeded
<1>4. InPhase(s)' = InPhase(s)
  BY <1>1, <1>2, <1>3 DEF InPhase, Same
<1>5. LengthsOK(s)' = LengthsOK(s)
  BY DEF LengthsOK, Same
<1>6. Unused(s)' = Unused(s)
  BY DEF Unused, Same
<1> QED
  BY <1>1, <1>2, <1>3, <1>4, <1>5, <1>6

(* The queues as sequences.                                                *)
LEMMA QueueTypes ==
  ASSUME SchedInv
  PROVE  /\ running \in Seq(SeqId) /\ waiting \in Seq(SeqId)
         /\ running \in Seq(Int) /\ waiting \in Seq(Int) /\ nextId \in Int
         /\ Len(running) \in Nat /\ DOMAIN running = 1 .. Len(running)
         /\ Len(waiting) \in Nat /\ DOMAIN waiting = 1 .. Len(waiting)
         /\ NoDuplicates(running) /\ NoDuplicates(waiting)
         /\ Range(running) \subseteq SeqId /\ Range(waiting) \subseteq SeqId
         /\ Range(running) \cap Range(waiting) = {}
         /\ IsFiniteSet(Range(running))
<1>1. SeqId \subseteq Int
  <2>1. Cardinality(SeqId) \in Nat
    BY PoolSizes, FS_CardinalityType
  <2> QED
    BY <2>1, EngineOptions
<1>2. running \in Seq(SeqId) /\ waiting \in Seq(SeqId) /\ nextId \in Int
  BY DEF SchedInv, SchedTypeOK
<1>3. running \in Seq(Int) /\ waiting \in Seq(Int)
  BY <1>1, <1>2, SeqMonotonic
<1>4. /\ Increasing(running) /\ Increasing(waiting)
      /\ \A a \in Range(running), b \in Range(waiting) : a < b
  BY DEF SchedInv, Ordered
<1>5. NoDuplicates(running) /\ NoDuplicates(waiting)
  BY <1>3, <1>4, IncreasingNoDuplicates
<1>6. Range(running) \subseteq SeqId /\ Range(waiting) \subseteq SeqId
  BY <1>2 DEF Range
<1>7. Range(running) \cap Range(waiting) = {}
  <2> SUFFICES ASSUME NEW a \in Range(running), a \in Range(waiting) PROVE FALSE
    OBVIOUS
  <2>1. a \in Int /\ a < a
    BY <1>1, <1>4, <1>6
  <2> QED
    BY <2>1
<1>8. IsFiniteSet(Range(running))
  BY <1>2, <1>5, LenIsCardinality
<1>9. /\ Len(running) \in Nat /\ DOMAIN running = 1 .. Len(running)
      /\ Len(waiting) \in Nat /\ DOMAIN waiting = 1 .. Len(waiting)
  BY <1>2
<1> QED
  BY <1>2, <1>3, <1>5, <1>6, <1>7, <1>8, <1>9
-----------------------------------------------------------------------------
(* Every step uses the pool as PoolNext allows.                            *)

(* What a step of the scheduler may do to the pool.                        *)
PoolStep == UNCHANGED poolVars \/ PoolNext

(* Only the empty sequence has no elements.                                *)
LEMMA EmptyRange ==
  ASSUME NEW T, NEW q \in Seq(T)
  PROVE  Range(q) = {} <=> q = <<>>
<1>1. CASE q = <<>>
  BY <1>1 DEF Range
<1>2. CASE q # <<>>
  <2>1. 1 \in DOMAIN q
    BY <1>2, EmptySeq
  <2> QED
    BY <1>2, <2>1 DEF Range
<1> QED
  BY <1>1, <1>2

(* A selection of sequences is a batch.                                    *)
LEMMA SelectionIsBatch ==
  ASSUME NEW q \in Seq(SeqId), NoDuplicates(q), q # <<>>
  PROVE  q \in Batches
<1> DEFINE n == Len(q)
<1>1. n \in Nat \ {0} /\ q \in [1 .. n -> SeqId]
  BY EmptySeq
<1>2. n <= Cardinality(SeqId) /\ Cardinality(SeqId) \in Nat
  <2>1. Range(q) \subseteq SeqId
    BY DEF Range
  <2>2. Cardinality(Range(q)) = n
    BY LenIsCardinality
  <2> QED
    BY <2>1, <2>2, PoolSizes, FS_Subset, FS_CardinalityType
<1> HIDE DEF n
<1>3. n \in 1 .. Cardinality(SeqId)
  BY <1>1, <1>2
<1> QED
  BY <1>1, <1>3 DEF Batches

(* Releasing a selection of running sequences is a step of the pool.       *)
LEMMA ReleaseIsPool ==
  ASSUME NEW q \in Seq(SeqId), NoDuplicates(q), q # <<>>,
         \A s \in Range(q) : table[s] # <<>>, DeallocateBatch(q)
  PROVE  PoolNext
<1>1. q \in Batches
  BY SelectionIsBatch
<1>2. Release(q)
  BY DEF Release, Range
<1> QED
  BY <1>1, <1>2 DEF PoolNext

(* So is releasing one of them.                                            *)
LEMMA ReleaseOneIsPool ==
  ASSUME SchedInv, NEW s \in Range(running), DeallocateBatch(<<s>>)
  PROVE  PoolNext
<1>1. s \in SeqId /\ table[s] # <<>>
  BY QueueTypes DEF SchedInv, OnlyRunningOwn
<1>2. <<s>> \in Seq(SeqId) /\ NoDuplicates(<<s>>) /\ <<s>> # <<>> /\ Range(<<s>>) = {s}
  BY <1>1 DEF NoDuplicates, Range
<1> QED
  BY <1>1, <1>2, ReleaseIsPool

(* What a release of one sequence does to the sequences.                   *)
LEMMA ReleaseOneEffect ==
  ASSUME SchedTypeOK, NEW s \in SeqId, DeallocateBatch(<<s>>)
  PROVE  /\ tokens' = tokens
         /\ table'[s] = <<>> /\ numCached'[s] = 0
         /\ \A r \in SeqId : r # s => table'[r] = table[r] /\ numCached'[r] = numCached[r]
<1>1. Range(<<s>>) = {s}
  BY DEF Range
<1> QED
  BY <1>1 DEF DeallocateBatch

(* preempt_if_needed has a victim.                                         *)
LEMMA VictimExists ==
  ASSUME SchedInv, ~CanAppendBatch(DecodeBatch)
  PROVE  running # <<>>
<1> SUFFICES ASSUME running = <<>> PROVE FALSE
  OBVIOUS
<1> DEFINE S == {running[i] : i \in {j \in DOMAIN running :
                   Phase(running[j]) = "decode" /\ Share(j, RunningBudget) > 0}}
<1>0. DecodeBatch = Retain(running, S)
  BY DEF DecodeBatch
<1> HIDE DEF S
<1>1. DecodeBatch \in Seq(SeqId) /\ Range(DecodeBatch) = Range(running) \cap S
  BY <1>0, QueueTypes, RetainProperties
<1>2. DOMAIN DecodeBatch = {}
  <2>1. Range(running) = {}
    BY QueueTypes, EmptyRange
  <2>2. DecodeBatch = <<>>
    BY <1>1, <2>1, EmptyRange
  <2> QED
    BY <2>2
<1>3. Cardinality({i \in DOMAIN DecodeBatch : MissingBlocks(DecodeBatch[i]) = 1}) = 0
  <2>1. {i \in DOMAIN DecodeBatch : MissingBlocks(DecodeBatch[i]) = 1} = {}
    BY <1>2
  <2> QED
    BY <2>1, FS_EmptySet
<1>4. Len(free) \in Nat
  BY DEF SchedInv, SchedTypeOK, PoolTypeOK
<1> QED
  BY <1>2, <1>3, <1>4 DEF CanAppendBatch

(* Reserving nothing changes nothing.                                      *)
LEMMA ReserveNothing ==
  ASSUME PoolTypeOK, MayAppendBatch(<<>>)
  PROVE  UNCHANGED poolVars
<1> DEFINE short == Retain(<<>>, {s \in SeqId : MissingBlocks(s) = 1})
           fresh == SubSeq(free, 1, Len(short))
<1>1. short = <<>> /\ Len(short) = 0
  <2> DEFINE q == <<>>
             S == {s \in SeqId : MissingBlocks(s) = 1}
  <2>1. q \in Seq(SeqId) /\ Range(q) = {}
    BY DEF Range
  <2> HIDE DEF q, S
  <2>2. Retain(q, S) \in Seq(SeqId) /\ Range(Retain(q, S)) = Range(q) \cap S
    BY <2>1, RetainProperties
  <2>3. Retain(q, S) = <<>>
    BY <2>1, <2>2, EmptyRange
  <2> QED
    BY <2>3 DEF q, S
<1>2. Range(fresh) = {}
  BY <1>1 DEF Range
<1>3. free \in Seq(Block)
  BY DEF PoolTypeOK
<1>4. /\ free' = SubSeq(free, Len(short) + 1, Len(free))
      /\ used' = used \cup Range(fresh)
      /\ refCount' = [b \in Block |-> IF b \in Range(fresh) THEN 1 ELSE refCount[b]]
      /\ ResetBlocks(Range(fresh))
      /\ table' = [s \in SeqId |->
                     IF s \in Range(short)
                     THEN Append(table[s], fresh[PositionIn(short, s)])
                     ELSE table[s]]
      /\ UNCHANGED <<tokens, numCached>>
  BY DEF MayAppendBatch
<1> HIDE DEF short, fresh
<1>5. free' = free
  BY <1>1, <1>3, <1>4, SubSeqFull
<1>6. used' = used /\ refCount' = refCount
  BY <1>2, <1>4 DEF PoolTypeOK
<1>7. Range(short) = {}
  BY <1>1 DEF Range
<1>8. table' = table
  BY <1>4, <1>7 DEF PoolTypeOK
<1>9. hash' = hash /\ identity' = identity
  BY <1>2, <1>4 DEF PoolTypeOK, ResetBlocks
<1>10. index' = index
  <2>1. index \in [HashVal -> Seq(Block)]
    BY DEF PoolTypeOK
  <2>2. index' = [h \in HashVal |->
                   IF h = NoHash THEN index[h]
                   ELSE Retain(index[h], {b \in Block : b \notin Range(fresh) \/ hash[b] # h})]
    BY <1>4 DEF ResetBlocks
  <2>3. ASSUME NEW h \in HashVal
        PROVE  Retain(index[h], {b \in Block : b \notin Range(fresh) \/ hash[b] # h}) = index[h]
    <3>1. index[h] \in Seq(Block) /\ Range(index[h]) \subseteq Block
      BY <2>1 DEF Range
    <3>2. {b \in Block : b \notin Range(fresh) \/ hash[b] # h} = Block
      BY <1>2
    <3> QED
      BY <3>1, <3>2, RetainAll
  <2> QED
    BY <2>1, <2>2, <2>3
<1> QED
  BY <1>4, <1>5, <1>6, <1>8, <1>9, <1>10 DEF poolVars

(* The selected decoders are running sequences, each once.                 *)
LEMMA DecodersProperties ==
  ASSUME SchedInv
  PROVE  /\ SelectedDecoders \in Seq(SeqId) /\ NoDuplicates(SelectedDecoders)
         /\ Range(SelectedDecoders) =
              {s \in Range(running) : numScheduled[s] > 0 /\ Phase(s) = "decode"}
         /\ \A s \in Range(SelectedDecoders) : table[s] # <<>>
<1> DEFINE S == {s \in SeqId : numScheduled[s] > 0 /\ Phase(s) = "decode"}
<1>1. /\ running \in Seq(SeqId) /\ NoDuplicates(running) /\ Range(running) \subseteq SeqId
      /\ \A s \in Range(running) : table[s] # <<>>
  BY QueueTypes DEF SchedInv, OnlyRunningOwn
<1>2. /\ SelectedDecoders \in Seq(SeqId) /\ NoDuplicates(SelectedDecoders)
      /\ Range(SelectedDecoders) = Range(running) \cap S
  BY <1>1, RetainProperties DEF SelectedDecoders
<1> QED
  BY <1>1, <1>2

(* The entry that ApplyOne applies, and the request it is for.             *)
LEMMA NextEntry ==
  ASSUME SchedInv, pc = "apply", applied < Len(inFlight)
  PROVE  LET k == applied + 1
             p == inFlight[k]
             s == p.id
         IN  /\ k \in DOMAIN inFlight /\ p \in PlanEntry /\ s \in SeqId
             /\ s \in Range(running) /\ s \notin finished /\ s \notin recovered
             /\ numScheduled[s] = TokenBudget(p) /\ numScheduled[s] \in Nat \ {0}
             /\ p.first = numCached[s] + 1
             /\ p.last = numCached[s] + numScheduled[s]
             /\ p.last <= Len(tokens[s])
             /\ p.sampling <=> p.last = Len(tokens[s])
             /\ result[k] \in Sampled /\ (result[k] # <<>>) = p.sampling
             /\ MissingBlocks(s) = 0 /\ InPhase(s) /\ LengthsOK(s)
             /\ Len(tokens[s]) < numPrompt[s] + maxTokens[s]
             /\ Len(tokens[s]) < MaxModelLen
             /\ numScheduled[s] <= Wanted(s)
             /\ \A j \in DOMAIN inFlight : inFlight[j].id = s => j = k
<1> DEFINE k == applied + 1
           p == inFlight[k]
           s == p.id
<1>1. SchedTypeOK /\ PlanOK /\ applied \in Nat /\ inFlight \in Seq(PlanEntry)
      /\ result \in Seq(Sampled)
  BY DEF SchedInv, SchedTypeOK
<1>2. k \in DOMAIN inFlight /\ k \in 1 .. Len(inFlight) /\ k > applied
  BY <1>1
<1>3. p \in PlanEntry
  BY <1>1, <1>2
<1>4. s \in SeqId /\ p.first \in Nat /\ p.last \in Nat
  BY <1>3 DEF PlanEntry
<1>5. EntryOK(k)
  BY <1>1, <1>2 DEF PlanOK
<1>6. DOMAIN result = DOMAIN inFlight /\ (result[k] # <<>>) = p.sampling
  BY <1>1, <1>2 DEF PlanOK
<1>7. result[k] \in Sampled
  BY <1>1, <1>2, <1>6
<1> HIDE DEF k
<1>8. /\ s \in Range(running)
      /\ numScheduled[s] = TokenBudget(p)
      /\ p.first = numCached[s] + 1
      /\ p.last \in p.first .. Len(tokens[s])
      /\ p.sampling <=> p.last = Len(tokens[s])
      /\ s \notin finished
      /\ s \notin recovered
      /\ \A j \in DOMAIN inFlight : inFlight[j].id = s => j = k
  BY <1>2, <1>5 DEF EntryOK
<1> HIDE DEF s, p
<1>9. RequestOK(s) /\ Queued(s)
  BY <1>4, <1>8 DEF SchedInv, Queued
<1>10. /\ numCached[s] \in Nat /\ Len(tokens[s]) \in Nat /\ numScheduled[s] \in Nat
       /\ numPrompt[s] \in Nat /\ maxTokens[s] \in Nat
  BY <1>1, <1>4, RequestTypes
<1>11. /\ numScheduled[s] \in Nat \ {0} /\ p.last = numCached[s] + numScheduled[s]
       /\ p.last <= Len(tokens[s])
  BY <1>4, <1>8, <1>10 DEF TokenBudget
<1>12. /\ MissingBlocks(s) = 0 /\ numScheduled[s] <= Wanted(s)
  BY <1>9, <1>11 DEF RequestOK, WorkOK, Executing
<1>13. /\ InPhase(s) /\ LengthsOK(s)
       /\ Len(tokens[s]) < numPrompt[s] + maxTokens[s]
       /\ numPrompt[s] + maxTokens[s] <= MaxModelLen
  BY <1>8, <1>9 DEF RequestOK, LengthsOK
<1>14. Len(tokens[s]) < MaxModelLen
  BY <1>10, <1>13, PoolSizes
<1> QED
  BY <1>2, <1>3, <1>4, <1>6, <1>7, <1>8, <1>11, <1>12, <1>13, <1>14 DEF k, p, s

(* A block table that is not short has a slot for every token.             *)
LEMMA NotShortHasSlots ==
  ASSUME SchedTypeOK, NEW s \in SeqId, MissingBlocks(s) = 0
  PROVE  Len(tokens[s]) <= Len(table[s]) * BlockSize
<1> DEFINE L == Len(tokens[s])
           B == BlockSize
           q == (L + B - 1) \div B
<1>1. L \in Nat /\ B \in Nat \ {0} /\ Len(table[s]) \in Nat
  BY RequestTypes
<1>2. Len(table[s]) = q
  <2>1. BlocksNeeded(s) \in Nat
    BY RequestTypes
  <2>2. Len(table[s]) = BlocksNeeded(s)
    BY <1>1, <2>1 DEF MissingBlocks
  <2> QED
    BY <2>2 DEF BlocksNeeded
<1> HIDE DEF L, B
<1>3. q \in Nat /\ L + B - 1 < (q + 1) * B
  BY <1>1, DivProperties
<1> HIDE DEF q
<1>4. (q + 1) * B = q * B + B /\ q * B \in Int
  BY <1>1, <1>3
<1>5. L <= q * B
  BY <1>1, <1>3, <1>4
<1> QED
  BY <1>2, <1>5 DEF L, B

(* One token more needs at most one block more.                            *)
LEMMA NextTokenBlock ==
  ASSUME NEW L \in Nat, NEW B \in Nat \ {0}
  PROVE  (L + 1 + B - 1) \div B - (L + B - 1) \div B \in {0, 1}
<1> DEFINE q == (L + B - 1) \div B
           r == (L + 1 + B - 1) \div B
<1>1. q \in Nat /\ q * B <= L + B - 1 /\ L + B - 1 < (q + 1) * B
  BY DivProperties
<1>2. r \in Nat
  BY DivProperties
<1>3. \A k \in Nat : k <= r <=> k * B <= L + 1 + B - 1
  BY DivBound
<1> HIDE DEF q, r
<1>4. q * B \in Int /\ (q + 1) * B = q * B + B /\ (q + 2) * B = q * B + B + B
  BY <1>1
<1>5. q <= r
  BY <1>1, <1>3, <1>4
<1>6. ~(q + 2 <= r)
  <2>1. ~((q + 2) * B <= L + 1 + B - 1)
    BY <1>1, <1>4
  <2>2. q + 2 \in Nat
    BY <1>1
  <2> QED
    BY <1>3, <2>1, <2>2
<1>7. r - q \in {0, 1}
  BY <1>1, <1>2, <1>5, <1>6
<1> QED
  BY <1>7 DEF q, r

(* apply_step_result commits the planned tokens of a sequence.             *)
LEMMA ApplyOneIsCommit ==
  ASSUME SchedInv, ApplyOne
  PROVE  LET k == applied + 1
             s == inFlight[k].id
         IN  Commit(s, numScheduled[s], result[k])
<1> DEFINE k == applied + 1
           p == inFlight[k]
           s == p.id
           n == numScheduled[s]
<1>0. SchedTypeOK /\ pc = "apply" /\ applied < Len(inFlight)
  BY DEF SchedInv, ApplyOne
<1>1. /\ s \in SeqId
      /\ n = TokenBudget(p) /\ n \in Nat \ {0}
      /\ p.last = numCached[s] + n
      /\ p.last <= Len(tokens[s])
      /\ p.sampling <=> p.last = Len(tokens[s])
      /\ result[k] \in Sampled /\ (result[k] # <<>>) = p.sampling
      /\ MissingBlocks(s) = 0
      /\ Len(tokens[s]) < MaxModelLen
  BY <1>0, NextEntry
<1>2. numCached[s] \in Nat /\ Len(tokens[s]) \in Nat /\ Len(table[s]) * BlockSize \in Int
  <2>1. /\ numCached[s] \in Nat /\ Len(tokens[s]) \in Nat
        /\ Len(table[s]) \in Nat /\ BlockSize \in Nat \ {0}
    BY <1>0, <1>1, RequestTypes
  <2> QED
    BY <2>1
<1>3. Len(tokens[s]) <= Len(table[s]) * BlockSize
  BY <1>0, <1>1, NotShortHasSlots
<1>4. /\ HashBlocks(s, n)
      /\ numCached' = [numCached EXCEPT ![s] = Min({@ + TokenBudget(p), Len(tokens[s])})]
      /\ tokens' = [tokens EXCEPT ![s] = @ \o result[k]]
      /\ UNCHANGED <<free, used, refCount, table>>
  BY DEF ApplyOne
<1> HIDE DEF k, p, s, n
<1>5. Min({numCached[s] + n, Len(tokens[s])}) = numCached[s] + n
  <2>1. numCached[s] + n \in Int /\ Len(tokens[s]) \in Int /\ numCached[s] + n <= Len(tokens[s])
    BY <1>1, <1>2
  <2> HIDE DEF k, p, s, n
  <2> QED
    BY <2>1, MinMaxOfTwo
<1>6. numCached' = [numCached EXCEPT ![s] = @ + n]
  BY <1>1, <1>4, <1>5
<1>7. n \in 1 .. Len(tokens[s]) - numCached[s]
  BY <1>1, <1>2
<1>8. numCached[s] + n <= Len(table[s]) * BlockSize
  BY <1>1, <1>2, <1>3
<1>9. \/ result[k] = <<>>
      \/ /\ Len(result[k]) = 1
         /\ numCached[s] + n = Len(tokens[s])
         /\ Len(tokens[s]) < MaxModelLen
  <2>1. CASE result[k] = <<>>
    BY <2>1
  <2>2. CASE result[k] # <<>>
    <3>1. p.sampling
      BY <1>1, <2>2
    <3>2. Len(result[k]) = 1
      BY <1>1, <2>2 DEF Sampled
    <3> QED
      BY <1>1, <3>1, <3>2
  <2> QED
    BY <2>1, <2>2
<1>10. Commit(s, n, result[k])
  BY <1>4, <1>6, <1>7, <1>8, <1>9 DEF Commit
<1> QED
  BY <1>10 DEF k, p, s, n

(* The sequences that leave in one release.                                *)
LEMMA FinishedProperties ==
  ASSUME SchedInv
  PROVE  LET q == Retain(running, finished)
         IN  /\ q \in Seq(SeqId) /\ NoDuplicates(q) /\ Range(q) = finished
             /\ \A s \in Range(q) : table[s] # <<>>
<1>1. /\ running \in Seq(SeqId) /\ NoDuplicates(running) /\ Range(running) \subseteq SeqId
      /\ \A s \in Range(running) : table[s] # <<>>
  BY QueueTypes DEF SchedInv, OnlyRunningOwn
<1>2. finished \subseteq Range(running)
  BY DEF SchedInv, PlanOK
<1> DEFINE q == Retain(running, finished)
<1>3. q \in Seq(SeqId) /\ NoDuplicates(q) /\ Range(q) = Range(running) \cap finished
  BY <1>1, RetainProperties
<1> HIDE DEF q
<1>4. Range(q) = finished
  BY <1>2, <1>3
<1> QED
  BY <1>1, <1>2, <1>3, <1>4 DEF q

(* What an abort releases is what runs.                                    *)
LEMMA AllocatedProperties ==
  ASSUME SchedInv
  PROVE  /\ Allocated \in Seq(SeqId) /\ NoDuplicates(Allocated)
         /\ Range(Allocated) = Range(running)
         /\ \A s \in Range(Allocated) : table[s] # <<>>
<1> DEFINE q == running \o waiting
           S == {s \in SeqId : table[s] # <<>>}
<1>1. /\ running \in Seq(SeqId) /\ waiting \in Seq(SeqId)
      /\ NoDuplicates(running) /\ NoDuplicates(waiting)
      /\ Range(running) \subseteq SeqId
      /\ Range(running) \cap Range(waiting) = {}
  BY QueueTypes
<1>2. q \in Seq(SeqId) /\ NoDuplicates(q)
  BY <1>1, ConcatNoDuplicates, ConcatProperties
<1>3. Range(q) = Range(running) \cup Range(waiting)
  <2> DEFINE m == Len(running)
             k == Len(waiting)
  <2>1. /\ m \in Nat /\ k \in Nat /\ DOMAIN running = 1 .. m /\ DOMAIN waiting = 1 .. k
    BY <1>1
  <2>2. /\ Len(q) = m + k
        /\ \A i \in 1 .. m + k : q[i] = IF i <= m THEN running[i] ELSE waiting[i - m]
    BY <1>1, ConcatProperties
  <2>3. DOMAIN q = 1 .. m + k
    BY <1>2, <2>2
  <2> HIDE DEF q, m, k
  <2>4. ASSUME NEW i \in 1 .. m + k PROVE q[i] \in Range(running) \cup Range(waiting)
    <3>1. CASE i <= m
      <4>1. i \in 1 .. m
        BY <2>1, <3>1
      <4> QED
        BY <2>1, <2>2, <3>1, <4>1 DEF Range
    <3>2. CASE ~(i <= m)
      <4>1. i - m \in 1 .. k
        BY <2>1, <3>2
      <4> QED
        BY <2>1, <2>2, <3>2, <4>1 DEF Range
    <3> QED
      BY <3>1, <3>2
  <2>5. ASSUME NEW i \in 1 .. m PROVE running[i] \in Range(q)
    <3>1. i \in 1 .. m + k /\ q[i] = running[i]
      BY <2>1, <2>2
    <3> QED
      BY <2>3, <3>1 DEF Range
  <2>6. ASSUME NEW i \in 1 .. k PROVE waiting[i] \in Range(q)
    <3>1. i + m \in 1 .. m + k /\ ~(i + m <= m) /\ (i + m) - m = i
      BY <2>1
    <3> QED
      BY <2>2, <2>3, <3>1 DEF Range
  <2> QED
    BY <2>1, <2>3, <2>4, <2>5, <2>6 DEF Range
<1>4. /\ Allocated \in Seq(SeqId) /\ NoDuplicates(Allocated)
      /\ Range(Allocated) = Range(q) \cap S
  BY <1>2, RetainProperties DEF Allocated
<1>5. \A s \in SeqId : table[s] # <<>> <=> s \in Range(running)
  BY DEF SchedInv, OnlyRunningOwn
<1> HIDE DEF q
<1> QED
  BY <1>1, <1>3, <1>4, <1>5

(* Every step of the scheduler is a step of a client of the pool, or       *)
(* leaves the pool alone.                                                  *)
LEMMA StepUsesPool ==
  ASSUME SchedInv, SchedNext
  PROVE  PoolStep
<1>0. SchedTypeOK /\ PoolTypeOK
  BY DEF SchedInv, SchedTypeOK
<1>1. ASSUME NEW p \in Prompt, NEW m \in MaxTokens, NEW i \in BOOLEAN, AddRequest(p, m, i)
      PROVE  PoolStep
  BY <1>1 DEF AddRequest, PoolStep, PoolNext
<1>2. ASSUME Preempt PROVE PoolStep
  <2>1. running # <<>> /\ running \in Seq(SeqId)
    BY <1>2, VictimExists, QueueTypes DEF Preempt
  <2>2. Last(running) \in Range(running)
    BY <2>1, FrontProperties
  <2>3. DeallocateBatch(<<Last(running)>>)
    BY <1>2 DEF Preempt
  <2> QED
    BY <2>2, <2>3, ReleaseOneIsPool DEF PoolStep
<1>3. ASSUME AdmitHead PROVE PoolStep
  <2>1. waiting # <<>> /\ waiting \in Seq(SeqId) /\ Admit(Head(waiting))
    BY <1>3, QueueTypes DEF AdmitHead, CanAdmit
  <2>2. Head(waiting) \in SeqId
    BY <2>1, PopProperties
  <2> QED
    BY <2>1, <2>2 DEF PoolStep, PoolNext
<1>4. ASSUME ReserveDecodeCache PROVE PoolStep
  <2> DEFINE q == SelectedDecoders
  <2>1. ~AppendErrs(q) /\ MayAppendBatch(q)
    BY <1>4 DEF ReserveDecodeCache
  <2>2. q \in Seq(SeqId) /\ NoDuplicates(q) /\ \A s \in Range(q) : table[s] # <<>>
    BY DecodersProperties
  <2> HIDE DEF q
  <2>3. CASE q = <<>>
    BY <1>0, <2>1, <2>3, ReserveNothing DEF PoolStep
  <2>4. CASE q # <<>>
    <3>1. q \in Batches
      BY <2>2, <2>4, SelectionIsBatch
    <3>2. CanAppendBatch(q)
      BY <2>1 DEF AppendErrs
    <3>3. Reserve(q)
      BY <2>1, <2>2, <3>2 DEF Reserve, Range
    <3> QED
      BY <3>1, <3>3 DEF PoolStep, PoolNext
  <2> QED
    BY <2>3, <2>4
<1>5. ASSUME RollbackLastAdmission PROVE PoolStep
  <2>1. running \in Seq(SeqId) /\ Len(running) \in Nat /\ runningBefore \in Nat
    BY <1>0, QueueTypes DEF SchedTypeOK
  <2>2. Len(running) > runningBefore /\ DeallocateBatch(<<Last(running)>>)
    BY <1>5 DEF RollbackLastAdmission
  <2>3. running # <<>>
    BY <2>1, <2>2
  <2>4. Last(running) \in Range(running)
    BY <2>1, <2>3, FrontProperties
  <2> QED
    BY <2>2, <2>4, ReleaseOneIsPool DEF PoolStep
<1>6. ASSUME ApplyOne PROVE PoolStep
  <2> DEFINE k == applied + 1
             s == inFlight[k].id
             n == numScheduled[s]
  <2>1. pc = "apply" /\ applied < Len(inFlight)
    BY <1>6 DEF ApplyOne
  <2>2. /\ s \in SeqId /\ result[k] \in Sampled /\ n \in Nat \ {0}
        /\ inFlight[k].last = numCached[s] + n
        /\ inFlight[k].last <= Len(tokens[s])
        /\ Len(tokens[s]) < MaxModelLen
    BY <2>1, NextEntry
  <2>3. Commit(s, n, result[k])
    BY <1>6, ApplyOneIsCommit
  <2>4. n \in 1 .. MaxModelLen
    <3>1. numCached[s] \in Nat /\ Len(tokens[s]) \in Nat /\ MaxModelLen \in Nat
      BY <1>0, <2>2, RequestTypes, PoolSizes
    <3> QED
      BY <2>2, <3>1
  <2> HIDE DEF k, s, n
  <2> QED
    BY <2>2, <2>3, <2>4 DEF PoolStep, PoolNext
<1>7. ASSUME ApplyEnds PROVE PoolStep
  <2> DEFINE q == Retain(running, finished)
  <2>1. /\ q \in Seq(SeqId) /\ NoDuplicates(q) /\ Range(q) = finished
        /\ \A s \in Range(q) : table[s] # <<>>
    BY FinishedProperties
  <2>2. IF finished # {} THEN DeallocateBatch(q) ELSE UNCHANGED poolVars
    BY <1>7 DEF ApplyEnds
  <2> HIDE DEF q
  <2>3. CASE finished # {}
    <3>1. q # <<>>
      BY <2>1, <2>3, EmptyRange
    <3> QED
      BY <2>1, <2>2, <2>3, <3>1, ReleaseIsPool DEF PoolStep
  <2> QED
    BY <2>2, <2>3 DEF PoolStep
<1>8. ASSUME AbortAllRequests PROVE PoolStep
  <2>1. /\ Allocated \in Seq(SeqId) /\ NoDuplicates(Allocated)
        /\ \A s \in Range(Allocated) : table[s] # <<>>
    BY AllocatedProperties
  <2>2. IF Allocated # <<>> THEN DeallocateBatch(Allocated) ELSE UNCHANGED poolVars
    BY <1>8 DEF AbortAllRequests
  <2> QED
    BY <2>1, <2>2, ReleaseIsPool DEF PoolStep
<1>9. ASSUME BeginStep \/ ScheduleRunning \/ AdmissionEnds \/ CapturePlan \/ ExecuteStep
      PROVE  PoolStep
  BY <1>9 DEF PoolStep, BeginStep, ScheduleRunning, AdmissionEnds, CapturePlan, ExecuteStep,
              Execute
<1> QED
  BY <1>1, <1>2, <1>3, <1>4, <1>5, <1>6, <1>7, <1>8, <1>9
     DEF SchedNext, PlanStep, ApplyStep
-----------------------------------------------------------------------------
(* The invariant, for what a step leaves alone.                            *)

(* A request whose fields a step leaves alone.                             *)
LEMMA RequestKept ==
  ASSUME NEW s, RequestOK(s), Same(s), WorkOK(s)',
         s >= nextId' => s >= nextId,
         s \in Range(running)' => s \in Range(running),
         s \in Range(waiting)' => s \in Range(waiting),
         Queued(s)' /\ s \notin finished' => s \notin finished
  PROVE  RequestOK(s)'
<1>1. /\ PrefillTarget(s)' = PrefillTarget(s)
      /\ InPhase(s)' = InPhase(s)
      /\ LengthsOK(s)' = LengthsOK(s)
      /\ Unused(s)' = Unused(s)
  BY SameFields
<1>2. Queued(s)' => Queued(s)
  BY DEF Queued
<1>3. Len(tokens[s])' = Len(tokens[s]) /\ numPrompt[s]' = numPrompt[s]
      /\ maxTokens[s]' = maxTokens[s]
  BY DEF Same
<1> QED
  BY <1>1, <1>2, <1>3 DEF RequestOK

(* Without a plan there is nothing to show of it.                          *)
LEMMA NoPlan ==
  ASSUME ~Executing', inFlight' = <<>>, applied' = 0, finished' = {}, recovered' = {}
  PROVE  PlanOK'
BY DEF PlanOK, Executing

(* Outside a step nothing is planned and nothing scheduled.                *)
LEMMA NotExecuting ==
  ASSUME SchedInv, ~Executing
  PROVE  inFlight = <<>> /\ applied = 0 /\ finished = {} /\ recovered = {}
BY DEF SchedInv, PlanOK, Executing

(* Before a selection nothing is scheduled.                                *)
LEMMA NothingScheduled ==
  ASSUME SchedInv, pc \in {"idle", "preempt"}
  PROVE  \A s \in SeqId : numScheduled[s] = 0
<1> SUFFICES ASSUME NEW s \in SeqId PROVE numScheduled[s] = 0
  OBVIOUS
<1>1. numScheduled[s] \in Nat
  BY DEF SchedInv, SchedTypeOK
<1>2. WorkOK(s)
  BY DEF SchedInv, RequestOK
<1> QED
  BY <1>1, <1>2 DEF WorkOK, Selecting, Executing

(* A sequence that is not scheduled has no work to justify.                *)
LEMMA NoWork ==
  ASSUME NEW s, numScheduled'[s] = 0
  PROVE  WorkOK(s)'
BY DEF WorkOK
-----------------------------------------------------------------------------
(* Each step preserves the invariant.                                      *)

(* The invariant holds at the start.                                       *)
LEMMA SchedInitOK == SchedInit => SchedInv
<1> SUFFICES ASSUME SchedInit PROVE SchedInv
  OBVIOUS
<1>1. PoolTypeOK
  BY InitPreserves DEF SchedInit, PoolInv
<1>2. NoBlock \in BlockReport
  BY DEF NoBlock, BlockReport
<1>3. SchedTypeOK
  BY <1>1, <1>2 DEF SchedInit, SchedTypeOK
<1>4. Range(running) = {} /\ Range(waiting) = {} /\ Len(running) = 0
  BY DEF SchedInit, Range
<1>5. Ordered(running, waiting, nextId)
  BY <1>4 DEF SchedInit, Ordered, Increasing
<1>6. OnlyRunningOwn
  BY <1>4 DEF SchedInit, PoolInit, OnlyRunningOwn
<1>7. ASSUME NEW s \in SeqId PROVE RequestOK(s)
  BY <1>4 DEF SchedInit, PoolInit, RequestOK, Queued, Unused, WorkOK
<1>8. PlanOK
  BY DEF SchedInit, PlanOK, Executing
<1>9. SelectionOK
  BY <1>4, EngineOptions DEF SchedInit, SelectionOK, Selecting, ValidOptions
<1>10. ProgressOK
  BY DEF SchedInit, ProgressOK
<1> QED
  BY <1>3, <1>5, <1>6, <1>7, <1>8, <1>9, <1>10 DEF SchedInv

(* A step begins.                                                          *)
LEMMA BeginStepOK ==
  ASSUME SchedInv, PoolTypeOK', BeginStep
  PROVE  SchedInv'
<1>1. /\ pc = "idle" /\ pc' = "preempt" /\ IsRunning
      /\ UNCHANGED <<poolVars, seqVars, waiting, running, nextId, inFlight, callVars>>
  BY DEF BeginStep
<1>2. /\ UNCHANGED <<free, used, refCount, hash, identity, index, tokens, table, numCached>>
      /\ UNCHANGED <<numPrompt, numScheduled, recomputeTarget, maxTokens, ignoreEos>>
      /\ UNCHANGED <<runningBefore, blockedBefore, blocked, path, result, applied,
                     finished, recovered, outputs>>
  BY <1>1 DEF poolVars, seqVars, callVars
<1>3. SchedTypeOK'
  BY <1>1, <1>2 DEF SchedInv, SchedTypeOK
<1>4. Ordered(running, waiting, nextId)'
  BY <1>1 DEF SchedInv, Ordered, Increasing
<1>5. OnlyRunningOwn'
  BY <1>1, <1>2 DEF SchedInv, OnlyRunningOwn
<1>6. ASSUME NEW s \in SeqId PROVE RequestOK(s)'
  <2>1. WorkOK(s)'
    BY <1>1, <1>2, NothingScheduled, NoWork
  <2>2. RequestOK(s) /\ Same(s)
    BY <1>2 DEF SchedInv, Same
  <2> QED
    BY <1>1, <1>2, <2>1, <2>2, RequestKept
<1>7. PlanOK'
  BY <1>1, <1>2, NotExecuting, NoPlan DEF Executing
<1>8. SelectionOK'
  BY <1>1 DEF SchedInv, SelectionOK, Selecting
<1>9. ProgressOK'
  BY <1>1 DEF ProgressOK, IsRunning
<1> QED
  BY <1>3, <1>4, <1>5, <1>6, <1>7, <1>8, <1>9 DEF SchedInv

(* A request arrives.                                                      *)
LEMMA AddRequestOK ==
  ASSUME SchedInv, PoolTypeOK',
         NEW p \in Prompt, NEW m \in MaxTokens, NEW i \in BOOLEAN, AddRequest(p, m, i)
  PROVE  SchedInv'
<1>0. SchedTypeOK
  BY DEF SchedInv
<1>1. /\ pc = "idle" /\ pc' = "idle" /\ nextId \in SeqId /\ Len(p) + m <= MaxModelLen
      /\ tokens' = [tokens EXCEPT ![nextId] = p]
      /\ UNCHANGED <<table, numCached>>
      /\ numPrompt' = [numPrompt EXCEPT ![nextId] = Len(p)]
      /\ maxTokens' = [maxTokens EXCEPT ![nextId] = m]
      /\ ignoreEos' = [ignoreEos EXCEPT ![nextId] = i]
      /\ waiting' = Append(waiting, nextId)
      /\ nextId' = nextId + 1
      /\ UNCHANGED <<numScheduled, recomputeTarget, running, inFlight, runningBefore,
                     blockedBefore, blocked, path, result, applied, finished, recovered,
                     outputs>>
  BY DEF AddRequest, NewSequence, callVars
<1>2. /\ running \in Seq(Int) /\ waiting \in Seq(Int) /\ waiting \in Seq(SeqId)
      /\ nextId \in Int /\ SeqId \subseteq Int
  BY <1>0, <1>1, QueueTypes, RequestTypes
<1>3. p \in Seq(Token) /\ Len(p) \in Nat \ {0} /\ m \in Nat \ {0}
  BY PoolSizes, EngineOptions DEF ValidOptions
<1>4. Append(waiting, nextId) \in Seq(SeqId) /\ Range(waiting)' = Range(waiting) \cup {nextId}
  BY <1>1, <1>2, PushBackProperties
<1>5. SchedTypeOK'
  <2>1. ignoreEos' \in [SeqId -> BOOLEAN]
    <3>1. ignoreEos \in [SeqId -> BOOLEAN]
      BY <1>0 DEF SchedTypeOK
    <3> QED
      BY <1>1, <3>1, Zenon
  <2>2. numPrompt' \in [SeqId -> Nat] /\ maxTokens' \in [SeqId -> Nat]
    BY <1>0, <1>1, <1>3 DEF SchedTypeOK
  <2>3. waiting' \in Seq(SeqId) /\ nextId' \in Nat \ {0}
    BY <1>0, <1>1, <1>4 DEF SchedTypeOK
  <2> QED
    BY <1>0, <1>1, <2>1, <2>2, <2>3, Zenon DEF SchedTypeOK
<1>6. Ordered(running, waiting, nextId)'
  <2>1. Ordered(running, Append(waiting, nextId), nextId + 1)
    BY <1>2, OrderedArrival DEF SchedInv
  <2> QED
    BY <1>1, <2>1
<1>7. OnlyRunningOwn'
  BY <1>1 DEF SchedInv, OnlyRunningOwn
<1>8. \A s \in SeqId : WorkOK(s)'
  BY <1>1, NothingScheduled, NoWork
<1>9. finished = {} /\ finished' = {}
  BY <1>1, NotExecuting DEF Executing
<1>10. ASSUME NEW s \in SeqId, s # nextId PROVE RequestOK(s)'
  <2>1. RequestOK(s) /\ Same(s)
    BY <1>0, <1>1, <1>10 DEF SchedInv, SchedTypeOK, PoolTypeOK, Same
  <2>2. s >= nextId' => s >= nextId
    BY <1>1, <1>2
  <2>3. s \in Range(running)' => s \in Range(running)
    BY <1>1
  <2>4. s \in Range(waiting)' => s \in Range(waiting)
    BY <1>4, <1>10
  <2> QED
    BY <1>8, <1>9, <2>1, <2>2, <2>3, <2>4, RequestKept
<1>11. ASSUME NEW s \in SeqId, s = nextId PROVE RequestOK(s)'
  <2>1. RequestOK(s) /\ s >= nextId
    BY <1>2, <1>11 DEF SchedInv
  <2>2. recomputeTarget[s] = 0 /\ recomputeTarget'[s] = 0
    BY <1>1, <2>1 DEF RequestOK, Unused
  <2>3. tokens'[s] = p /\ numPrompt'[s] = Len(p) /\ maxTokens'[s] = m
    BY <1>0, <1>1, <1>11 DEF SchedTypeOK, PoolTypeOK
  <2>4. s \notin Range(running)'
    <3>1. s \notin Range(running)
      BY <1>2, <1>11 DEF SchedInv, Ordered
    <3> QED
      BY <1>1, <3>1
  <2>5. ~(s >= nextId')
    BY <1>1, <1>2, <1>11
  <2>6. LengthsOK(s)'
    BY <1>1, <1>3, <2>2, <2>3 DEF LengthsOK
  <2>7. (PrefillTarget(s) = Len(tokens[s]))'
    BY <2>2, <2>3 DEF PrefillTarget
  <2>8. (Len(tokens[s]) < numPrompt[s] + maxTokens[s])'
    BY <1>3, <2>3
  <2> QED
    BY <1>8, <2>4, <2>5, <2>6, <2>7, <2>8 DEF RequestOK
<1>12. PlanOK'
  BY <1>1, NotExecuting, NoPlan DEF Executing
<1>13. SelectionOK'
  BY <1>1 DEF SchedInv, SelectionOK, Selecting
<1>14. ProgressOK'
  BY <1>1 DEF ProgressOK
<1> QED
  BY <1>5, <1>6, <1>7, <1>10, <1>11, <1>12, <1>13, <1>14 DEF SchedInv

(* A victim goes back to the head of the queue.                            *)
LEMMA PreemptOK ==
  ASSUME SchedInv, PoolTypeOK', Preempt
  PROVE  SchedInv'
<1>0. SchedTypeOK
  BY DEF SchedInv
<1>1. /\ running # <<>> /\ running \in Seq(SeqId) /\ waiting \in Seq(SeqId)
      /\ running \in Seq(Int) /\ waiting \in Seq(Int) /\ nextId \in Int
      /\ NoDuplicates(running)
  BY VictimExists, QueueTypes DEF Preempt
<1>2. PICK v \in SeqId : v = Last(running)
  BY <1>1, FrontProperties
<1>3. /\ pc = "preempt" /\ pc' = "preempt"
      /\ DeallocateBatch(<<v>>)
      /\ running' = Front(running) /\ waiting' = <<v>> \o waiting
      /\ numScheduled' = [numScheduled EXCEPT ![v] = 0]
      /\ recomputeTarget' = [recomputeTarget EXCEPT ![v] = Max({@, Len(tokens[v])})]
      /\ UNCHANGED <<numPrompt, maxTokens, ignoreEos, nextId, inFlight, runningBefore,
                     blockedBefore, blocked, path, result, applied, finished, recovered,
                     outputs>>
  BY <1>2 DEF Preempt, Requeue, callVars
<1>4. /\ running' \in Seq(SeqId) /\ Len(running') = Len(running) - 1 /\ Len(running) \in Nat
      /\ v \in Range(running) /\ Range(running) = Range(running)' \cup {v}
      /\ v \notin Range(running)'
  BY <1>1, <1>2, <1>3, FrontProperties
<1>5. waiting' \in Seq(SeqId) /\ Len(waiting') = Len(waiting) + 1
      /\ Range(waiting)' = {v} \cup Range(waiting)
  BY <1>1, <1>3, PushFrontProperties
<1>6. /\ tokens' = tokens /\ table'[v] = <<>> /\ numCached'[v] = 0
      /\ \A r \in SeqId : r # v => table'[r] = table[r] /\ numCached'[r] = numCached[r]
  BY <1>0, <1>3, ReleaseOneEffect
<1>7. finished = {} /\ finished' = {} /\ recovered' = {} /\ inFlight' = <<>> /\ applied' = 0
  BY <1>3, NotExecuting DEF Executing
<1>8. \A s \in SeqId : WorkOK(s)'
  <2>1. \A s \in SeqId : numScheduled'[s] = 0
    BY <1>0, <1>3, NothingScheduled DEF SchedTypeOK
  <2> QED
    BY <2>1, NoWork
<1>9. RequestOK(v) /\ Queued(v)
  BY <1>4 DEF SchedInv, Queued
<1>10. /\ Len(tokens[v]) \in Nat \ {0} /\ numPrompt[v] \in 1 .. Len(tokens[v])
       /\ recomputeTarget[v] \in Nat /\ recomputeTarget[v] <= Len(tokens[v])
  <2>1. Len(tokens[v]) \in Nat /\ recomputeTarget[v] \in Nat /\ numPrompt[v] \in Nat
    BY <1>0, RequestTypes
  <2>2. LengthsOK(v)
    BY <1>9 DEF RequestOK
  <2> QED
    BY <2>1, <2>2 DEF LengthsOK
<1>11. recomputeTarget'[v] = Len(tokens[v])
  <2>0. recomputeTarget[v] \in Int /\ Len(tokens[v]) \in Int
    BY <1>10
  <2>1. Max({recomputeTarget[v], Len(tokens[v])}) = Len(tokens[v])
    BY <1>10, <2>0, MinMaxOfTwo
  <2> QED
    BY <1>0, <1>3, <2>1 DEF SchedTypeOK
<1>12. SchedTypeOK'
  <2>1. recomputeTarget' \in [SeqId -> Nat]
    <3>1. \A s \in SeqId : s # v => recomputeTarget'[s] = recomputeTarget[s]
      BY <1>0, <1>3 DEF SchedTypeOK
    <3>2. DOMAIN recomputeTarget' = SeqId /\ recomputeTarget' = [s \in SeqId |-> recomputeTarget'[s]]
      BY <1>0, <1>3 DEF SchedTypeOK
    <3> QED
      BY <1>0, <1>10, <1>11, <3>1, <3>2 DEF SchedTypeOK
  <2>2. numScheduled' \in [SeqId -> Nat]
    BY <1>0, <1>3 DEF SchedTypeOK
  <2> QED
    BY <1>0, <1>3, <1>4, <1>5, <2>1, <2>2, Zenon DEF SchedTypeOK
<1>13. Ordered(running, waiting, nextId)'
  <2>1. Ordered(Front(running), <<Last(running)>> \o waiting, nextId)
    BY <1>1, OrderedBack DEF SchedInv
  <2> QED
    BY <1>2, <1>3, <2>1
<1>14. OnlyRunningOwn'
  <2> SUFFICES ASSUME NEW s \in SeqId
               PROVE  table'[s] # <<>> <=> s \in Range(running)'
    BY DEF OnlyRunningOwn
  <2>1. table[s] # <<>> <=> s \in Range(running)
    BY DEF SchedInv, OnlyRunningOwn
  <2> QED
    BY <1>4, <1>6, <2>1
<1>15. ASSUME NEW s \in SeqId, s # v PROVE RequestOK(s)'
  <2>1. RequestOK(s) /\ Same(s)
    BY <1>0, <1>3, <1>6, <1>15 DEF SchedInv, SchedTypeOK, Same
  <2>2. /\ s >= nextId' => s >= nextId
        /\ s \in Range(running)' => s \in Range(running)
        /\ s \in Range(waiting)' => s \in Range(waiting)
    BY <1>3, <1>4, <1>5, <1>15
  <2> QED
    BY <1>7, <1>8, <2>1, <2>2, RequestKept
<1>16. RequestOK(v)'
  <2>1. (PrefillTarget(v) = Len(tokens[v]))'
    BY <1>6, <1>10, <1>11 DEF PrefillTarget
  <2>2. LengthsOK(v)'
    BY <1>3, <1>6, <1>9, <1>10, <1>11 DEF RequestOK, LengthsOK
  <2>3. (Len(tokens[v]) < numPrompt[v] + maxTokens[v])'
    BY <1>3, <1>6, <1>7, <1>9 DEF RequestOK
  <2>4. ~(v >= nextId')
    <3>1. ~(v >= nextId)
      BY <1>1, <1>4, <1>0, RequestTypes DEF SchedInv, Ordered
    <3> QED
      BY <1>3, <3>1
  <2> QED
    BY <1>4, <1>8, <2>1, <2>2, <2>3, <2>4 DEF RequestOK
<1>17. PlanOK'
  BY <1>3, <1>7, NoPlan DEF Executing
<1>18. SelectionOK'
  <2>1. Len(running) <= MaxNumSeqs /\ MaxNumSeqs \in Nat
    BY EngineOptions DEF SchedInv, SelectionOK, ValidOptions
  <2>2. Len(running') <= MaxNumSeqs
    BY <1>4, <2>1
  <2> QED
    BY <1>3, <2>2 DEF SelectionOK, Selecting
<1>19. ProgressOK'
  <2>1. waiting' # <<>>
    BY <1>1, <1>5
  <2> QED
    BY <1>3, <2>1 DEF ProgressOK, IsRunning
<1> QED
  BY <1>12, <1>13, <1>14, <1>15, <1>16, <1>17, <1>18, <1>19 DEF SchedInv

(* schedule_running hands out no more than the budget, to no sequence more *)
(* than it wants, and the first sequence goes away empty only if the       *)
(* budget is 0.                                                            *)
LEMMA ShareProperties ==
  ASSUME SchedInv, NEW budget \in Nat
  PROVE  /\ \A i \in DOMAIN running :
              Share(i, budget) \in Nat /\ Share(i, budget) <= Wanted(running[i])
         /\ budget > 0 /\ running # <<>> => Share(1, budget) > 0
         /\ Total([i \in DOMAIN running |-> Share(i, budget)]) <= budget
<1> DEFINE n == Len(running)
           w == [j \in DOMAIN running |-> Wanted(running[j])]
           h == [i \in DOMAIN running |-> Share(i, budget)]
           Rest(i) == Max({0, budget - SumTo(w, i - 1)})
<1>0. SchedTypeOK
  BY DEF SchedInv
<1>1. n \in Nat /\ DOMAIN running = 1 .. n /\ running \in Seq(SeqId)
  BY QueueTypes
<1>2. \A i \in 1 .. n : running[i] \in SeqId
  BY <1>1
<1>3. \A i \in 1 .. n : Wanted(running[i]) \in Nat \ {0}
  BY <1>0, <1>2, RequestTypes
<1>4. w \in Seq(Nat) /\ Len(w) = n /\ \A i \in 1 .. n : w[i] = Wanted(running[i])
  BY <1>1, <1>3
<1>5. \A i \in 1 .. n : Share(i, budget) = Min({w[i], Rest(i)})
  BY <1>1, <1>4 DEF Share
<1>10. h = [i \in 1 .. n |-> Share(i, budget)]
  BY <1>1
<1> HIDE DEF n, w, h, Rest
<1>6. \A i \in 0 .. n : SumTo(w, i) \in Nat
  BY <1>4, SumType
<1>7. ASSUME NEW i \in 1 .. n
      PROVE  /\ w[i] \in Nat \ {0} /\ SumTo(w, i - 1) \in Nat
             /\ Rest(i) = IF SumTo(w, i - 1) <= budget THEN budget - SumTo(w, i - 1) ELSE 0
             /\ Share(i, budget) = IF w[i] <= Rest(i) THEN w[i] ELSE Rest(i)
             /\ Share(i, budget) \in Nat /\ Share(i, budget) <= w[i]
  <2> DEFINE x == SumTo(w, i - 1)
             d == budget - x
  <2>1. i - 1 \in 0 .. n
    BY <1>1
  <2>2. w[i] \in Nat \ {0} /\ x \in Nat
    BY <1>3, <1>4, <1>6, <2>1
  <2>3. d \in Int /\ 0 \in Int
    BY <2>2
  <2>4. Rest(i) = Max({0, d})
    BY DEF Rest
  <2> HIDE DEF x, d
  <2>5. Rest(i) = IF 0 <= d THEN d ELSE 0
    BY <2>3, <2>4, MinMaxOfTwo
  <2>6. Rest(i) \in Int /\ w[i] \in Int
    BY <2>2, <2>3, <2>5
  <2>7. Share(i, budget) = IF w[i] <= Rest(i) THEN w[i] ELSE Rest(i)
    BY <1>5, <2>6, MinMaxOfTwo
  <2>8. Rest(i) = IF x <= budget THEN budget - x ELSE 0
    BY <2>2, <2>5 DEF d
  <2>9. Share(i, budget) \in Nat /\ Share(i, budget) <= w[i]
    BY <2>2, <2>7, <2>8
  <2> QED
    BY <2>2, <2>7, <2>8, <2>9 DEF x
<1>8. budget > 0 /\ running # <<>> => Share(1, budget) > 0
  <2> SUFFICES ASSUME budget > 0, running # <<>> PROVE Share(1, budget) > 0
    OBVIOUS
  <2>1. 1 \in 1 .. n
    BY <1>1, EmptySeq DEF n
  <2>2. SumTo(w, 1 - 1) = 0
    BY SumStep
  <2> QED
    BY <1>7, <2>1, <2>2
<1>9. Total(h) <= budget
  <2>1. h \in Seq(Nat) /\ Len(h) = n
    BY <1>1, <1>7, <1>10
  <2>2. \A i \in 0 .. n : SumTo(h, i) \in Nat
    BY <2>1, SumType
  <2> DEFINE S == {i \in Nat : i <= n =>
                     SumTo(h, i) = IF SumTo(w, i) <= budget THEN SumTo(w, i) ELSE budget}
  <2>3. 0 \in S
    BY SumStep
  <2>4. ASSUME NEW i \in Nat, i \in S PROVE i + 1 \in S
    <3> SUFFICES ASSUME i + 1 <= n
                 PROVE  SumTo(h, i + 1) =
                          IF SumTo(w, i + 1) <= budget THEN SumTo(w, i + 1) ELSE budget
      OBVIOUS
    <3>1. i + 1 \in 1 .. n /\ i \in 0 .. n /\ (i + 1) - 1 = i
      BY <1>1
    <3>2. SumTo(h, i) = IF SumTo(w, i) <= budget THEN SumTo(w, i) ELSE budget
      BY <1>1, <2>4, <3>1
    <3>3. SumTo(w, i + 1) = SumTo(w, i) + w[i + 1] /\ SumTo(h, i + 1) = SumTo(h, i) + h[i + 1]
      BY SumStep
    <3>4. h[i + 1] = Share(i + 1, budget)
      BY <1>10, <3>1
    <3>5. /\ w[i + 1] \in Nat /\ SumTo(w, i) \in Nat
          /\ Rest(i + 1) = IF SumTo(w, i) <= budget THEN budget - SumTo(w, i) ELSE 0
          /\ Share(i + 1, budget) = IF w[i + 1] <= Rest(i + 1) THEN w[i + 1] ELSE Rest(i + 1)
      BY <1>7, <3>1
    <3> DEFINE a == SumTo(w, i)
               b == w[i + 1]
               c == Share(i + 1, budget)
    <3>6. c = IF a + b <= budget THEN b ELSE IF a <= budget THEN budget - a ELSE 0
      BY <3>5
    <3> HIDE DEF a, b, c
    <3>7. a \in Nat /\ b \in Nat /\ SumTo(w, i + 1) = a + b
          /\ SumTo(h, i + 1) = (IF a <= budget THEN a ELSE budget) + c
      BY <3>2, <3>3, <3>4, <3>5 DEF a, b, c
    <3> QED
      BY <3>6, <3>7
  <2>5. S = Nat
    <3>1. S \in SUBSET Nat
      OBVIOUS
    <3> HIDE DEF S
    <3> QED
      BY <2>3, <2>4, <3>1, SetInduction
  <2>6. SumTo(h, n) = IF SumTo(w, n) <= budget THEN SumTo(w, n) ELSE budget
    BY <1>1, <2>5
  <2>7. Total(h) = SumTo(h, n)
    BY <2>1 DEF Total
  <2>8. SumTo(w, n) \in Nat
    BY <1>1, <1>6
  <2> QED
    BY <2>6, <2>7, <2>8
<1> QED
  BY <1>1, <1>4, <1>7, <1>8, <1>9 DEF h

(* When the waiting head can be admitted.                                  *)
LEMMA AdmissionBlockProperties ==
  ASSUME SchedInv, NEW n
  PROVE  /\ AdmissionBlock(n) \in BlockReport
         /\ waiting = <<>> => AdmissionBlock(n) = NoBlock
         /\ waiting # <<>> =>
              IF n >= MaxNumBatchedTokens \/ Len(running) >= MaxNumSeqs
                 \/ CanAllocate(Head(waiting)) = NoRoom
              THEN AdmissionBlock(n) # NoBlock /\ AdmissionBlock(n).request = Head(waiting)
              ELSE AdmissionBlock(n) = NoBlock
<1>1. NoBlock \in BlockReport /\ NoBlock.reason = "none"
  BY DEF NoBlock, BlockReport
<1>2. CASE waiting = <<>>
  BY <1>1, <1>2 DEF AdmissionBlock
<1>3. CASE waiting # <<>>
  <2> DEFINE s == Head(waiting)
             Because(reason) == [request |-> s, reason |-> reason]
  <2>1. s \in SeqId
    BY <1>3, QueueTypes, PopProperties
  <2>2. \A x \in {"token_budget", "sequence_limit", "kv_cache"} :
          /\ Because(x) \in BlockReport /\ Because(x).request = s
          /\ Because(x).reason = x
    BY <2>1 DEF BlockReport
  <2>3. \A x \in {"token_budget", "sequence_limit", "kv_cache"} : Because(x) # NoBlock
    BY <1>1, <2>2
  <2>4. AdmissionBlock(n) =
          IF n >= MaxNumBatchedTokens THEN Because("token_budget")
          ELSE IF Len(running) >= MaxNumSeqs THEN Because("sequence_limit")
          ELSE IF CanAllocate(s) = NoRoom THEN Because("kv_cache")
          ELSE NoBlock
    BY <1>3 DEF AdmissionBlock
  <2> HIDE DEF Because
  <2> QED
    BY <1>1, <1>3, <2>2, <2>3, <2>4
<1> QED
  BY <1>2, <1>3

(* The budget of the running sequences is positive unless the head takes   *)
(* all of it.                                                              *)
LEMMA RunningBudgetProperties ==
  ASSUME SchedInv
  PROVE  /\ RunningBudget \in Nat /\ RunningBudget <= MaxNumBatchedTokens
         /\ waiting # <<>> /\ AdmissionBlock(0) = NoBlock =>
              RunningBudget < MaxNumBatchedTokens
         /\ RunningBudget = 0 => waiting # <<>> /\ AdmissionBlock(0) = NoBlock
<1>1. MaxNumBatchedTokens \in Nat \ {0}
  BY EngineOptions DEF ValidOptions
<1> QED
  BY <1>1 DEF RunningBudget

(* Counting places is counting elements.                                   *)
LEMMA CountIsCardinality ==
  ASSUME NEW T, NEW q \in Seq(T), NoDuplicates(q), NEW S
  PROVE  /\ Cardinality({i \in DOMAIN q : q[i] \in S}) = Cardinality(Range(q) \cap S)
         /\ IsFiniteSet(Range(q) \cap S)
<1> DEFINE r == Retain(q, S)
<1>1. /\ r \in Seq(T) /\ NoDuplicates(r) /\ Range(r) = Range(q) \cap S
      /\ Len(r) = Cardinality({i \in 1 .. Len(q) : q[i] \in S})
  BY RetainProperties
<1> HIDE DEF r
<1>2. Cardinality(Range(r)) = Len(r) /\ IsFiniteSet(Range(r))
  BY <1>1, LenIsCardinality
<1>3. {i \in 1 .. Len(q) : q[i] \in S} = {i \in DOMAIN q : q[i] \in S}
  OBVIOUS
<1> QED
  BY <1>1, <1>2, <1>3

(* can_append_batch counts the decoders that need a block.                 *)
LEMMA CanAppendProperties ==
  ASSUME NEW q \in Seq(SeqId), NoDuplicates(q),
         \A s \in Range(q) : MissingBlocks(s) \in {0, 1}
  PROVE  CanAppendBatch(q) <=>
           Cardinality({s \in Range(q) : MissingBlocks(s) = 1}) <= Len(free)
<1> DEFINE S == {s \in SeqId : MissingBlocks(s) = 1}
           I == {i \in DOMAIN q : q[i] \in S}
<1>1. Cardinality(I) = Cardinality(Range(q) \cap S)
  BY CountIsCardinality
<1>2. {s \in Range(q) : MissingBlocks(s) = 1} = Range(q) \cap S
  BY DEF Range
<1>3. {i \in DOMAIN q : MissingBlocks(q[i]) = 1} = I
  OBVIOUS
<1>4. \A i \in DOMAIN q : MissingBlocks(q[i]) \in {0, 1}
  BY DEF Range
<1> HIDE DEF I, S
<1> QED
  BY <1>1, <1>2, <1>3, <1>4 DEF CanAppendBatch

(* Every block is free or used.                                            *)
LEMMA FreeCount ==
  ASSUME CacheInv
  PROVE  /\ Len(free) \in Nat /\ IsFiniteSet(used) /\ Cardinality(used) \in Nat
         /\ Len(free) + Cardinality(used) = NumBlocks
<1>1. /\ free \in Seq(Block) /\ NoDuplicates(free) /\ Range(free) = Block \ used
      /\ used \subseteq Block
  BY DEF CacheInv, PoolInv, PoolTypeOK, Ownership, FreeListExact
<1>2. Cardinality(Range(free)) = Len(free)
  BY <1>1, LenIsCardinality
<1>7. Len(free) \in Nat
  BY <1>1
<1>3. IsFiniteSet(Block) /\ Cardinality(Block) = NumBlocks /\ NumBlocks \in Nat
  <2>1. NumBlocks \in Nat \ {0}
    BY PoolSizes
  <2>2. IsFiniteSet(0 .. NumBlocks - 1) /\
        Cardinality(0 .. NumBlocks - 1) =
          IF 0 > NumBlocks - 1 THEN 0 ELSE (NumBlocks - 1) - 0 + 1
    BY <2>1, FS_Interval
  <2> QED
    BY <2>1, <2>2 DEF Block
<1>4. IsFiniteSet(used) /\ Cardinality(used) \in Nat
  BY <1>1, <1>3, FS_Subset, FS_CardinalityType
<1>5. Cardinality(Block \ used) = Cardinality(Block) - Cardinality(Block \cap used)
  BY <1>3, FS_Difference
<1>6. Block \cap used = used
  BY <1>1
<1>8. Len(free) = NumBlocks - Cardinality(used)
  <2>1. Cardinality(Block \ used) = NumBlocks - Cardinality(used)
    BY <1>3, <1>5, <1>6
  <2> QED
    BY <1>1, <1>2, <2>1
<1> QED
  BY <1>3, <1>4, <1>7, <1>8

(* The blocks in use are the ones that running sequences hold.             *)
LEMMA UsedByRunning ==
  ASSUME SchedInv, CacheInv
  PROVE  used = {b \in Block : \E s \in Range(running) : b \in Range(table[s])}
<1>1. used = {b \in Block : \E s \in SeqId : b \in Range(table[s])}
  BY DEF CacheInv, PoolInv, Ownership, UsedExact, Owners
<1>2. \A s \in SeqId : table[s] # <<>> <=> s \in Range(running)
  BY DEF SchedInv, OnlyRunningOwn
<1>3. \A s \in SeqId : s \notin Range(running) => Range(table[s]) = {}
  BY <1>2 DEF Range
<1>4. Range(running) \subseteq SeqId
  BY QueueTypes
<1> QED
  BY <1>1, <1>3, <1>4

(* An empty pool has room for any request.                                 *)
LEMMA EmptyPoolHasRoom ==
  ASSUME SchedInv, CacheInv, running = <<>>, waiting # <<>>
  PROVE  CanAllocate(Head(waiting)) # NoRoom
<1> DEFINE s == Head(waiting)
           L == Len(tokens[s])
           N == BlocksNeeded(s)
           cached == CachedPrefix(s, N - 1)
           shared == {i \in DOMAIN cached : cached[i] \in used}
<1>0. SchedTypeOK /\ PoolTypeOK /\ PoolInv
  BY DEF SchedInv, SchedTypeOK, CacheInv
<1>1. s \in SeqId /\ s \in Range(waiting)
  BY QueueTypes, PopProperties
<1>2. /\ L \in Nat \ {0} /\ L <= MaxModelLen
  <2>1. RequestOK(s) /\ Queued(s)
    BY <1>1 DEF SchedInv, Queued
  <2>2. LengthsOK(s) /\ (s \notin finished => L < numPrompt[s] + maxTokens[s])
    BY <2>1 DEF RequestOK
  <2>3. L \in Nat /\ numPrompt[s] \in Nat /\ maxTokens[s] \in Nat
    BY <1>0, <1>1, RequestTypes
  <2>4. s \notin finished
    <3>1. finished \subseteq Range(running)
      BY DEF SchedInv, PlanOK
    <3> QED
      BY <3>1 DEF Range
  <2> QED
    BY <2>2, <2>3, <2>4, PoolSizes DEF LengthsOK
<1>3. tokens[s] # <<>>
  BY <1>2
<1>4. N \in Nat \ {0} /\ N - 1 \in Nat /\ N - 1 <= L \div BlockSize
  BY <1>0, <1>1, <1>3, BlocksNeededProperties
<1>5. used = {} /\ Len(free) = NumBlocks
  <2>1. used = {}
    <3>1. Range(running) = {}
      BY DEF Range
    <3> QED
      BY <3>1, UsedByRunning
  <2>2. Cardinality(used) = 0 /\ Len(free) \in Nat /\ Len(free) + Cardinality(used) = NumBlocks
    BY <2>1, FreeCount, FS_EmptySet
  <2> QED
    BY <2>1, <2>2
<1>6. shared = {} /\ Cardinality(shared) = 0
  BY <1>5, FS_EmptySet
<1>7. N <= NumBlocks
  <2> DEFINE B == BlockSize
             v == NumBlocks * B
  <2>1. L \in Nat /\ B \in Nat \ {0} /\ NumBlocks \in Nat
    BY <1>2, PoolSizes
  <2>2. N = (L + B - 1) \div B
    BY DEF BlocksNeeded
  <2>3. L <= v /\ v \in Nat
    BY <1>2, <2>1, PoolSizes, PoolHoldsOneRequest
  <2> HIDE DEF L, B, N
  <2>4. ASSUME NumBlocks + 1 <= N PROVE FALSE
    <3>1. (NumBlocks + 1) * B <= L + B - 1
      BY <2>1, <2>2, <2>4, DivBound
    <3>2. (NumBlocks + 1) * B = v + B
      BY <2>1
    <3> HIDE DEF v
    <3> QED
      BY <2>1, <2>3, <3>1, <3>2
  <2> QED
    BY <1>4, <2>1, <2>4
<1>8. CachedPrefix(s, N - 1) \in Seq(Block)
  BY <1>0, <1>1, <1>3, <1>4, CachedPrefixProperties
<1>9. CanAllocate(s) = Len(cached)
  <2>1. ~(Len(free) < N - Cardinality(shared)) /\ N # 0
    BY <1>4, <1>5, <1>6, <1>7, PoolSizes
  <2> QED
    BY <2>1 DEF CanAllocate
<1> HIDE DEF cached
<1> QED
  BY <1>8, <1>9 DEF NoRoom, cached

(* can_allocate reads the pool only.                                       *)
LEMMA CanAllocateUnchanged ==
  ASSUME UNCHANGED poolVars, NEW s
  PROVE  CanAllocate(s)' = CanAllocate(s)
<1> DEFINE Hits(ix, hs, id, x, ts) == {k \in DOMAIN ix[x] : hs[ix[x][k]] = x /\ id[ix[x][k]] = ts}
           Id(ix, hs, id, us, x, ts) ==
             LET hits == Hits(ix, hs, id, x, ts)
                 usedHits == {k \in hits : ix[x][k] \in us}
             IN  ix[x][Max(IF usedHits # {} THEN usedHits ELSE hits)]
           Chain(tk, start, seed, end) ==
             LET h[i \in start .. end] ==
                   IF i = start THEN seed
                   ELSE XxHash(h[i - 1], SubSeq(tk[s], (i - 1) * BlockSize + 1, i * BlockSize))
             IN  h
           Prefix(tk, ix, hs, id, us, n) ==
             LET h == Chain(tk, 0, NoHash, Len(tk[s]) \div BlockSize)
                 Hit(i) == Hits(ix, hs, id, h[i], SubSeq(tk[s], 1, i * BlockSize)) # {}
                 length == Max({k \in 0 .. n : \A i \in 1 .. k : Hit(i)})
             IN  [i \in 1 .. length |-> Id(ix, hs, id, us, h[i], SubSeq(tk[s], 1, i * BlockSize))]
           Needed(tk) == (Len(tk[s]) + BlockSize - 1) \div BlockSize
           Room(tk, ix, hs, id, us, fr) ==
             LET cached == Prefix(tk, ix, hs, id, us, Needed(tk) - 1)
                 shared == {i \in DOMAIN cached : cached[i] \in us}
             IN  IF Needed(tk) = 0 THEN 0
                 ELSE IF Len(fr) < Needed(tk) - Cardinality(shared) THEN NoRoom
                 ELSE Len(cached)
<1>1. CanAllocate(s) = Room(tokens, index, hash, identity, used, free)
  BY Zenon DEF CanAllocate, CachedPrefix, ChainHash, BlockTokens, BucketHits, PrefixTokens,
               CachedBlockId, BlocksNeeded
<1>2. CanAllocate(s)' = Room(tokens', index', hash', identity', used', free')
  BY Zenon DEF CanAllocate, CachedPrefix, ChainHash, BlockTokens, BucketHits, PrefixTokens,
               CachedBlockId, BlocksNeeded
<1>3. UNCHANGED <<tokens, index, hash, identity, used, free>>
  BY DEF poolVars
<1> HIDE DEF Room
<1> QED
  BY <1>1, <1>2, <1>3, Zenon

(* The decoders of the next decision are running sequences, each once.     *)
LEMMA DecodeBatchProperties ==
  ASSUME SchedInv
  PROVE  /\ DecodeBatch \in Seq(SeqId) /\ NoDuplicates(DecodeBatch)
         /\ Range(DecodeBatch) =
              {running[i] : i \in {j \in DOMAIN running :
                 Phase(running[j]) = "decode" /\ Share(j, RunningBudget) > 0}}
         /\ \A s \in Range(DecodeBatch) : MissingBlocks(s) \in {0, 1}
<1> DEFINE S == {running[i] : i \in {j \in DOMAIN running :
                   Phase(running[j]) = "decode" /\ Share(j, RunningBudget) > 0}}
<1>1. running \in Seq(SeqId) /\ NoDuplicates(running) /\ Range(running) \subseteq SeqId
  BY QueueTypes
<1>2. S \subseteq Range(running)
  BY DEF Range
<1>3. DecodeBatch = Retain(running, S)
  BY DEF DecodeBatch
<1>4. \A s \in S : Phase(s) = "decode"
  OBVIOUS
<1> HIDE DEF S
<1>5. /\ DecodeBatch \in Seq(SeqId) /\ NoDuplicates(DecodeBatch)
      /\ Range(DecodeBatch) = Range(running) \cap S
  BY <1>1, <1>3, RetainProperties
<1>6. Range(DecodeBatch) = S
  BY <1>2, <1>5
<1>7. ASSUME NEW s \in S PROVE MissingBlocks(s) \in {0, 1}
  <2>1. RequestOK(s) /\ s \in Range(running) /\ Phase(s) # "prefill"
    BY <1>1, <1>2, <1>4 DEF SchedInv
  <2>2. InPhase(s)
    BY <2>1 DEF RequestOK
  <2> QED
    BY <2>1, <2>2 DEF InPhase
<1> QED
  BY <1>5, <1>6, <1>7 DEF S

(* The running sequences are scheduled, within the budget.                 *)
LEMMA ScheduleRunningOK ==
  ASSUME SchedInv, CacheInv, PoolTypeOK', ScheduleRunning
  PROVE  SchedInv'
<1> DEFINE n == Len(running)
           share == [i \in DOMAIN running |-> Share(i, RunningBudget)]
<1>0. SchedTypeOK
  BY DEF SchedInv
<1>1. /\ pc = "preempt" /\ pc' = "admit" /\ CanAppendBatch(DecodeBatch)
      /\ blockedBefore' = AdmissionBlock(0) /\ runningBefore' = Len(running)
      /\ numScheduled' = [s \in SeqId |->
                            IF s \in Range(running)
                            THEN Share(PositionIn(running, s), RunningBudget)
                            ELSE numScheduled[s]]
      /\ UNCHANGED poolVars
      /\ UNCHANGED <<numPrompt, recomputeTarget, maxTokens, ignoreEos, waiting,
                     running, nextId, inFlight, blocked, path, result, applied, finished,
                     recovered, outputs>>
  BY DEF ScheduleRunning
<1>2. UNCHANGED <<free, used, tokens, table, numCached>>
  BY <1>1 DEF poolVars
<1>3. /\ running \in Seq(SeqId) /\ n \in Nat /\ DOMAIN running = 1 .. n
      /\ NoDuplicates(running) /\ Range(running) \subseteq SeqId
      /\ \A i \in 1 .. n : running[i] \in SeqId /\ running[i] \in Range(running)
  BY QueueTypes DEF Range
<1>4. /\ RunningBudget \in Nat /\ RunningBudget <= MaxNumBatchedTokens
      /\ waiting # <<>> /\ AdmissionBlock(0) = NoBlock => RunningBudget < MaxNumBatchedTokens
      /\ RunningBudget = 0 => waiting # <<>> /\ AdmissionBlock(0) = NoBlock
  BY RunningBudgetProperties
<1>5. /\ \A i \in DOMAIN running :
           Share(i, RunningBudget) \in Nat /\ Share(i, RunningBudget) <= Wanted(running[i])
      /\ RunningBudget > 0 /\ running # <<>> => Share(1, RunningBudget) > 0
      /\ Total(share) <= RunningBudget
  BY <1>4, ShareProperties
<1>6. ASSUME NEW i \in DOMAIN running
      PROVE  numScheduled'[running[i]] = Share(i, RunningBudget)
  <2>1. running[i] \in Range(running) /\ running[i] \in SeqId
    BY <1>3
  <2>2. PositionIn(running, running[i]) = i
    BY <1>3, <2>1, PositionProperties DEF NoDuplicates
  <2> QED
    BY <1>1, <2>1, <2>2
<1>7. \A s \in SeqId : s \notin Range(running) => numScheduled'[s] = 0
  BY <1>1, NothingScheduled
<1>8. \A s \in Range(running) : \E i \in DOMAIN running : running[i] = s
  BY DEF Range
<1>9. \A s \in SeqId : Same(s)
  BY <1>1, <1>2 DEF Same
<1>10. SchedTypeOK'
  <2>1. \A s \in SeqId : numScheduled'[s] \in Nat
    BY <1>5, <1>6, <1>7, <1>8
  <2>2. numScheduled' \in [SeqId -> Nat]
    BY <1>1, <2>1
  <2>3. {blockedBefore', blocked'} \subseteq BlockReport
    BY <1>0, <1>1, AdmissionBlockProperties DEF SchedTypeOK
  <2>4. runningBefore' \in Nat
    BY <1>1, <1>3
  <2> QED
    BY <1>0, <1>1, <2>2, <2>3, <2>4, Zenon DEF SchedTypeOK
<1>11. Ordered(running, waiting, nextId)'
  BY <1>1 DEF SchedInv, Ordered, Increasing
<1>12. OnlyRunningOwn'
  BY <1>1, <1>2 DEF SchedInv, OnlyRunningOwn
<1>13. ASSUME NEW s \in SeqId PROVE RequestOK(s)'
  <2>1. RequestOK(s) /\ Same(s)
    BY <1>9 DEF SchedInv
  <2>2. WorkOK(s)'
    <3>1. CASE s \notin Range(running)
      BY <1>7, <3>1, NoWork
    <3>2. CASE s \in Range(running)
      <4>1. numScheduled'[s] <= Wanted(s)
        BY <1>5, <1>6, <1>8, <3>2
      <4>2. Wanted(s)' = Wanted(s)
        BY <2>1, SameFields
      <4> QED
        BY <1>1, <3>2, <4>1, <4>2 DEF WorkOK, Selecting, Executing
    <3> QED
      BY <3>1, <3>2
  <2> QED
    BY <1>1, <2>1, <2>2, RequestKept
<1>14. PlanOK'
  BY <1>1, NotExecuting, NoPlan DEF Executing
<1>15. ScheduledTokens' <= RunningBudget
  <2>1. [i \in DOMAIN running' |-> numScheduled'[running'[i]]] = share
    BY <1>1, <1>6
  <2>2. ScheduledTokens' = Total(share)
    BY <2>1 DEF ScheduledTokens
  <2> QED
    BY <1>5, <2>2
<1>16. Early' = Range(running)
  BY <1>1, <1>3 DEF Early, Range
<1>17. ScheduledTokens' \in Nat
  <2>1. [i \in DOMAIN running' |-> numScheduled'[running'[i]]] \in Seq(Nat)
    BY <1>1, <1>3, <1>5, <1>6
  <2> QED
    BY <2>1, SumType DEF ScheduledTokens
<1>18. SelectionOK'
  <2>1. Len(running') <= MaxNumSeqs
    BY <1>1 DEF SchedInv, SelectionOK
  <2>2. ScheduledTokens' <= MaxNumBatchedTokens
    BY <1>4, <1>15, <1>17, EngineOptions DEF ValidOptions
  <2>3. runningBefore' <= Len(running') /\ \A i \in DOMAIN running' : ~(i > runningBefore')
    BY <1>1, <1>3
  <2>4. HeldEarly' = used
    BY <1>2, <1>16, UsedByRunning DEF HeldEarly
  <2>5. ShortDecoders' = {s \in Range(DecodeBatch) : MissingBlocks(s) = 1}
    <3>1. \A s \in SeqId : Phase(s)' = Phase(s) /\ MissingBlocks(s)' = MissingBlocks(s)
      BY <1>9, SameFields
    <3>2. ShortDecoders' = {s \in Range(running) :
              numScheduled'[s] > 0 /\ Phase(s)' = "decode" /\ MissingBlocks(s)' = 1}
      BY <1>1 DEF ShortDecoders
    <3>3. ShortDecoders' = {s \in Range(running) :
              numScheduled'[s] > 0 /\ Phase(s) = "decode" /\ MissingBlocks(s) = 1}
      BY <1>3, <3>1, <3>2
    <3>4. Range(DecodeBatch) =
              {running[i] : i \in {j \in DOMAIN running :
                 Phase(running[j]) = "decode" /\ Share(j, RunningBudget) > 0}}
      BY DecodeBatchProperties
    <3>5. Range(DecodeBatch) =
            {s \in Range(running) : numScheduled'[s] > 0 /\ Phase(s) = "decode"}
      BY <1>6, <3>4 DEF Range
    <3> QED
      BY <3>3, <3>5
  <2>6. Cardinality({s \in Range(DecodeBatch) : MissingBlocks(s) = 1}) <= Len(free)
    BY <1>1, DecodeBatchProperties, CanAppendProperties
  <2>7. Cardinality(used) \in Nat /\ Len(free) \in Nat /\ Len(free) + Cardinality(used) = NumBlocks
    BY FreeCount
  <2>8. Cardinality({s \in Range(DecodeBatch) : MissingBlocks(s) = 1}) \in Nat
    <3>1. IsFiniteSet(Range(DecodeBatch))
      BY DecodeBatchProperties, LenIsCardinality
    <3> QED
      BY <3>1, FS_Subset, FS_CardinalityType
  <2>9. (Cardinality(HeldEarly) + Cardinality(ShortDecoders) <= NumBlocks)'
    <3> DEFINE c == Cardinality({s \in Range(DecodeBatch) : MissingBlocks(s) = 1})
               u == Cardinality(used)
    <3>1. Cardinality(HeldEarly)' = u /\ Cardinality(ShortDecoders)' = c
      BY <2>4, <2>5
    <3> HIDE DEF c, u
    <3>2. c \in Nat /\ u \in Nat /\ c <= Len(free) /\ Len(free) \in Nat /\ Len(free) + u = NumBlocks
      BY <2>6, <2>7, <2>8 DEF c, u
    <3> QED
      BY <3>1, <3>2
  <2> QED
    BY <1>1, <2>1, <2>2, <2>3, <2>9 DEF SelectionOK, Selecting
<1>19. ProgressOK'
  <2>1. CASE running # <<>> /\ RunningBudget > 0
    <3>1. 1 \in DOMAIN running
      BY <2>1, EmptySeq, <1>3
    <3>2. running[1] \in Early' /\ numScheduled'[running[1]] > 0
      BY <1>3, <1>5, <1>6, <1>16, <2>1, <3>1
    <3>3. EarlyWork'
      BY <3>2 DEF EarlyWork
    <3> QED
      BY <1>1, <3>3 DEF ProgressOK
  <2>2. CASE waiting # <<>> /\ AdmissionBlock(0) = NoBlock
    <3>1. /\ Len(running) < MaxNumSeqs /\ CanAllocate(Head(waiting)) # NoRoom
      <4>1. ~(Len(running) >= MaxNumSeqs) /\ CanAllocate(Head(waiting)) # NoRoom
        BY <2>2, AdmissionBlockProperties
      <4> QED
        BY <1>3, <4>1, EngineOptions DEF ValidOptions
    <3>2. CanAllocate(Head(waiting))' # NoRoom
      <4>1. PICK h : h = Head(waiting)
        OBVIOUS
      <4>2. Head(waiting)' = h
        BY <1>1, <4>1
      <4>3. CanAllocate(h)' = CanAllocate(h)
        BY <1>1, CanAllocateUnchanged
      <4> QED
        BY <3>1, <4>1, <4>2, <4>3
    <3>3. ScheduledTokens' < MaxNumBatchedTokens
      BY <1>4, <1>15, <1>17, <2>2, EngineOptions DEF ValidOptions
    <3>4. CanAdmit'
      BY <1>1, <2>2, <3>1, <3>2, <3>3 DEF CanAdmit
    <3> QED
      BY <1>1, <3>4 DEF ProgressOK
  <2>3. CASE running = <<>>
    <3>1. waiting # <<>>
      BY <1>1, <2>3 DEF SchedInv, ProgressOK, IsRunning
    <3>2. CanAllocate(Head(waiting)) # NoRoom
      BY <2>3, <3>1, EmptyPoolHasRoom
    <3>3. ~(0 >= MaxNumBatchedTokens) /\ ~(Len(running) >= MaxNumSeqs)
      BY <2>3, EngineOptions DEF ValidOptions
    <3>4. AdmissionBlock(0) = NoBlock
      BY <3>1, <3>2, <3>3, AdmissionBlockProperties
    <3> QED
      BY <2>2, <3>1, <3>4
  <2> QED
    BY <1>4, <2>1, <2>2, <2>3
<1> QED
  BY <1>10, <1>11, <1>12, <1>13, <1>14, <1>18, <1>19 DEF SchedInv

(* What an admission does to the sequences.                                *)
LEMMA AdmitEffect ==
  ASSUME PoolInv, NEW s \in SeqId, Admit(s)
  PROVE  /\ tokens' = tokens
         /\ table'[s] # <<>> /\ MissingBlocks(s)' = 0
         /\ numCached'[s] = CanAllocate(s) * BlockSize
         /\ CanAllocate(s) * BlockSize \in Nat
         /\ CanAllocate(s) * BlockSize < Len(tokens[s])
         /\ \A r \in SeqId : r # s => table'[r] = table[r] /\ numCached'[r] = numCached[r]
<1> DEFINE n == CanAllocate(s)
           N == BlocksNeeded(s)
           B == BlockSize
           L == Len(tokens[s])
           cached == CachedPrefix(s, n)
           rest == Retain(free, Block \ Range(cached))
           fresh == SubSeq(rest, 1, N - n)
<1>0. PoolTypeOK /\ tokens[s] # <<>> /\ n # NoRoom
  BY DEF PoolInv, Admit
<1>1. /\ n \in Nat /\ n <= N - 1
      /\ Len(cached) = n /\ Len(fresh) = N - n
      /\ cached \in Seq(Block) /\ fresh \in Seq(Block)
  BY <1>0, AdmitPlan
<1>2. N \in Nat \ {0} /\ B \in Nat \ {0} /\ L \in Nat
  BY <1>0, BlocksNeededProperties, SequenceTypes
<1>3. /\ tokens' = tokens
      /\ table' = [table EXCEPT ![s] = cached \o fresh]
      /\ numCached' = [numCached EXCEPT ![s] = n * B]
  BY DEF Admit, Allocate
<1>4. N = (L + B - 1) \div B
  BY DEF BlocksNeeded
<1> HIDE DEF n, N, B, L, cached, fresh
<1>5. n * B < L
  <2>1. (n + 1) * B <= L + B - 1
    <3>1. n + 1 \in Nat /\ n + 1 <= N /\ L + B - 1 \in Nat
      BY <1>1, <1>2
    <3> QED
      BY <1>2, <1>4, <3>1, DivBound
  <2>2. (n + 1) * B = n * B + B /\ n * B \in Int
    BY <1>1, <1>2
  <2> QED
    BY <1>2, <2>1, <2>2
<1>6. n * B \in Nat
  BY <1>1, <1>2
<1>7. table'[s] = cached \o fresh /\ numCached'[s] = n * B
  BY <1>0, <1>3 DEF PoolTypeOK
<1>8. Len(cached \o fresh) = N
  <2>1. Len(cached \o fresh) = Len(cached) + Len(fresh)
    BY <1>1, ConcatProperties
  <2> QED
    BY <1>1, <1>2, <2>1
<1>9. Len(table'[s]) = N
  BY <1>7, <1>8
<1>10. table'[s] # <<>>
  BY <1>2, <1>9
<1>11. MissingBlocks(s)' = 0
  <2>1. BlocksNeeded(s)' = N
    BY <1>3 DEF BlocksNeeded, N
  <2> QED
    BY <1>2, <1>9, <2>1 DEF MissingBlocks
<1>12. \A r \in SeqId : r # s => table'[r] = table[r] /\ numCached'[r] = numCached[r]
  BY <1>0, <1>3 DEF PoolTypeOK
<1> QED
  BY <1>3, <1>5, <1>6, <1>7, <1>10, <1>11, <1>12 DEF n, B, L

(* A waiting request has tokens to compute and no blocks.                  *)
LEMMA WaitingProperties ==
  ASSUME SchedInv, NEW s \in Range(waiting)
  PROVE  /\ s \in SeqId /\ tokens[s] # <<>> /\ table[s] = <<>>
         /\ PrefillTarget(s) = Len(tokens[s]) /\ s \notin Range(running)
<1>1. s \in SeqId /\ s \notin Range(running)
  BY QueueTypes
<1>2. RequestOK(s) /\ Queued(s)
  BY <1>1 DEF SchedInv, Queued
<1>3. PrefillTarget(s) = Len(tokens[s]) /\ LengthsOK(s)
  BY <1>2 DEF RequestOK
<1>4. Len(tokens[s]) \in Nat
  BY <1>1, RequestTypes DEF SchedInv
<1>5. tokens[s] # <<>>
  BY <1>3, <1>4 DEF LengthsOK
<1> QED
  BY <1>1, <1>3, <1>5 DEF SchedInv, OnlyRunningOwn

(* The sequences that ran before keep their places and blocks.             *)
LEMMA EarlyKept ==
  ASSUME runningBefore' = runningBefore,
         \A i \in 1 .. runningBefore : running'[i] = running[i],
         \A s \in Early : table'[s] = table[s]
  PROVE  Early' = Early /\ HeldEarly' = HeldEarly
<1>1. Early' = Early
  BY DEF Early
<1> QED
  BY <1>1 DEF HeldEarly

(* The sequences admitted in this step stand behind the ones that ran      *)
(* before.                                                                 *)
LEMMA EarlyProperties ==
  ASSUME SchedInv, Selecting
  PROVE  /\ runningBefore \in Nat /\ runningBefore <= Len(running)
         /\ Early \subseteq Range(running)
         /\ \A i \in DOMAIN running : running[i] \in Early <=> i <= runningBefore
         /\ \A i \in DOMAIN running : i > runningBefore =>
              Phase(running[i]) = "prefill" /\ numScheduled[running[i]] > 0
<1>1. /\ runningBefore \in Nat /\ runningBefore <= Len(running)
      /\ \A i \in DOMAIN running : i > runningBefore =>
              Phase(running[i]) = "prefill" /\ numScheduled[running[i]] > 0
  BY DEF SchedInv, SchedTypeOK, SelectionOK
<1>2. Len(running) \in Nat /\ DOMAIN running = 1 .. Len(running) /\ NoDuplicates(running)
  BY QueueTypes
<1>3. \A i \in 1 .. runningBefore : i \in DOMAIN running
  BY <1>1, <1>2
<1>4. Early \subseteq Range(running)
  BY <1>3 DEF Early, Range
<1>5. ASSUME NEW i \in DOMAIN running PROVE running[i] \in Early <=> i <= runningBefore
  <2>1. ASSUME i <= runningBefore PROVE running[i] \in Early
    BY <1>1, <1>2, <2>1 DEF Early
  <2>2. ASSUME running[i] \in Early PROVE i <= runningBefore
    <3>1. PICK j \in 1 .. runningBefore : running[j] = running[i]
      BY <2>2 DEF Early
    <3>2. j = i
      BY <1>2, <1>3, <3>1 DEF NoDuplicates
    <3> QED
      BY <1>1, <3>2
  <2> QED
    BY <2>1, <2>2
<1> QED
  BY <1>1, <1>4, <1>5

(* The scheduled tokens are counted.                                       *)
LEMMA ScheduledTokensType ==
  ASSUME SchedInv
  PROVE  /\ [i \in DOMAIN running |-> numScheduled[running[i]]] \in Seq(Nat)
         /\ Len([i \in DOMAIN running |-> numScheduled[running[i]]]) = Len(running)
         /\ ScheduledTokens \in Nat
<1>1. running \in Seq(SeqId) /\ Len(running) \in Nat /\ DOMAIN running = 1 .. Len(running)
  BY QueueTypes
<1>2. numScheduled \in [SeqId -> Nat]
  BY DEF SchedInv, SchedTypeOK
<1>3. \A i \in 1 .. Len(running) : numScheduled[running[i]] \in Nat
  BY <1>1, <1>2
<1> DEFINE f == [i \in DOMAIN running |-> numScheduled[running[i]]]
<1>4. f \in Seq(Nat) /\ Len(f) = Len(running)
  BY <1>1, <1>3
<1> HIDE DEF f
<1>5. Total(f) \in Nat
  BY <1>4, SumType
<1> QED
  BY <1>4, <1>5 DEF ScheduledTokens, f

(* The waiting head is admitted.                                           *)
LEMMA AdmitHeadOK ==
  ASSUME SchedInv, CacheInv, PoolTypeOK', AdmitHead
  PROVE  SchedInv'
<1> DEFINE n == Len(running)
           M == MaxNumBatchedTokens
<1>0. SchedTypeOK /\ PoolInv
  BY DEF SchedInv, CacheInv
<1>1. /\ waiting # <<>> /\ running \in Seq(SeqId) /\ waiting \in Seq(SeqId)
      /\ running \in Seq(Int) /\ waiting \in Seq(Int) /\ nextId \in Int
      /\ n \in Nat /\ DOMAIN running = 1 .. n
      /\ \A i \in 1 .. n : running[i] \in SeqId /\ running[i] \in Range(running)
  BY QueueTypes DEF AdmitHead, CanAdmit, Range
<1>2. PICK s \in SeqId : s = Head(waiting)
  BY <1>1, PopProperties
<1>3. s \in Range(waiting)
  BY <1>1, <1>2, PopProperties
<1>4. /\ tokens[s] # <<>> /\ PrefillTarget(s) = Len(tokens[s]) /\ s \notin Range(running)
  BY <1>3, WaitingProperties
<1> DEFINE c == CanAllocate(s) * BlockSize
           x == Min({PrefillTarget(s) - c, M - ScheduledTokens})
<1>5. /\ pc = "admit" /\ pc' = "admit"
      /\ Len(running) < MaxNumSeqs /\ ScheduledTokens < M
      /\ Admit(s)
      /\ numScheduled' = [numScheduled EXCEPT ![s] = x]
      /\ running' = Append(running, s) /\ waiting' = Tail(waiting)
      /\ UNCHANGED <<numPrompt, recomputeTarget, maxTokens, ignoreEos, nextId, inFlight,
                     runningBefore, blockedBefore, blocked, path, result, applied, finished,
                     recovered, outputs>>
  BY <1>2 DEF AdmitHead, CanAdmit, callVars
<1>6. /\ tokens' = tokens
      /\ table'[s] # <<>> /\ MissingBlocks(s)' = 0 /\ numCached'[s] = c
      /\ c \in Nat /\ c < Len(tokens[s])
      /\ \A r \in SeqId : r # s => table'[r] = table[r] /\ numCached'[r] = numCached[r]
  BY <1>0, <1>5, AdmitEffect
<1>7. /\ running' \in Seq(SeqId) /\ Len(running') = n + 1
      /\ \A i \in 1 .. n : running'[i] = running[i]
      /\ running'[n + 1] = s
      /\ Range(running)' = Range(running) \cup {s}
  BY <1>1, <1>5, PushBackProperties
<1>8. waiting' \in Seq(SeqId) /\ Range(waiting) = {s} \cup Range(waiting)'
  BY <1>1, <1>2, <1>5, PopProperties
<1>9. ScheduledTokens \in Nat /\ M \in Nat /\ ScheduledTokens <= M /\ Len(tokens[s]) \in Nat
  BY <1>0, <1>5, ScheduledTokensType, RequestTypes, EngineOptions
     DEF ValidOptions, SchedInv, SelectionOK, Selecting
<1>10. /\ x \in Nat \ {0} /\ x <= PrefillTarget(s) - c /\ x <= M - ScheduledTokens
  <2> DEFINE a == PrefillTarget(s) - c
             b == M - ScheduledTokens
  <2>1. a \in Nat \ {0} /\ b \in Nat \ {0} /\ a \in Int /\ b \in Int
    BY <1>4, <1>5, <1>6, <1>9
  <2>2. x = Min({a, b})
    OBVIOUS
  <2> HIDE DEF a, b, x
  <2>3. x = IF a <= b THEN a ELSE b
    BY <2>1, <2>2, MinMaxOfTwo
  <2>4. x \in Nat \ {0} /\ x <= a /\ x <= b
    BY <2>1, <2>3
  <2> QED
    BY <2>4 DEF a, b
<1> HIDE DEF x, c
<1>11. /\ numScheduled'[s] = x
       /\ \A r \in SeqId : r # s => numScheduled'[r] = numScheduled[r]
  BY <1>0, <1>5 DEF SchedTypeOK
<1>12. SchedTypeOK'
  <2>1. numScheduled' \in [SeqId -> Nat]
    BY <1>0, <1>5, <1>10 DEF SchedTypeOK
  <2> QED
    BY <1>0, <1>5, <1>7, <1>8, <2>1, Zenon DEF SchedTypeOK
<1>13. Ordered(running, waiting, nextId)'
  <2>1. Ordered(Append(running, Head(waiting)), Tail(waiting), nextId)
    BY <1>1, OrderedForth DEF SchedInv
  <2> QED
    BY <1>2, <1>5, <2>1
<1>14. OnlyRunningOwn'
  <2> SUFFICES ASSUME NEW r \in SeqId
               PROVE  table'[r] # <<>> <=> r \in Range(running)'
    BY DEF OnlyRunningOwn
  <2>1. table[r] # <<>> <=> r \in Range(running)
    BY DEF SchedInv, OnlyRunningOwn
  <2> QED
    BY <1>6, <1>7, <2>1
<1>15. \A r \in SeqId : r # s => Same(r)
  BY <1>5, <1>6 DEF Same
<1>16. ASSUME NEW r \in SeqId, r # s PROVE RequestOK(r)'
  <2>1. RequestOK(r) /\ Same(r) /\ WorkOK(r)
    BY <1>15, <1>16 DEF SchedInv, RequestOK
  <2>2. WorkOK(r)'
    <3>1. Wanted(r)' = Wanted(r) /\ numScheduled'[r] = numScheduled[r]
      BY <1>11, <1>16, <2>1, SameFields
    <3> QED
      BY <1>5, <1>7, <2>1, <3>1 DEF WorkOK, Selecting, Executing
  <2>3. /\ r >= nextId' => r >= nextId
        /\ r \in Range(running)' => r \in Range(running)
        /\ r \in Range(waiting)' => r \in Range(waiting)
    BY <1>5, <1>7, <1>8, <1>16
  <2> QED
    BY <1>5, <2>1, <2>2, <2>3, RequestKept
<1>17. /\ PrefillTarget(s)' = PrefillTarget(s)
       /\ Phase(s)' = "prefill" /\ Wanted(s)' = PrefillTarget(s) - c
  <2>1. PrefillTarget(s)' = PrefillTarget(s)
    BY <1>5 DEF PrefillTarget
  <2>2. Phase(s)' = "prefill"
    BY <1>4, <1>6, <2>1 DEF Phase
  <2> QED
    BY <1>6, <2>1, <2>2 DEF Wanted
<1>18. RequestOK(s)'
  <2>1. RequestOK(s) /\ Queued(s)
    BY <1>3 DEF SchedInv, Queued
  <2>2. LengthsOK(s)'
    BY <1>5, <1>6, <2>1 DEF RequestOK, LengthsOK
  <2>3. InPhase(s)'
    BY <1>4, <1>6, <1>17 DEF InPhase
  <2>4. WorkOK(s)'
    BY <1>5, <1>6, <1>7, <1>10, <1>11, <1>17 DEF WorkOK, Selecting, Executing
  <2>5. s \notin finished' => (Len(tokens[s]) < numPrompt[s] + maxTokens[s])'
    BY <1>5, <1>6, <2>1 DEF RequestOK
  <2>6. ~(s >= nextId')
    <3>1. ~(s >= nextId)
      BY <1>0, <1>1, <1>3, RequestTypes DEF SchedInv, Ordered
    <3> QED
      BY <1>5, <3>1
  <2>7. (PrefillTarget(s) = Len(tokens[s]))'
    BY <1>4, <1>6, <1>17
  <2> QED
    BY <2>2, <2>3, <2>4, <2>5, <2>6, <2>7 DEF RequestOK
<1>19. PlanOK'
  BY <1>5, NotExecuting, NoPlan DEF Executing
<1>20. /\ runningBefore \in Nat /\ runningBefore <= n /\ Early \subseteq Range(running)
       /\ \A i \in DOMAIN running : i > runningBefore =>
              Phase(running[i]) = "prefill" /\ numScheduled[running[i]] > 0
  BY <1>5, EarlyProperties DEF Selecting
<1>21. SelectionOK'
  <2>1. Len(running') <= MaxNumSeqs
    BY <1>1, <1>5, <1>7, EngineOptions DEF ValidOptions
  <2>2. ScheduledTokens' <= M
    <3> DEFINE f == [i \in DOMAIN running |-> numScheduled[running[i]]]
               g == [i \in DOMAIN running' |-> numScheduled'[running'[i]]]
    <3>1. f \in Seq(Nat) /\ Len(f) = n /\ Total(f) = ScheduledTokens
      BY ScheduledTokensType DEF ScheduledTokens
    <3>2. g = Append(f, x)
      <4>1. DOMAIN running' = 1 .. n + 1
        BY <1>1, <1>7
      <4>2. \A i \in 1 .. n : numScheduled'[running'[i]] = f[i]
        BY <1>1, <1>4, <1>7, <1>11
      <4>3. numScheduled'[running'[n + 1]] = x
        BY <1>7, <1>11
      <4>4. /\ Append(f, x) \in Seq(Nat) /\ Len(Append(f, x)) = n + 1
            /\ \A i \in 1 .. n : Append(f, x)[i] = f[i]
            /\ Append(f, x)[n + 1] = x
        BY <1>10, <3>1, PushBackProperties
      <4>5. g = [i \in 1 .. n + 1 |-> numScheduled'[running'[i]]]
        BY <4>1
      <4> HIDE DEF f, g, n
      <4>6. \A i \in 1 .. n + 1 : i \in 1 .. n \/ i = n + 1
        BY <1>1 DEF n
      <4>7. \A i \in 1 .. n + 1 : g[i] = Append(f, x)[i]
        BY <4>2, <4>3, <4>4, <4>5, <4>6
      <4> DEFINE a == Append(f, x)
      <4>8. a \in Seq(Nat) /\ Len(a) = n + 1
        BY <4>4
      <4> HIDE DEF a
      <4>9. a = [i \in 1 .. n + 1 |-> a[i]]
        BY <4>8
      <4>10. g = [i \in 1 .. n + 1 |-> a[i]]
        BY <4>5, <4>7 DEF a
      <4> QED
        BY <4>9, <4>10 DEF a
    <3>3. ScheduledTokens' = Total(g)
      BY DEF ScheduledTokens
    <3> HIDE DEF f, g
    <3>4. Total(Append(f, x)) = Total(f) + x
      BY <1>10, <3>1, TotalOfAppend
    <3> QED
      BY <1>9, <1>10, <3>1, <3>2, <3>3, <3>4
  <2>3. runningBefore' <= Len(running')
    BY <1>1, <1>5, <1>7, <1>20
  <2>4. ASSUME NEW i \in DOMAIN running', i > runningBefore'
        PROVE  (Phase(running[i]) = "prefill" /\ numScheduled[running[i]] > 0)'
    <3>1. CASE i = n + 1
      <4>1. Phase(s)' = "prefill" /\ numScheduled'[s] > 0
        BY <1>10, <1>11, <1>17
      <4> QED
        BY <1>7, <3>1, <4>1
    <3>2. CASE i # n + 1
      <4>1. i \in 1 .. n /\ i > runningBefore
        BY <1>1, <1>5, <1>7, <2>4, <3>2
      <4>2. PICK r \in SeqId : r = running[i]
        BY <1>1, <4>1
      <4>3. r # s /\ running'[i] = r /\ Phase(r) = "prefill" /\ numScheduled[r] > 0
        BY <1>1, <1>4, <1>7, <1>20, <4>1, <4>2
      <4>4. Phase(r)' = "prefill" /\ numScheduled'[r] > 0
        BY <1>11, <1>15, <4>3, SameFields
      <4> QED
        BY <4>3, <4>4
    <3> QED
      BY <3>1, <3>2
  <2>5. HeldEarly' = HeldEarly
    <3>1. \A i \in 1 .. runningBefore : running'[i] = running[i]
      BY <1>1, <1>7, <1>20
    <3>2. \A r \in Early : table'[r] = table[r]
      BY <1>4, <1>6, <1>20, QueueTypes
    <3> QED
      BY <1>5, <3>1, <3>2, EarlyKept
  <2>6. ShortDecoders' = ShortDecoders
    <3>1. \A r \in SeqId : r # s =>
            /\ Phase(r)' = Phase(r) /\ MissingBlocks(r)' = MissingBlocks(r)
            /\ numScheduled'[r] = numScheduled[r]
      BY <1>11, <1>15, SameFields
    <3>2. ShortDecoders' =
            {r \in Range(running)' :
               numScheduled'[r] > 0 /\ Phase(r)' = "decode" /\ MissingBlocks(r)' = 1}
      BY DEF ShortDecoders
    <3>3. Range(running) \subseteq SeqId
      BY QueueTypes
    <3> QED
      BY <1>4, <1>7, <1>17, <3>1, <3>2, <3>3 DEF ShortDecoders
  <2>7. Cardinality(HeldEarly) + Cardinality(ShortDecoders) <= NumBlocks
    BY <1>5 DEF SchedInv, SelectionOK
  <2>8. (Cardinality(HeldEarly) + Cardinality(ShortDecoders) <= NumBlocks)'
    BY <2>5, <2>6, <2>7
  <2> QED
    BY <2>1, <2>2, <2>3, <2>4, <2>8 DEF SelectionOK
<1>22. ProgressOK'
  <2>1. Len(running') > runningBefore'
    BY <1>1, <1>5, <1>7, <1>20
  <2> QED
    BY <1>5, <2>1 DEF ProgressOK
<1> QED
  BY <1>12, <1>13, <1>14, <1>16, <1>18, <1>19, <1>21, <1>22 DEF SchedInv

(* Moving on in plan_step changes nothing of the selection.                *)
LEMMA SelectionKept ==
  ASSUME UNCHANGED <<tokens, table, numCached, numPrompt, recomputeTarget, numScheduled,
                     running, runningBefore>>
  PROVE  /\ Early' = Early /\ HeldEarly' = HeldEarly /\ ShortDecoders' = ShortDecoders
         /\ ScheduledTokens' = ScheduledTokens /\ EarlyWork' = EarlyWork
         /\ \A s : Phase(s)' = Phase(s) /\ MissingBlocks(s)' = MissingBlocks(s)
<1>1. \A s : Phase(s)' = Phase(s) /\ MissingBlocks(s)' = MissingBlocks(s)
  BY DEF Phase, PrefillTarget, MissingBlocks, BlocksNeeded
<1>2. Early' = Early /\ HeldEarly' = HeldEarly
  BY DEF Early, HeldEarly
<1>3. ShortDecoders' = ShortDecoders
  <2>1. ShortDecoders' = {s \in Range(running) :
          numScheduled[s] > 0 /\ Phase(s)' = "decode" /\ MissingBlocks(s)' = 1}
    BY DEF ShortDecoders
  <2> QED
    BY <1>1, <2>1 DEF ShortDecoders
<1>4. ScheduledTokens' = ScheduledTokens
  BY DEF ScheduledTokens
<1>5. EarlyWork' = EarlyWork
  BY <1>2 DEF EarlyWork
<1> QED
  BY <1>1, <1>2, <1>3, <1>4, <1>5

(* No further admission.                                                   *)
LEMMA AdmissionEndsOK ==
  ASSUME SchedInv, PoolTypeOK', AdmissionEnds
  PROVE  SchedInv'
<1>1. /\ pc = "admit" /\ pc' = "reserve" /\ ~CanAdmit
      /\ UNCHANGED <<poolVars, seqVars, waiting, running, nextId, inFlight, callVars>>
  BY DEF AdmissionEnds
<1>2. /\ UNCHANGED <<free, used, refCount, hash, identity, index, tokens, table, numCached>>
      /\ UNCHANGED <<numPrompt, numScheduled, recomputeTarget, maxTokens, ignoreEos>>
      /\ UNCHANGED <<runningBefore, blockedBefore, blocked, path, result, applied,
                     finished, recovered, outputs>>
  BY <1>1 DEF poolVars, seqVars, callVars
<1>3. SchedTypeOK'
  BY <1>1, <1>2, Zenon DEF SchedInv, SchedTypeOK
<1>4. Ordered(running, waiting, nextId)'
  BY <1>1 DEF SchedInv, Ordered, Increasing
<1>5. OnlyRunningOwn'
  BY <1>1, <1>2 DEF SchedInv, OnlyRunningOwn
<1>6. ASSUME NEW s \in SeqId PROVE RequestOK(s)'
  <2>1. RequestOK(s) /\ Same(s) /\ WorkOK(s)
    BY <1>2 DEF SchedInv, Same, RequestOK
  <2>2. WorkOK(s)'
    <3>1. Wanted(s)' = Wanted(s)
      BY <2>1, SameFields
    <3> QED
      BY <1>1, <1>2, <2>1, <3>1 DEF WorkOK, Selecting, Executing
  <2> QED
    BY <1>1, <1>2, <2>1, <2>2, RequestKept
<1>7. PlanOK'
  BY <1>1, <1>2, NotExecuting, NoPlan DEF Executing
<1>8. /\ HeldEarly' = HeldEarly /\ ShortDecoders' = ShortDecoders
      /\ ScheduledTokens' = ScheduledTokens /\ EarlyWork' = EarlyWork
      /\ \A s : Phase(s)' = Phase(s)
  BY <1>1, <1>2, SelectionKept
<1>9. SelectionOK'
  <2>1. /\ SelectionOK
    BY DEF SchedInv
  <2>2. \A i \in DOMAIN running' : i > runningBefore' =>
          (Phase(running[i]) = "prefill" /\ numScheduled[running[i]] > 0)'
    <3>1. ASSUME NEW i \in DOMAIN running, i > runningBefore
          PROVE  (Phase(running[i]) = "prefill" /\ numScheduled[running[i]] > 0)'
      <4>1. PICK r : r = running[i]
        OBVIOUS
      <4>2. Phase(r) = "prefill" /\ numScheduled[r] > 0
        BY <1>1, <2>1, <3>1, <4>1 DEF SelectionOK, Selecting
      <4>3. Phase(r)' = "prefill" /\ numScheduled'[r] > 0 /\ running'[i] = r
        BY <1>1, <1>2, <1>8, <4>1, <4>2
      <4> QED
        BY <4>3
    <3> QED
      BY <1>1, <1>2, <3>1
  <2>3. (Cardinality(HeldEarly) + Cardinality(ShortDecoders) <= NumBlocks)'
    BY <1>1, <1>8, <2>1 DEF SelectionOK
  <2>4. (Len(running) <= MaxNumSeqs)'
    BY <1>1, <2>1 DEF SelectionOK
  <2>5. (ScheduledTokens <= MaxNumBatchedTokens /\ runningBefore <= Len(running))'
    BY <1>1, <1>2, <1>8, <2>1 DEF SelectionOK, Selecting
  <2> QED
    BY <2>2, <2>3, <2>4, <2>5 DEF SelectionOK
<1>10. ProgressOK'
  BY <1>1, <1>2, <1>8 DEF SchedInv, ProgressOK
<1> QED
  BY <1>3, <1>4, <1>5, <1>6, <1>7, <1>9, <1>10 DEF SchedInv

(* What the selected decoders lack.                                        *)
LEMMA DecodersShort ==
  ASSUME SchedInv
  PROVE  /\ \A s \in Range(SelectedDecoders) : MissingBlocks(s) \in {0, 1}
         /\ {s \in Range(SelectedDecoders) : MissingBlocks(s) = 1} = ShortDecoders
         /\ IsFiniteSet(ShortDecoders) /\ Cardinality(ShortDecoders) \in Nat
<1>1. Range(SelectedDecoders) =
        {s \in Range(running) : numScheduled[s] > 0 /\ Phase(s) = "decode"}
  BY DecodersProperties
<1>2. ASSUME NEW s \in Range(SelectedDecoders) PROVE MissingBlocks(s) \in {0, 1}
  <2>1. s \in Range(running) /\ Phase(s) # "prefill" /\ s \in SeqId
    BY <1>1, QueueTypes
  <2>2. InPhase(s)
    BY <2>1 DEF SchedInv, RequestOK
  <2> QED
    BY <2>1, <2>2 DEF InPhase
<1>3. {s \in Range(SelectedDecoders) : MissingBlocks(s) = 1} = ShortDecoders
  BY <1>1 DEF ShortDecoders
<1>4. ShortDecoders \subseteq Range(running) /\ IsFiniteSet(Range(running))
  BY QueueTypes DEF ShortDecoders
<1>5. IsFiniteSet(ShortDecoders)
  BY <1>4, FS_Subset
<1> QED
  BY <1>2, <1>3, <1>5, FS_CardinalityType

(* A reservation that fails has decoders, which ran before, and has        *)
(* admissions to take back.                                                *)
LEMMA FailedReservation ==
  ASSUME SchedInv, CacheInv, pc = "reserve", AppendErrs(SelectedDecoders)
  PROVE  /\ Len(running) > runningBefore
         /\ \E s \in Early : numScheduled[s] > 0 /\ Phase(s) = "decode"
<1>1. SelectedDecoders \in Seq(SeqId) /\ NoDuplicates(SelectedDecoders)
  BY DecodersProperties
<1>2. ~CanAppendBatch(SelectedDecoders)
  BY <1>1, AppendNeverFails DEF CacheInv
<1>3. ~(Cardinality(ShortDecoders) <= Len(free)) /\ Cardinality(ShortDecoders) \in Nat
  <2>1. \A s \in Range(SelectedDecoders) : MissingBlocks(s) \in {0, 1}
    BY DecodersShort
  <2>2. ~(Cardinality({s \in Range(SelectedDecoders) : MissingBlocks(s) = 1}) <= Len(free))
    BY <1>1, <1>2, <2>1, CanAppendProperties
  <2> QED
    BY <2>2, DecodersShort
<1>4. /\ Len(free) \in Nat /\ Cardinality(used) \in Nat
      /\ Len(free) + Cardinality(used) = NumBlocks
  BY FreeCount
<1>5. Cardinality(HeldEarly) + Cardinality(ShortDecoders) <= NumBlocks
  BY DEF SchedInv, SelectionOK
<1>6. /\ runningBefore \in Nat /\ runningBefore <= Len(running)
      /\ \A i \in DOMAIN running : running[i] \in Early <=> i <= runningBefore
      /\ \A i \in DOMAIN running : i > runningBefore => Phase(running[i]) = "prefill"
  BY EarlyProperties DEF Selecting
<1>7. Len(running) \in Nat /\ DOMAIN running = 1 .. Len(running)
  BY QueueTypes
<1>8. ASSUME Len(running) = runningBefore PROVE FALSE
  <2>1. Early = Range(running)
    BY <1>7, <1>8 DEF Early, Range
  <2>2. HeldEarly = used
    BY <2>1, UsedByRunning DEF HeldEarly
  <2>3. Cardinality(used) + Cardinality(ShortDecoders) <= NumBlocks
    BY <1>5, <2>2
  <2> QED
    BY <1>3, <1>4, <2>3
<1>9. PICK s \in ShortDecoders : TRUE
  <2>1. Cardinality(ShortDecoders) # 0
    BY <1>3, <1>4
  <2>2. ShortDecoders # {}
    BY <2>1, FS_EmptySet, Zenon
  <2> QED
    BY <2>2
<1>10. s \in Early
  <2>1. s \in Range(running) /\ Phase(s) # "prefill"
    BY DEF ShortDecoders
  <2>2. PICK i \in DOMAIN running : running[i] = s
    BY <2>1 DEF Range
  <2>3. i \in Int
    BY <1>7
  <2> QED
    BY <1>6, <2>1, <2>2, <2>3
<1>11. Len(running) > runningBefore
  <2>1. runningBefore \in Nat /\ runningBefore <= Len(running) /\ Len(running) \in Nat
    BY <1>6, <1>7, Zenon
  <2>2. Len(running) # runningBefore
    BY <1>8, Zenon
  <2> QED
    BY <2>1, <2>2
<1> QED
  BY <1>10, <1>11 DEF ShortDecoders

(* The last admission is taken back.                                       *)
LEMMA RollbackOK ==
  ASSUME SchedInv, CacheInv, PoolTypeOK', RollbackLastAdmission
  PROVE  SchedInv'
<1> DEFINE n == Len(running)
<1>0. SchedTypeOK
  BY DEF SchedInv
<1>1. /\ running \in Seq(SeqId) /\ waiting \in Seq(SeqId)
      /\ running \in Seq(Int) /\ waiting \in Seq(Int) /\ nextId \in Int
      /\ NoDuplicates(running) /\ n \in Nat /\ DOMAIN running = 1 .. n
      /\ Range(running) \subseteq SeqId
      /\ \A i \in 1 .. n : running[i] \in SeqId /\ running[i] \in Range(running)
  BY QueueTypes DEF Range
<1>2. pc = "reserve" /\ AppendErrs(SelectedDecoders) /\ n > runningBefore
  BY DEF RollbackLastAdmission
<1>3. /\ runningBefore \in Nat /\ runningBefore <= n /\ Early \subseteq Range(running)
      /\ \A i \in DOMAIN running : running[i] \in Early <=> i <= runningBefore
      /\ \A i \in DOMAIN running : i > runningBefore =>
              Phase(running[i]) = "prefill" /\ numScheduled[running[i]] > 0
  BY <1>2, EarlyProperties DEF Selecting
<1>4. running # <<>> /\ n \in 1 .. n /\ n >= 1
  BY <1>1, <1>2, <1>3
<1>5. PICK v \in SeqId : v = Last(running)
  BY <1>1, <1>4, FrontProperties
<1>6. v = running[n]
  BY <1>5 DEF Last
<1>7. Phase(v) = "prefill" /\ v \notin Early
  BY <1>1, <1>2, <1>3, <1>4, <1>6
<1>8. /\ pc' = "reserve" /\ DeallocateBatch(<<v>>)
      /\ running' = Front(running) /\ waiting' = <<v>> \o waiting
      /\ numScheduled' = [numScheduled EXCEPT ![v] = 0]
      /\ UNCHANGED <<numPrompt, recomputeTarget, maxTokens, ignoreEos, nextId, inFlight,
                     runningBefore, blockedBefore, blocked, path, result, applied, finished,
                     recovered, outputs>>
  BY <1>2, <1>5 DEF RollbackLastAdmission, Requeue, callVars
<1>9. /\ running' \in Seq(SeqId) /\ Len(running') = n - 1
      /\ \A i \in 1 .. n - 1 : running'[i] = running[i]
      /\ v \in Range(running) /\ Range(running) = Range(running)' \cup {v}
      /\ v \notin Range(running)'
  BY <1>1, <1>4, <1>5, <1>8, FrontProperties
<1>10. waiting' \in Seq(SeqId) /\ Range(waiting)' = {v} \cup Range(waiting)
  BY <1>1, <1>8, PushFrontProperties
<1>11. /\ tokens' = tokens /\ table'[v] = <<>> /\ numCached'[v] = 0
       /\ \A r \in SeqId : r # v => table'[r] = table[r] /\ numCached'[r] = numCached[r]
  BY <1>0, <1>8, ReleaseOneEffect
<1>12. numScheduled'[v] = 0 /\ \A r \in SeqId : r # v => numScheduled'[r] = numScheduled[r]
  BY <1>0, <1>8 DEF SchedTypeOK
<1>13. \A r \in SeqId : r # v => Same(r)
  BY <1>8, <1>11 DEF Same
<1>14. SchedTypeOK'
  <2>1. numScheduled' \in [SeqId -> Nat]
    BY <1>0, <1>8 DEF SchedTypeOK
  <2> QED
    BY <1>0, <1>8, <1>9, <1>10, <2>1, Zenon DEF SchedTypeOK
<1>15. Ordered(running, waiting, nextId)'
  <2>1. Ordered(Front(running), <<Last(running)>> \o waiting, nextId)
    BY <1>1, <1>4, OrderedBack DEF SchedInv
  <2> QED
    BY <1>5, <1>8, <2>1
<1>16. OnlyRunningOwn'
  <2> SUFFICES ASSUME NEW s \in SeqId
               PROVE  table'[s] # <<>> <=> s \in Range(running)'
    BY DEF OnlyRunningOwn
  <2>1. table[s] # <<>> <=> s \in Range(running)
    BY DEF SchedInv, OnlyRunningOwn
  <2> QED
    BY <1>9, <1>11, <2>1
<1>17. ASSUME NEW r \in SeqId, r # v PROVE RequestOK(r)'
  <2>1. RequestOK(r) /\ Same(r) /\ WorkOK(r)
    BY <1>13, <1>17 DEF SchedInv, RequestOK
  <2>2. WorkOK(r)'
    <3>1. Wanted(r)' = Wanted(r) /\ numScheduled'[r] = numScheduled[r]
      BY <1>12, <1>17, <2>1, SameFields
    <3> QED
      BY <1>2, <1>8, <1>9, <1>17, <2>1, <3>1 DEF WorkOK, Selecting, Executing
  <2>3. /\ r >= nextId' => r >= nextId
        /\ r \in Range(running)' => r \in Range(running)
        /\ r \in Range(waiting)' => r \in Range(waiting)
    BY <1>8, <1>9, <1>10, <1>17
  <2> QED
    BY <1>8, <2>1, <2>2, <2>3, RequestKept
<1>18. RequestOK(v)'
  <2>1. RequestOK(v) /\ Queued(v)
    BY <1>9 DEF SchedInv, Queued
  <2>2. (PrefillTarget(v) = Len(tokens[v]))'
    <3>1. InPhase(v)
      BY <1>9, <2>1 DEF RequestOK
    <3>2. PrefillTarget(v) = Len(tokens[v])
      BY <1>7, <3>1 DEF InPhase
    <3> QED
      BY <1>8, <1>11, <3>2 DEF PrefillTarget
  <2>3. LengthsOK(v)'
    BY <1>8, <1>11, <2>1 DEF RequestOK, LengthsOK
  <2>4. v \notin finished' => (Len(tokens[v]) < numPrompt[v] + maxTokens[v])'
    BY <1>8, <1>11, <2>1 DEF RequestOK
  <2>5. ~(v >= nextId')
    <3>1. ~(v >= nextId)
      BY <1>0, <1>1, <1>9, RequestTypes DEF SchedInv, Ordered
    <3> QED
      BY <1>8, <3>1
  <2>6. WorkOK(v)'
    BY <1>12, NoWork
  <2> QED
    BY <1>9, <2>2, <2>3, <2>4, <2>5, <2>6 DEF RequestOK
<1>19. PlanOK'
  BY <1>2, <1>8, NotExecuting, NoPlan DEF Executing
<1>20. Early' = Early /\ HeldEarly' = HeldEarly
  <2>1. \A i \in 1 .. runningBefore : running'[i] = running[i]
    BY <1>1, <1>2, <1>3, <1>9
  <2>2. \A r \in Early : table'[r] = table[r]
    BY <1>1, <1>3, <1>7, <1>11
  <2> QED
    BY <1>8, <2>1, <2>2, EarlyKept
<1>21. SelectionOK'
  <2>1. Len(running') <= MaxNumSeqs
    <3>1. n <= MaxNumSeqs /\ MaxNumSeqs \in Nat
      BY EngineOptions DEF SchedInv, SelectionOK, ValidOptions
    <3> QED
      BY <1>1, <1>9, <3>1
  <2>2. ScheduledTokens' <= MaxNumBatchedTokens
    <3> DEFINE f == [i \in DOMAIN running |-> numScheduled[running[i]]]
               g == [i \in DOMAIN running' |-> numScheduled'[running'[i]]]
               id == [i \in DOMAIN g |-> i]
    <3>1. f \in Seq(Nat) /\ Len(f) = n /\ Total(f) = ScheduledTokens /\ Total(f) \in Nat
      BY ScheduledTokensType DEF ScheduledTokens
    <3>2. DOMAIN running' = 1 .. n - 1 /\ DOMAIN f = 1 .. n
      BY <1>1, <1>9
    <3>3. ASSUME NEW i \in 1 .. n - 1 PROVE numScheduled'[running'[i]] = f[i]
      <4>0. n \in Nat
        BY <1>1, Zenon
      <4>1. i \in 1 .. n /\ i # n
        BY <4>0
      <4>2. running[i] # v /\ running[i] \in SeqId
        BY <1>1, <1>4, <1>6, <4>1 DEF NoDuplicates
      <4> QED
        BY <1>1, <1>9, <1>12, <4>1, <4>2
    <3>4. g = [i \in 1 .. n - 1 |-> f[i]]
      BY <3>2, <3>3
    <3>5. g \in Seq(Nat) /\ Len(g) = n - 1 /\ DOMAIN g = 1 .. n - 1
      <4> HIDE DEF f, g, n
      <4>0. n \in Nat /\ n >= 1
        BY <1>1, <1>4, Zenon
      <4>1. \A i \in 1 .. n - 1 : f[i] \in Nat
        BY <3>1, <3>2, <4>0
      <4>2. n - 1 \in Nat
        BY <4>0
      <4> QED
        BY <3>4, <4>1, <4>2
    <3>6. ScheduledTokens' = Total(g)
      BY DEF ScheduledTokens
    <3> HIDE DEF f, g
    <3>7. /\ id \in [DOMAIN g -> DOMAIN f] /\ Increasing(id)
          /\ \A i \in DOMAIN g : g[i] <= f[id[i]]
      <4>1. \A i \in DOMAIN g : i \in DOMAIN f /\ g[i] = f[i] /\ g[i] \in Nat
        BY <1>1, <3>2, <3>4, <3>5
      <4>2. \A i \in DOMAIN g : g[i] <= f[i]
        BY <4>1
      <4> QED
        BY <4>1, <4>2 DEF Increasing
    <3>8. Total(g) <= Total(f)
      <4> HIDE DEF id
      <4> QED
        BY <3>1, <3>5, <3>7, SumOfSelection
    <3>9. Total(g) \in Nat
      BY <3>5, SumType
    <3>10. ScheduledTokens <= MaxNumBatchedTokens /\ MaxNumBatchedTokens \in Nat
      BY <1>2, EngineOptions DEF SchedInv, SelectionOK, Selecting, ValidOptions
    <3> QED
      BY <3>1, <3>6, <3>8, <3>9, <3>10
  <2>3. runningBefore' <= Len(running')
    BY <1>1, <1>2, <1>3, <1>8, <1>9
  <2>4. ASSUME NEW i \in DOMAIN running', i > runningBefore'
        PROVE  (Phase(running[i]) = "prefill" /\ numScheduled[running[i]] > 0)'
    <3>1. i \in 1 .. n - 1 /\ i \in 1 .. n /\ i # n /\ i > runningBefore
      BY <1>1, <1>8, <1>9, <2>4
    <3>2. PICK r \in SeqId : r = running[i]
      BY <1>1, <3>1
    <3>3. r # v /\ running'[i] = r /\ Phase(r) = "prefill" /\ numScheduled[r] > 0
      <4>1. r # v
        BY <1>1, <1>4, <1>6, <3>1, <3>2 DEF NoDuplicates
      <4> QED
        BY <1>1, <1>3, <1>9, <3>1, <3>2, <4>1
    <3>4. Phase(r)' = "prefill" /\ numScheduled'[r] > 0
      BY <1>12, <1>13, <3>3, SameFields
    <3> QED
      BY <3>3, <3>4
  <2>5. ShortDecoders' = ShortDecoders
    <3>1. \A r \in SeqId : r # v =>
            /\ Phase(r)' = Phase(r) /\ MissingBlocks(r)' = MissingBlocks(r)
            /\ numScheduled'[r] = numScheduled[r]
      BY <1>12, <1>13, SameFields
    <3>2. ShortDecoders' =
            {r \in Range(running)' :
               numScheduled'[r] > 0 /\ Phase(r)' = "decode" /\ MissingBlocks(r)' = 1}
      BY DEF ShortDecoders
    <3> QED
      BY <1>1, <1>7, <1>9, <3>1, <3>2 DEF ShortDecoders
  <2>6. Cardinality(HeldEarly) + Cardinality(ShortDecoders) <= NumBlocks
    BY <1>2 DEF SchedInv, SelectionOK
  <2>7. (Cardinality(HeldEarly) + Cardinality(ShortDecoders) <= NumBlocks)'
    BY <1>20, <2>5, <2>6
  <2> QED
    BY <2>1, <2>2, <2>3, <2>4, <2>7 DEF SelectionOK
<1>22. ProgressOK'
  <2>1. PICK s \in Early : numScheduled[s] > 0
    BY <1>2, FailedReservation
  <2>2. s \in Early' /\ numScheduled'[s] > 0
    BY <1>1, <1>3, <1>7, <1>12, <1>20, <2>1
  <2>3. EarlyWork'
    BY <2>2 DEF EarlyWork
  <2> QED
    BY <1>8, <2>3 DEF ProgressOK
<1> QED
  BY <1>14, <1>15, <1>16, <1>17, <1>18, <1>19, <1>21, <1>22 DEF SchedInv

(* What the reservation does to the sequences.                             *)
LEMMA ReserveEffect ==
  ASSUME SchedInv, ReserveDecodeCache
  PROVE  /\ tokens' = tokens /\ numCached' = numCached
         /\ \A s \in SeqId \ ShortDecoders : table'[s] = table[s]
         /\ \A s \in ShortDecoders : Len(table'[s]) = Len(table[s]) + 1
<1> DEFINE q == SelectedDecoders
           short == Retain(q, {s \in SeqId : MissingBlocks(s) = 1})
           fresh == SubSeq(free, 1, Len(short))
<1>1. /\ table' = [s \in SeqId |->
                     IF s \in Range(short)
                     THEN Append(table[s], fresh[PositionIn(short, s)])
                     ELSE table[s]]
      /\ tokens' = tokens /\ numCached' = numCached
  BY DEF ReserveDecodeCache, MayAppendBatch
<1>2. q \in Seq(SeqId)
  BY DecodersProperties
<1>3. {s \in Range(q) : MissingBlocks(s) = 1} = ShortDecoders
  BY DecodersShort
<1>4. ShortDecoders \subseteq SeqId
  BY QueueTypes DEF ShortDecoders
<1> HIDE DEF q
<1>5. Range(short) = Range(q) \cap {s \in SeqId : MissingBlocks(s) = 1}
  BY <1>2, RetainProperties
<1> HIDE DEF short, fresh
<1>6. Range(short) = ShortDecoders
  BY <1>3, <1>4, <1>5
<1>7. ASSUME NEW s \in ShortDecoders PROVE Len(table'[s]) = Len(table[s]) + 1
  <2>1. s \in SeqId /\ table[s] \in Seq(Block)
    BY <1>4, RequestTypes DEF SchedInv
  <2>2. table'[s] = Append(table[s], fresh[PositionIn(short, s)])
    BY <1>1, <1>6, <2>1
  <2> QED
    BY <2>1, <2>2
<1> QED
  BY <1>1, <1>6, <1>7

(* The decoders get their blocks.                                          *)
LEMMA ReserveDecodeCacheOK ==
  ASSUME SchedInv, PoolTypeOK', ReserveDecodeCache
  PROVE  SchedInv'
<1>0. SchedTypeOK
  BY DEF SchedInv
<1>1. /\ pc = "reserve" /\ pc' = "capture"
      /\ UNCHANGED <<numPrompt, numScheduled, recomputeTarget, maxTokens, ignoreEos>>
      /\ UNCHANGED <<waiting, running, nextId, inFlight>>
      /\ UNCHANGED <<runningBefore, blockedBefore, blocked, path, result, applied,
                     finished, recovered, outputs>>
  BY DEF ReserveDecodeCache, seqVars, callVars
<1>2. /\ tokens' = tokens /\ numCached' = numCached
      /\ \A s \in SeqId \ ShortDecoders : table'[s] = table[s]
      /\ \A s \in ShortDecoders : Len(table'[s]) = Len(table[s]) + 1
  BY ReserveEffect
<1>3. /\ ShortDecoders \subseteq Range(running) /\ Range(running) \subseteq SeqId
      /\ \A s \in ShortDecoders : MissingBlocks(s) = 1 /\ Phase(s) = "decode"
      /\ \A s \in Range(running) : table[s] # <<>>
  BY QueueTypes DEF ShortDecoders, SchedInv, OnlyRunningOwn
<1>4. ASSUME NEW s \in SeqId
      PROVE  /\ PrefillTarget(s)' = PrefillTarget(s) /\ Phase(s)' = Phase(s)
             /\ Wanted(s)' = Wanted(s) /\ LengthsOK(s)' = LengthsOK(s)
             /\ MissingBlocks(s)' = IF s \in ShortDecoders THEN 0 ELSE MissingBlocks(s)
  <2>1. PrefillTarget(s)' = PrefillTarget(s)
    BY <1>1 DEF PrefillTarget
  <2>2. Phase(s)' = Phase(s) /\ Wanted(s)' = Wanted(s)
    BY <1>2, <2>1 DEF Phase, Wanted
  <2>3. LengthsOK(s)' = LengthsOK(s)
    BY <1>1, <1>2 DEF LengthsOK
  <2>4. BlocksNeeded(s)' = BlocksNeeded(s)
    BY <1>2 DEF BlocksNeeded
  <2>5. BlocksNeeded(s) \in Nat /\ Len(table[s]) \in Nat
    BY <1>0, RequestTypes
  <2>6. MissingBlocks(s)' = IF s \in ShortDecoders THEN 0 ELSE MissingBlocks(s)
    BY <1>2, <1>3, <2>4, <2>5 DEF MissingBlocks
  <2> QED
    BY <2>1, <2>2, <2>3, <2>6
<1>5. SchedTypeOK'
  BY <1>0, <1>1, Zenon DEF SchedTypeOK
<1>6. Ordered(running, waiting, nextId)'
  BY <1>1 DEF SchedInv, Ordered, Increasing
<1>7. OnlyRunningOwn'
  <2> SUFFICES ASSUME NEW s \in SeqId
               PROVE  table'[s] # <<>> <=> s \in Range(running)'
    BY DEF OnlyRunningOwn
  <2>1. table[s] # <<>> <=> s \in Range(running)
    BY DEF SchedInv, OnlyRunningOwn
  <2>2. CASE s \in ShortDecoders
    <3>1. Len(table'[s]) = Len(table[s]) + 1 /\ Len(table[s]) \in Nat
      BY <1>0, <1>2, <2>2, RequestTypes
    <3>2. table'[s] # <<>>
      BY <3>1
    <3> QED
      BY <1>1, <1>3, <2>2, <3>2
  <2>3. CASE s \notin ShortDecoders
    BY <1>1, <1>2, <2>1, <2>3
  <2> QED
    BY <2>2, <2>3
<1>8. ASSUME NEW s \in SeqId PROVE RequestOK(s)'
  <2>1. RequestOK(s)
    BY DEF SchedInv
  <2>2. Queued(s)' = Queued(s) /\ Unused(s)' = Unused(s)
    BY <1>1, <1>2 DEF Queued, Unused
  <2>3. s \in Range(running) => InPhase(s) /\ InPhase(s)' /\ (s \notin ShortDecoders /\
           numScheduled[s] > 0 => MissingBlocks(s) = 0)
    <3>1. ASSUME s \in Range(running)
          PROVE  InPhase(s) /\ InPhase(s)' /\ (s \notin ShortDecoders /\
                   numScheduled[s] > 0 => MissingBlocks(s) = 0)
      <4>1. InPhase(s)
        BY <2>1, <3>1 DEF RequestOK
      <4>2. Phase(s) \in {"prefill", "decode"}
        BY <1>0, RequestTypes
      <4>3. s \notin ShortDecoders /\ numScheduled[s] > 0 => MissingBlocks(s) = 0
        BY <3>1, <4>1, <4>2 DEF InPhase, ShortDecoders
      <4>4. InPhase(s)'
        BY <1>2, <1>3, <1>4, <4>1 DEF InPhase
      <4> QED
        BY <4>1, <4>3, <4>4
    <3> QED
      BY <3>1
  <2>4. WorkOK(s)'
    <3>1. WorkOK(s)
      BY <2>1 DEF RequestOK
    <3> QED
      BY <1>1, <1>4, <2>3, <3>1 DEF WorkOK, Selecting, Executing
  <2> QED
    BY <1>1, <1>2, <1>4, <2>1, <2>2, <2>3, <2>4 DEF RequestOK
<1>9. PlanOK'
  BY <1>1, NotExecuting, NoPlan DEF Executing
<1>10. Early' = Early /\ ScheduledTokens' = ScheduledTokens
  BY <1>1 DEF Early, ScheduledTokens
<1>11. SelectionOK'
  <2>1. SelectionOK /\ running \in Seq(SeqId)
    BY QueueTypes DEF SchedInv
  <2>2. ASSUME NEW i \in DOMAIN running', i > runningBefore'
        PROVE  (Phase(running[i]) = "prefill" /\ numScheduled[running[i]] > 0)'
    <3>1. PICK r \in SeqId : r = running[i]
      BY <1>1, <2>1, <2>2
    <3>2. Phase(r) = "prefill" /\ numScheduled[r] > 0
      BY <1>1, <2>1, <2>2, <3>1 DEF SelectionOK, Selecting
    <3>3. Phase(r)' = "prefill" /\ numScheduled'[r] > 0 /\ running'[i] = r
      BY <1>1, <1>4, <3>1, <3>2
    <3> QED
      BY <3>3
  <2>3. (Len(running) <= MaxNumSeqs)'
    BY <1>1, <2>1 DEF SelectionOK
  <2>4. (ScheduledTokens <= MaxNumBatchedTokens /\ runningBefore <= Len(running))'
    BY <1>1, <1>10, <2>1 DEF SelectionOK, Selecting
  <2> QED
    BY <1>1, <2>2, <2>3, <2>4 DEF SelectionOK
<1>12. ProgressOK'
  <2>1. EarlyWork' = EarlyWork
    BY <1>1, <1>10 DEF EarlyWork
  <2> QED
    BY <1>1, <2>1 DEF SchedInv, ProgressOK
<1> QED
  BY <1>5, <1>6, <1>7, <1>8, <1>9, <1>11, <1>12 DEF SchedInv

(* The entry of the plan for a scheduled sequence: the next tokens, no     *)
(* more than the history has, and sampling at its end.                     *)
LEMMA PlanForProperties ==
  ASSUME SchedInv, pc = "capture", NEW s \in SeqId, numScheduled[s] > 0
  PROVE  /\ PlanFor(s) \in PlanEntry /\ PlanFor(s).id = s
         /\ TokenBudget(PlanFor(s)) = numScheduled[s]
         /\ PlanFor(s).first = numCached[s] + 1
         /\ PlanFor(s).last \in PlanFor(s).first .. Len(tokens[s])
         /\ PlanFor(s).sampling <=> PlanFor(s).last = Len(tokens[s])
<1> DEFINE c == numCached[s]
           n == numScheduled[s]
           L == Len(tokens[s])
           T == PrefillTarget(s)
<1>1. c \in Nat /\ n \in Nat \ {0} /\ L \in Nat /\ T \in Nat /\ Phase(s) \in {"prefill", "decode"}
  BY RequestTypes DEF SchedInv
<1>2. s \in Range(running) /\ n <= Wanted(s) /\ InPhase(s)
  BY DEF SchedInv, RequestOK, WorkOK
<1>3. CASE Phase(s) = "prefill"
  <2>1. T = L /\ Wanted(s) = T - c /\ c < T
    BY <1>1, <1>2, <1>3 DEF InPhase, Wanted, Phase
  <2>2. c + n \in Int /\ T \in Int /\ c + n <= T
    BY <1>1, <1>2, <2>1
  <2>3. PlanFor(s) = LET last == Min({c + n, T})
                     IN  [id |-> s, phase |-> "prefill", first |-> c + 1, last |-> last,
                          cached |-> c, sampling |-> last = T]
    BY <1>3 DEF PlanFor
  <2> HIDE DEF c, n, L, T
  <2>4. Min({c + n, T}) = c + n
    BY <2>2, MinMaxOfTwo
  <2>5. PlanFor(s) = [id |-> s, phase |-> "prefill", first |-> c + 1, last |-> c + n,
                      cached |-> c, sampling |-> c + n = T]
    BY <2>3, <2>4
  <2>6. c + 1 \in Nat /\ c + n \in Nat /\ c + n \in c + 1 .. L /\ c + n - (c + 1) + 1 = n
    BY <1>1, <2>1, <2>2
  <2>7. (c + n = T) \in BOOLEAN
    OBVIOUS
  <2>8. PlanFor(s) \in PlanEntry
    BY <1>1, <2>5, <2>6, <2>7 DEF PlanEntry
  <2>9. /\ PlanFor(s).id = s /\ PlanFor(s).first = c + 1 /\ PlanFor(s).last = c + n
        /\ PlanFor(s).sampling <=> c + n = T
    <3> DEFINE z == c + n = T
    <3>1. z \in BOOLEAN
      OBVIOUS
    <3> HIDE DEF z
    <3>2. PlanFor(s) = [id |-> s, phase |-> "prefill", first |-> c + 1, last |-> c + n,
                        cached |-> c, sampling |-> z]
      BY <2>5, Zenon DEF z
    <3>3. PlanFor(s).sampling = z
      BY <3>2
    <3>4. PlanFor(s).id = s /\ PlanFor(s).first = c + 1 /\ PlanFor(s).last = c + n
      BY <3>2
    <3> QED
      BY <3>1, <3>3, <3>4, Zenon DEF z
  <2>10. TokenBudget(PlanFor(s)) = n
    <3>1. TokenBudget(PlanFor(s)) = PlanFor(s).last - PlanFor(s).first + 1
      BY Zenon DEF TokenBudget
    <3> QED
      BY <1>1, <2>9, <3>1
  <2>11. PlanFor(s).last \in PlanFor(s).first .. L
    BY <2>6, <2>9, Zenon
  <2>12. PlanFor(s).sampling <=> PlanFor(s).last = L
    BY <2>1, <2>9, Zenon
  <2> QED
    BY <2>8, <2>9, <2>10, <2>11, <2>12, Zenon DEF c, n, L
<1>4. CASE Phase(s) = "decode"
  <2>1. c = L - 1 /\ Wanted(s) = 1
    BY <1>2, <1>4 DEF InPhase, Wanted
  <2>2. PlanFor(s) = [id |-> s, phase |-> "decode", first |-> L, last |-> L,
                      cached |-> c, sampling |-> TRUE]
    BY <1>4 DEF PlanFor
  <2>3. n = 1 /\ L = c + 1 /\ L \in L .. L /\ L - L + 1 = 1
    BY <1>1, <1>2, <2>1
  <2> HIDE DEF c, n, L
  <2>4. PlanFor(s) \in PlanEntry
    BY <1>1, <2>2 DEF PlanEntry
  <2>5. TokenBudget(PlanFor(s)) = n
    BY <2>2, <2>3 DEF TokenBudget
  <2> QED
    BY <2>2, <2>3, <2>4, <2>5 DEF c, n, L
<1> QED
  BY <1>1, <1>3, <1>4

(* The scheduled sequences run, each once, in queue order.                 *)
LEMMA ScheduledProperties ==
  ASSUME SchedInv
  PROVE  /\ Scheduled \in Seq(SeqId) /\ NoDuplicates(Scheduled)
         /\ Range(Scheduled) = {s \in SeqId : numScheduled[s] > 0}
         /\ Range(Scheduled) \subseteq Range(running)
         /\ \E g : KeptPlaces(g, running, {s \in SeqId : numScheduled[s] > 0})
<1> DEFINE S == {s \in SeqId : numScheduled[s] > 0}
<1>1. running \in Seq(SeqId) /\ NoDuplicates(running)
  BY QueueTypes
<1>2. S \subseteq Range(running)
  BY DEF SchedInv, RequestOK, WorkOK
<1>3. Scheduled = Retain(running, S)
  BY DEF Scheduled
<1> HIDE DEF S
<1>4. /\ Scheduled \in Seq(SeqId) /\ NoDuplicates(Scheduled)
      /\ Range(Scheduled) = Range(running) \cap S
  BY <1>1, <1>3, RetainProperties
<1>5. Range(Scheduled) = S
  BY <1>2, <1>4
<1>6. \E g : KeptPlaces(g, running, S)
  BY <1>1, RetainInOrder
<1> QED
  BY <1>2, <1>4, <1>5, <1>6 DEF S

(* The plan is captured.                                                   *)
LEMMA CapturePlanOK ==
  ASSUME SchedInv, PoolTypeOK', CapturePlan
  PROVE  SchedInv'
<1>0. SchedTypeOK
  BY DEF SchedInv
<1>1. /\ pc = "capture" /\ pc' = "execute" /\ Scheduled # <<>>
      /\ inFlight' = [k \in DOMAIN Scheduled |-> PlanFor(Scheduled[k])]
      /\ numScheduled' = [s \in SeqId |->
                            IF s \in Range(Scheduled)
                            THEN TokenBudget(PlanFor(s)) ELSE numScheduled[s]]
      /\ path' = AttentionPath([k \in DOMAIN Scheduled |-> PlanFor(Scheduled[k])])
      /\ blocked' = IF blockedBefore # NoBlock THEN blockedBefore
                    ELSE AdmissionBlock(ScheduledTokens)
      /\ UNCHANGED poolVars
      /\ UNCHANGED <<numPrompt, recomputeTarget, maxTokens, ignoreEos, waiting,
                     running, nextId, runningBefore, blockedBefore, result, applied,
                     finished, recovered, outputs>>
  BY DEF CapturePlan
<1>2. UNCHANGED <<tokens, table, numCached>>
  BY <1>1 DEF poolVars
<1>3. /\ Scheduled \in Seq(SeqId) /\ NoDuplicates(Scheduled)
      /\ Range(Scheduled) = {s \in SeqId : numScheduled[s] > 0}
      /\ Range(Scheduled) \subseteq Range(running)
  BY ScheduledProperties
<1>4. numScheduled' = numScheduled
  <2>1. \A s \in SeqId : s \in Range(Scheduled) => TokenBudget(PlanFor(s)) = numScheduled[s]
    BY <1>1, <1>3, PlanForProperties
  <2> QED
    BY <1>0, <1>1, <2>1 DEF SchedTypeOK
<1>5. /\ DOMAIN Scheduled = 1 .. Len(Scheduled) /\ Len(Scheduled) \in Nat \ {0}
      /\ \A k \in DOMAIN Scheduled : Scheduled[k] \in SeqId /\ Scheduled[k] \in Range(Scheduled)
  BY <1>1, <1>3, EmptySeq DEF Range
<1>6. /\ DOMAIN inFlight' = DOMAIN Scheduled /\ inFlight' \in Seq(PlanEntry)
      /\ Len(inFlight') = Len(Scheduled)
      /\ \A k \in DOMAIN Scheduled :
           inFlight'[k] = PlanFor(Scheduled[k]) /\ inFlight'[k].id = Scheduled[k]
  <2>1. \A k \in DOMAIN Scheduled :
          /\ PlanFor(Scheduled[k]) \in PlanEntry /\ PlanFor(Scheduled[k]).id = Scheduled[k]
    BY <1>1, <1>3, <1>5, PlanForProperties
  <2>2. DOMAIN inFlight' = DOMAIN Scheduled
    BY <1>1
  <2>3. inFlight' = [k \in 1 .. Len(Scheduled) |-> PlanFor(Scheduled[k])]
    BY <1>1, <1>5
  <2>4. inFlight' \in Seq(PlanEntry) /\ Len(inFlight') = Len(Scheduled)
    BY <1>5, <2>1, <2>3
  <2> QED
    BY <1>1, <2>1, <2>2, <2>4
<1>7. finished = {} /\ recovered = {} /\ applied = 0
  BY <1>1, NotExecuting DEF Executing
<1>8. SchedTypeOK'
  <2>1. path' \in {"none", "prefill", "paged_prefill", "decode"}
    BY <1>1 DEF AttentionPath
  <2>2. {blockedBefore', blocked'} \subseteq BlockReport
    BY <1>0, <1>1, AdmissionBlockProperties DEF SchedTypeOK
  <2> QED
    BY <1>0, <1>1, <1>4, <1>6, <2>1, <2>2, Zenon DEF SchedTypeOK
<1>9. Ordered(running, waiting, nextId)'
  BY <1>1 DEF SchedInv, Ordered, Increasing
<1>10. OnlyRunningOwn'
  BY <1>1, <1>2 DEF SchedInv, OnlyRunningOwn
<1>11. ASSUME NEW s \in SeqId PROVE RequestOK(s)'
  <2>1. RequestOK(s) /\ Same(s) /\ WorkOK(s)
    BY <1>1, <1>2 DEF SchedInv, Same, RequestOK
  <2>2. WorkOK(s)'
    <3>1. Wanted(s)' = Wanted(s) /\ MissingBlocks(s)' = MissingBlocks(s)
      BY <2>1, SameFields
    <3> QED
      BY <1>1, <1>4, <2>1, <3>1 DEF WorkOK, Executing
  <2> QED
    BY <1>1, <2>1, <2>2, RequestKept
<1>12. ASSUME NEW k \in DOMAIN inFlight' PROVE EntryOK(k)'
  <2>1. PICK s \in SeqId : s = Scheduled[k]
    BY <1>5, <1>6
  <2>2. /\ inFlight'[k] = PlanFor(s) /\ inFlight'[k].id = s /\ s \in Range(Scheduled)
        /\ numScheduled[s] > 0 /\ s \in Range(running)
    BY <1>3, <1>5, <1>6, <2>1
  <2>3. \A j \in DOMAIN inFlight' : inFlight'[j].id = s => j = k
    BY <1>3, <1>6, <2>1 DEF NoDuplicates
  <2>4. k > applied' /\ ~(k <= applied')
    BY <1>1, <1>5, <1>6, <1>7
  <2>5. /\ TokenBudget(PlanFor(s)) = numScheduled[s]
        /\ PlanFor(s).first = numCached[s] + 1
        /\ PlanFor(s).last \in PlanFor(s).first .. Len(tokens[s])
        /\ PlanFor(s).sampling <=> PlanFor(s).last = Len(tokens[s])
    BY <1>1, <2>2, PlanForProperties
  <2>6. PICK p : p = inFlight'[k]
    OBVIOUS
  <2>7. /\ numScheduled'[s] = TokenBudget(p)
        /\ p.first = numCached'[s] + 1
        /\ p.last \in p.first .. Len(tokens'[s])
        /\ p.sampling <=> p.last = Len(tokens'[s])
        /\ p.id = s
    BY <1>2, <1>4, <2>2, <2>5, <2>6
  <2>8. (k > applied =>
           /\ numScheduled[inFlight[k].id] = TokenBudget(inFlight[k])
           /\ inFlight[k].first = numCached[inFlight[k].id] + 1
           /\ inFlight[k].last \in inFlight[k].first .. Len(tokens[inFlight[k].id])
           /\ inFlight[k].sampling <=> inFlight[k].last = Len(tokens[inFlight[k].id])
           /\ inFlight[k].id \notin finished
           /\ inFlight[k].id \notin recovered)'
    <3>1. s \notin finished' /\ s \notin recovered'
      BY <1>1, <1>7
    <3> QED
      BY <2>6, <2>7, <3>1 DEF TokenBudget
  <2>9. s \in Range(running)'
    BY <1>1, <2>2
  <2> QED
    BY <2>2, <2>3, <2>4, <2>8, <2>9 DEF EntryOK
<1>13. Total(PlanBudgets)' <= MaxNumBatchedTokens
  <2> DEFINE f == [i \in DOMAIN running |-> numScheduled[running[i]]]
             h == PlanBudgets'
  <2>1. PICK g : KeptPlaces(g, running, {s \in SeqId : numScheduled[s] > 0})
    BY ScheduledProperties
  <2>2. /\ g \in [1 .. Len(Scheduled) -> DOMAIN running] /\ Increasing(g)
        /\ \A k \in 1 .. Len(Scheduled) : Scheduled[k] = running[g[k]]
    BY <2>1 DEF KeptPlaces, Scheduled
  <2>3. f \in Seq(Nat) /\ Total(f) = ScheduledTokens /\ Total(f) \in Nat /\ DOMAIN f = DOMAIN running
    BY ScheduledTokensType DEF ScheduledTokens
  <2>4. h = [k \in DOMAIN Scheduled |-> TokenBudget(PlanFor(Scheduled[k]))]
    <3>1. h = [k \in DOMAIN inFlight' |-> TokenBudget(inFlight'[k])]
      BY DEF PlanBudgets, TokenBudget
    <3> QED
      BY <1>6, <3>1
  <2>5. \A k \in DOMAIN Scheduled : TokenBudget(PlanFor(Scheduled[k])) = numScheduled[Scheduled[k]]
    BY <1>1, <1>3, <1>5, PlanForProperties
  <2>6. h = [k \in 1 .. Len(Scheduled) |-> numScheduled[Scheduled[k]]]
    BY <1>5, <2>4, <2>5
  <2>7. \A k \in 1 .. Len(Scheduled) : numScheduled[Scheduled[k]] \in Nat
    BY <1>0, <1>5 DEF SchedTypeOK
  <2>8. h \in Seq(Nat) /\ DOMAIN h = 1 .. Len(Scheduled)
    BY <1>5, <2>6, <2>7
  <2>9. \A k \in DOMAIN h : h[k] <= f[g[k]]
    <3> SUFFICES ASSUME NEW k \in 1 .. Len(Scheduled) PROVE h[k] <= f[g[k]]
      BY <2>8
    <3>1. h[k] = numScheduled[Scheduled[k]] /\ h[k] \in Nat
      BY <2>6, <2>7
    <3>2. g[k] \in DOMAIN running /\ Scheduled[k] = running[g[k]]
      BY <2>2
    <3>3. f[g[k]] = numScheduled[running[g[k]]]
      BY <3>2
    <3> HIDE DEF f, h
    <3> QED
      BY <3>1, <3>2, <3>3
  <2> HIDE DEF f, h
  <2>10. Total(h) <= Total(f)
    BY <2>2, <2>3, <2>8, <2>9, SumOfSelection
  <2>11. Total(h) \in Nat
    BY <2>8, SumType
  <2>12. ScheduledTokens <= MaxNumBatchedTokens /\ MaxNumBatchedTokens \in Nat
    BY <1>1, EngineOptions DEF SchedInv, SelectionOK, Selecting, ValidOptions
  <2>13. Total(PlanBudgets)' = Total(h)
    BY DEF Total, SumTo, h
  <2> QED
    BY <2>3, <2>10, <2>11, <2>12, <2>13
<1>14. PlanOK'
  <2>1. inFlight' # <<>> /\ Executing'
    BY <1>1, <1>5, <1>6 DEF Executing
  <2>2. \A s \in SeqId : numScheduled'[s] > 0 => \E k \in DOMAIN inFlight' : inFlight'[k].id = s
    <3> SUFFICES ASSUME NEW s \in SeqId, numScheduled[s] > 0
                 PROVE  \E k \in DOMAIN inFlight' : inFlight'[k].id = s
      BY <1>4
    <3>1. PICK k \in DOMAIN Scheduled : Scheduled[k] = s
      BY <1>3 DEF Range
    <3> QED
      BY <1>6, <3>1
  <2>3. applied' <= Len(inFlight') /\ finished' = {} /\ recovered' = {} /\ applied' = 0
    BY <1>1, <1>5, <1>6, <1>7
  <2> QED
    BY <1>1, <1>12, <1>13, <2>1, <2>2, <2>3 DEF PlanOK
<1>15. SelectionOK'
  BY <1>1 DEF SchedInv, SelectionOK, Selecting
<1>16. ProgressOK'
  BY <1>1 DEF ProgressOK
<1> QED
  BY <1>8, <1>9, <1>10, <1>11, <1>14, <1>15, <1>16 DEF SchedInv

(* The model has run.                                                      *)
LEMMA ExecuteOK ==
  ASSUME SchedInv, PoolTypeOK', NEW r \in Results(inFlight), Execute(r)
  PROVE  SchedInv'
<1>0. SchedTypeOK /\ PlanOK
  BY DEF SchedInv
<1>1. /\ pc = "execute" /\ pc' = "apply" /\ result' = r
      /\ UNCHANGED poolVars
      /\ UNCHANGED <<numPrompt, numScheduled, recomputeTarget, maxTokens, ignoreEos>>
      /\ UNCHANGED <<waiting, running, nextId, inFlight, runningBefore,
                     blockedBefore, blocked, path, applied, finished, recovered, outputs>>
  BY DEF Execute, seqVars
<1>2. UNCHANGED <<tokens, table, numCached>>
  BY <1>1 DEF poolVars
<1>3. /\ r \in [DOMAIN inFlight -> Sampled]
      /\ \A k \in DOMAIN inFlight : (r[k] # <<>>) = inFlight[k].sampling
  BY DEF Results
<1>4. SchedTypeOK'
  <2>1. Len(inFlight) \in Nat /\ DOMAIN inFlight = 1 .. Len(inFlight)
    BY <1>0 DEF SchedTypeOK
  <2>2. result' \in Seq(Sampled)
    BY <1>1, <1>3, <2>1
  <2> QED
    BY <1>0, <1>1, <2>2, Zenon DEF SchedTypeOK
<1>5. Ordered(running, waiting, nextId)'
  BY <1>1 DEF SchedInv, Ordered, Increasing
<1>6. OnlyRunningOwn'
  BY <1>1, <1>2 DEF SchedInv, OnlyRunningOwn
<1>7. ASSUME NEW s \in SeqId PROVE RequestOK(s)'
  <2>1. RequestOK(s) /\ Same(s) /\ WorkOK(s)
    BY <1>1, <1>2 DEF SchedInv, Same, RequestOK
  <2>2. WorkOK(s)'
    <3>1. Wanted(s)' = Wanted(s) /\ MissingBlocks(s)' = MissingBlocks(s)
      BY <2>1, SameFields
    <3> QED
      BY <1>1, <2>1, <3>1 DEF WorkOK, Executing
  <2> QED
    BY <1>1, <2>1, <2>2, RequestKept
<1>8. PlanOK'
  <2>1. \A k \in DOMAIN inFlight : EntryOK(k)'
    <3> SUFFICES ASSUME NEW k \in DOMAIN inFlight PROVE EntryOK(k)'
      OBVIOUS
    <3>1. EntryOK(k)
      BY <1>0 DEF PlanOK
    <3> QED
      BY <1>1, <1>2, <3>1 DEF EntryOK, TokenBudget
  <2>2. /\ inFlight # <<>> /\ applied = 0 /\ finished = {} /\ recovered = {}
        /\ \A s \in SeqId : numScheduled[s] > 0 => \E k \in DOMAIN inFlight : inFlight[k].id = s
        /\ applied <= Len(inFlight)
    BY <1>0, <1>1 DEF PlanOK, Executing
  <2>3. DOMAIN result' = DOMAIN inFlight'
        /\ \A k \in DOMAIN inFlight' : (result'[k] # <<>>) = inFlight'[k].sampling
    BY <1>1, <1>3
  <2>4. Executing' /\ pc' # "execute"
    BY <1>1 DEF Executing
  <2> QED
    BY <1>1, <2>1, <2>2, <2>3, <2>4 DEF PlanOK
<1>9. SelectionOK'
  BY <1>1 DEF SchedInv, SelectionOK, Selecting
<1>10. ProgressOK'
  BY <1>1 DEF ProgressOK
<1> QED
  BY <1>4, <1>5, <1>6, <1>7, <1>8, <1>9, <1>10 DEF SchedInv

(* What applying one result does to its sequence: it is still computing    *)
(* the history, or one token longer and ready to decode.                   *)
LEMMA ApplyOneEffect ==
  ASSUME SchedInv, PoolTypeOK', ApplyOne, NEW k, k = applied + 1, NEW s, s = inFlight[k].id
  PROVE  /\ s \in SeqId /\ s \in Range(running) /\ k \in DOMAIN inFlight
         /\ \A r \in SeqId : r # s => Same(r) /\ numScheduled'[r] = numScheduled[r]
         /\ numScheduled'[s] = 0
         /\ LengthsOK(s)' /\ InPhase(s)'
         /\ s \notin finished' => (Len(tokens[s]) < numPrompt[s] + maxTokens[s])'
         /\ s \in recovered' => Phase(s)' = "decode"
<1> DEFINE p == inFlight[k]
           n == numScheduled[s]
           c == numCached[s]
           L == Len(tokens[s])
<1>0. SchedTypeOK /\ pc = "apply" /\ applied < Len(inFlight)
  BY DEF SchedInv, ApplyOne
<1>1. /\ k \in DOMAIN inFlight /\ p \in PlanEntry /\ s \in SeqId
      /\ s \in Range(running) /\ s \notin finished /\ s \notin recovered
      /\ n \in Nat \ {0} /\ p.last = c + n /\ p.last <= L
      /\ p.sampling <=> p.last = L
      /\ result[k] \in Sampled /\ (result[k] # <<>>) = p.sampling
      /\ MissingBlocks(s) = 0 /\ InPhase(s) /\ LengthsOK(s)
      /\ L < numPrompt[s] + maxTokens[s]
      /\ n <= Wanted(s)
  BY <1>0, NextEntry
<1>2. Commit(s, n, result[k])
  BY ApplyOneIsCommit
<1>3. /\ numCached' = [numCached EXCEPT ![s] = @ + n]
      /\ tokens' = [tokens EXCEPT ![s] = @ \o result[k]]
      /\ table' = table
  BY <1>2 DEF Commit
<1>4. /\ numScheduled' = [numScheduled EXCEPT ![s] = 0]
      /\ recovered' = recovered \cup
           {r \in {s} : /\ p.phase = "prefill" /\ p.sampling
                        /\ recomputeTarget[r] = numCached'[r]}
      /\ finished' = finished \cup {r \in {s} : p.sampling /\
                       Stops(s, Len(tokens[s]) + 1 - numPrompt[s], result[k][1])}
      /\ UNCHANGED <<numPrompt, recomputeTarget, maxTokens, running>>
  BY DEF ApplyOne
<1>5. /\ numCached'[s] = c + n /\ tokens'[s] = tokens[s] \o result[k] /\ numScheduled'[s] = 0
      /\ \A r \in SeqId : r # s =>
           /\ numCached'[r] = numCached[r] /\ tokens'[r] = tokens[r]
           /\ numScheduled'[r] = numScheduled[r]
  BY <1>0, <1>1, <1>3, <1>4 DEF SchedTypeOK, PoolTypeOK
<1>6. \A r \in SeqId : r # s => Same(r)
  BY <1>3, <1>4, <1>5 DEF Same
<1>7. /\ c \in Nat /\ L \in Nat /\ numPrompt[s] \in Nat /\ maxTokens[s] \in Nat
      /\ recomputeTarget[s] \in Nat /\ PrefillTarget(s) \in Nat
      /\ Phase(s) \in {"prefill", "decode"} /\ tokens[s] \in Seq(Token)
      /\ Len(table[s]) \in Nat /\ BlockSize \in Nat \ {0} /\ BlocksNeeded(s) \in Nat
  BY <1>0, <1>1, RequestTypes
<1>8. PrefillTarget(s)' = PrefillTarget(s)
  BY <1>4 DEF PrefillTarget
<1>9. CASE ~p.sampling
  <2>0. result[k] = <<>> /\ p.last # L
    BY <1>1, <1>9, Zenon
  <2>1. result[k] = <<>> /\ c + n < L
    <3>1. c \in Nat /\ L \in Nat /\ n \in Nat /\ c + n <= L /\ c + n # L
      BY <1>1, <1>7, <2>0
    <3> HIDE DEF c, n, L
    <3> QED
      BY <2>0, <3>1
  <2>2. tokens'[s] = tokens[s]
    BY <1>5, <1>7, <2>1
  <2>3. Phase(s) = "prefill"
    <3>1. c # L - 1
      BY <1>1, <1>7, <2>1
    <3> QED
      BY <1>1, <1>7, <3>1 DEF InPhase
  <2>4. PrefillTarget(s) = L
    BY <1>1, <2>3 DEF InPhase
  <2>5. Phase(s)' = "prefill"
    BY <1>5, <1>8, <2>1, <2>4 DEF Phase
  <2>6. MissingBlocks(s)' = 0
    <3>1. MissingBlocks(s)' = MissingBlocks(s)
      BY <1>3, <2>2 DEF MissingBlocks, BlocksNeeded
    <3> QED
      BY <1>1, <3>1
  <2>7. InPhase(s)'
    BY <1>8, <2>2, <2>4, <2>5, <2>6 DEF InPhase
  <2>8. LengthsOK(s)'
    BY <1>1, <1>4, <2>2 DEF LengthsOK
  <2>9. (Len(tokens[s]) < numPrompt[s] + maxTokens[s])'
    BY <1>1, <1>4, <2>2
  <2>10. s \notin recovered'
    BY <1>1, <1>4, <1>9
  <2> QED
    BY <1>1, <1>5, <1>6, <2>7, <2>8, <2>9, <2>10
<1>10. CASE p.sampling
  <2>1. c + n = L /\ result[k] # <<>>
    BY <1>1, <1>10
  <2>2. PICK t \in Token : result[k] = <<t>>
    BY <1>1, <2>1 DEF Sampled
  <2>3. Len(tokens'[s]) = L + 1
    BY <1>5, <1>7, <2>2
  <2>4. PrefillTarget(s) <= L
    BY <1>1, <1>7 DEF LengthsOK, PrefillTarget
  <2>5. Phase(s)' = "decode"
    BY <1>5, <1>7, <1>8, <2>1, <2>4 DEF Phase
  <2>6. MissingBlocks(s)' \in {0, 1}
    <3>1. BlocksNeeded(s)' = (L + 1 + BlockSize - 1) \div BlockSize
      BY <2>3 DEF BlocksNeeded
    <3>2. BlocksNeeded(s) = (L + BlockSize - 1) \div BlockSize
      BY DEF BlocksNeeded
    <3>3. Len(table[s]) = BlocksNeeded(s)
      BY <1>1, <1>7 DEF MissingBlocks
    <3>4. MissingBlocks(s)' = BlocksNeeded(s)' - BlocksNeeded(s)
      BY <1>3, <3>3 DEF MissingBlocks
    <3> HIDE DEF L
    <3>5. (L + 1 + BlockSize - 1) \div BlockSize - (L + BlockSize - 1) \div BlockSize \in {0, 1}
      BY <1>7, NextTokenBlock
    <3> QED
      BY <3>1, <3>2, <3>4, <3>5, Zenon
  <2>7. InPhase(s)'
    <3>1. (numCached[s] = Len(tokens[s]) - 1)'
      BY <1>5, <1>7, <2>1, <2>3
    <3> QED
      BY <2>5, <2>6, <3>1 DEF InPhase
  <2>8. LengthsOK(s)'
    BY <1>1, <1>4, <1>7, <2>3 DEF LengthsOK
  <2>9. ASSUME s \notin finished' PROVE (Len(tokens[s]) < numPrompt[s] + maxTokens[s])'
    <3>1. ~Stops(s, L + 1 - numPrompt[s], result[k][1])
      BY <1>4, <1>10, <2>9
    <3>2. ~(L + 1 - numPrompt[s] >= maxTokens[s])
      BY <3>1 DEF Stops
    <3> DEFINE a == numPrompt[s]
               m == maxTokens[s]
    <3>3. L + 1 < a + m
      <4>1. L \in Nat /\ a \in Nat /\ m \in Nat /\ ~(L + 1 - a >= m)
        BY <1>7, <3>2
      <4> HIDE DEF L, a, m
      <4> QED
        BY <4>1
    <3> QED
      BY <1>4, <2>3, <3>3
  <2> QED
    BY <1>1, <1>5, <1>6, <2>5, <2>7, <2>8, <2>9
<1> QED
  BY <1>9, <1>10

(* One result is applied.                                                  *)
LEMMA ApplyOneOK ==
  ASSUME SchedInv, PoolTypeOK', ApplyOne
  PROVE  SchedInv'
<1>0. SchedTypeOK /\ PlanOK /\ pc = "apply" /\ applied < Len(inFlight)
  BY DEF SchedInv, ApplyOne
<1>1. PICK k : k = applied + 1
  OBVIOUS
<1>2. PICK s : s = inFlight[k].id
  OBVIOUS
<1>3. /\ s \in SeqId /\ s \in Range(running) /\ k \in DOMAIN inFlight
      /\ \A r \in SeqId : r # s => Same(r) /\ numScheduled'[r] = numScheduled[r]
      /\ numScheduled'[s] = 0
      /\ LengthsOK(s)' /\ InPhase(s)'
      /\ s \notin finished' => (Len(tokens[s]) < numPrompt[s] + maxTokens[s])'
      /\ s \in recovered' => Phase(s)' = "decode"
  BY <1>1, <1>2, ApplyOneEffect
<1>4. /\ s \notin finished /\ s \notin recovered
      /\ \A j \in DOMAIN inFlight : inFlight[j].id = s => j = k
  BY <1>0, <1>1, <1>2, NextEntry
<1>5. /\ finished' \subseteq finished \cup {s} /\ finished \subseteq finished'
      /\ recovered' \subseteq recovered \cup {s}
      /\ numScheduled' = [numScheduled EXCEPT ![s] = 0]
      /\ applied' = k /\ pc' = "apply"
      /\ UNCHANGED <<numPrompt, recomputeTarget, maxTokens, ignoreEos, waiting, running,
                     nextId, inFlight, runningBefore, blockedBefore, blocked, path, result>>
  BY <1>0, <1>1, <1>2 DEF ApplyOne
<1>6. /\ running \in Seq(SeqId) /\ Range(running) \subseteq SeqId
      /\ Range(running) \cap Range(waiting) = {}
  BY QueueTypes
<1>7. table' = table
  BY DEF ApplyOne
<1>8. SchedTypeOK'
  <2>1. numScheduled' \in [SeqId -> Nat] /\ applied' \in Nat
    <3>1. numScheduled \in [SeqId -> Nat] /\ applied \in Nat
      BY <1>0 DEF SchedTypeOK
    <3>2. applied' = applied + 1 /\ numScheduled' = [numScheduled EXCEPT ![s] = 0]
      BY <1>1, <1>5
    <3>3. numScheduled' \in [SeqId -> Nat]
      BY <3>1, <3>2, Zenon
    <3>4. applied' \in Nat
      BY <3>1, <3>2
    <3> QED
      BY <3>3, <3>4
  <2>2. finished' \in SUBSET SeqId /\ recovered' \in SUBSET SeqId
    BY <1>0, <1>3, <1>5 DEF SchedTypeOK
  <2>3. outputs' \in Seq([request : SeqId, completion : Seq(Token)])
    <3> DEFINE q == SubSeq(tokens'[s], numPrompt[s] + 1, Len(tokens'[s]))
               o == [request |-> s, completion |-> q]
    <3>1. outputs' = outputs \/ outputs' = Append(outputs, o)
      BY <1>1, <1>2 DEF ApplyOne
    <3>2. q \in Seq(Token)
      <4> DEFINE ts == tokens'[s]
                 a == numPrompt[s] + 1
      <4>1. ts \in Seq(Token) /\ Len(ts) \in Nat
        BY <1>3 DEF PoolTypeOK
      <4>2. a \in Nat /\ a >= 1
        BY <1>0, <1>3, RequestTypes
      <4> HIDE DEF ts, a
      <4>3. \A i \in a .. Len(ts) : ts[i] \in Token
        BY <4>1, <4>2
      <4>4. SubSeq(ts, a, Len(ts)) \in Seq(Token)
        BY <4>1, <4>2, <4>3, SubSeqProperties
      <4> QED
        BY <4>4 DEF ts, a
    <3>3. o \in [request : SeqId, completion : Seq(Token)]
      BY <1>3, <3>2
    <3>4. outputs \in Seq([request : SeqId, completion : Seq(Token)])
      BY <1>0 DEF SchedTypeOK
    <3> DEFINE O == [request : SeqId, completion : Seq(Token)]
    <3>5. o \in O /\ outputs \in Seq(O)
      BY <3>3, <3>4
    <3> HIDE DEF o, O
    <3>6. outputs' \in Seq(O)
      BY <3>1, <3>5, PushBackProperties
    <3> QED
      BY <3>6 DEF O
  <2> QED
    BY <1>0, <1>5, <2>1, <2>2, <2>3, Zenon DEF SchedTypeOK
<1>9. Ordered(running, waiting, nextId)'
  BY <1>5 DEF SchedInv, Ordered, Increasing
<1>10. OnlyRunningOwn'
  BY <1>5, <1>7 DEF SchedInv, OnlyRunningOwn
<1>11. ASSUME NEW r \in SeqId, r # s PROVE RequestOK(r)'
  <2>1. RequestOK(r) /\ Same(r) /\ WorkOK(r)
    BY <1>3, <1>11 DEF SchedInv, RequestOK
  <2>2. WorkOK(r)'
    <3>1. /\ Wanted(r)' = Wanted(r) /\ MissingBlocks(r)' = MissingBlocks(r)
          /\ numScheduled'[r] = numScheduled[r]
      BY <1>3, <1>11, <2>1, SameFields
    <3> QED
      BY <1>0, <1>5, <2>1, <3>1 DEF WorkOK, Executing
  <2> QED
    BY <1>5, <2>1, <2>2, RequestKept
<1>12. RequestOK(s)'
  <2>1. ~(s >= nextId')
    <3>1. ~(s >= nextId) 
      BY <1>0, <1>3, RequestTypes, QueueTypes DEF SchedInv, Ordered
    <3> QED
      BY <1>5, <3>1
  <2>2. s \notin Range(waiting)'
    BY <1>3, <1>5, <1>6
  <2>3. WorkOK(s)'
    BY <1>3, NoWork
  <2> QED
    BY <1>3, <2>1, <2>2, <2>3 DEF RequestOK
<1>13. ASSUME NEW j \in DOMAIN inFlight PROVE EntryOK(j)'
  <2>1. EntryOK(j)
    BY <1>0 DEF PlanOK
  <2>2. j \in Nat /\ k \in Nat /\ applied \in Nat
    BY <1>0, <1>1 DEF SchedTypeOK
  <2>3. CASE j = k
    <3>1. j <= applied' /\ ~(j > applied')
      BY <1>5, <2>2, <2>3
    <3>2. inFlight'[j].id = s /\ s \in Range(running)' /\ numScheduled'[s] = 0
      BY <1>2, <1>3, <1>5, <2>3
    <3>3. \A i \in DOMAIN inFlight' : inFlight'[i].id = s => i = j
      BY <1>4, <1>5, <2>3
    <3> QED
      BY <3>1, <3>2, <3>3 DEF EntryOK
  <2>4. CASE j # k
    <3>1. PICK r : r = inFlight[j].id
      OBVIOUS
    <3>2. r # s
      BY <1>4, <2>4, <3>1
    <3>3. r \in SeqId
      BY <1>6, <2>1, <3>1 DEF EntryOK
    <3>4. /\ numScheduled'[r] = numScheduled[r] /\ numCached'[r] = numCached[r]
          /\ tokens'[r] = tokens[r]
      BY <1>3, <3>2, <3>3 DEF Same
    <3>5. (j <= applied' <=> j <= applied) /\ (j > applied' <=> j > applied)
      BY <1>1, <1>5, <2>2, <2>4
    <3>6. (r \notin finished => r \notin finished') /\ (r \notin recovered => r \notin recovered')
      BY <1>5, <3>2
    <3>7. inFlight'[j].id = r /\ inFlight' = inFlight /\ running' = running
      BY <1>5, <3>1
    <3> QED
      BY <2>1, <3>1, <3>4, <3>5, <3>6, <3>7 DEF EntryOK, TokenBudget
  <2> QED
    BY <2>3, <2>4
<1>14. PlanOK'
  <2>1. inFlight' # <<>> /\ Executing' /\ Executing
    BY <1>0, <1>5 DEF PlanOK, Executing
  <2>2. \A r \in SeqId : numScheduled'[r] > 0 => \E j \in DOMAIN inFlight' : inFlight'[j].id = r
    <3> SUFFICES ASSUME NEW r \in SeqId, numScheduled'[r] > 0
                 PROVE  \E j \in DOMAIN inFlight' : inFlight'[j].id = r
      OBVIOUS
    <3>1. r # s /\ numScheduled[r] > 0
      BY <1>3
    <3> QED
      BY <1>0, <1>5, <2>1, <3>1 DEF PlanOK
  <2>3. applied' <= Len(inFlight')
    BY <1>0, <1>1, <1>5 DEF SchedTypeOK
  <2>4. finished' \subseteq Range(running)' /\ recovered' \subseteq Range(running)'
    BY <1>0, <1>3, <1>5 DEF PlanOK
  <2>5. ASSUME NEW r \in recovered' PROVE Phase(r)' = "decode"
    <3>1. CASE r = s
      BY <1>3, <2>5, <3>1
    <3>2. CASE r # s
      <4>1. r \in recovered
        BY <1>5, <2>5, <3>2
      <4>2. r \in SeqId /\ Phase(r) = "decode"
        BY <1>0, <1>6, <4>1 DEF PlanOK
      <4> QED
        BY <1>3, <3>2, <4>2, SameFields
    <3> QED
      BY <3>1, <3>2
  <2>6. /\ DOMAIN result' = DOMAIN inFlight'
        /\ \A j \in DOMAIN inFlight' : (result'[j] # <<>>) = inFlight'[j].sampling
    BY <1>0, <1>5 DEF PlanOK
  <2>7. \A j \in DOMAIN inFlight' : EntryOK(j)'
    BY <1>5, <1>13
  <2> QED
    BY <1>5, <2>1, <2>2, <2>3, <2>4, <2>5, <2>6, <2>7 DEF PlanOK
<1>15. SelectionOK'
  BY <1>5 DEF SchedInv, SelectionOK, Selecting
<1>16. ProgressOK'
  BY <1>5 DEF ProgressOK
<1> QED
  BY <1>8, <1>9, <1>10, <1>11, <1>12, <1>14, <1>15, <1>16 DEF SchedInv

(* What a release of a batch does to the sequences.                        *)
LEMMA ReleaseEffect ==
  ASSUME NEW q, DeallocateBatch(q)
  PROVE  /\ tokens' = tokens
         /\ \A s \in SeqId :
              IF s \in Range(q) THEN table'[s] = <<>> /\ numCached'[s] = 0
              ELSE table'[s] = table[s] /\ numCached'[s] = numCached[s]
BY DEF DeallocateBatch

(* A selection is not longer.                                              *)
LEMMA RetainShortens ==
  ASSUME NEW T, NEW q \in Seq(T), NEW S
  PROVE  Len(Retain(q, S)) \in Nat /\ Len(Retain(q, S)) <= Len(q)
<1> DEFINE I == {i \in 1 .. Len(q) : q[i] \in S}
<1>1. Len(Retain(q, S)) = Cardinality(I) /\ Len(Retain(q, S)) \in Nat
  BY RetainProperties
<1>2. Len(q) \in Nat
  OBVIOUS
<1>3. IsFiniteSet(1 .. Len(q)) /\ Cardinality(1 .. Len(q)) = Len(q)
  BY <1>2, FS_Interval
<1>4. I \subseteq 1 .. Len(q)
  OBVIOUS
<1> HIDE DEF I
<1>5. Cardinality(I) <= Cardinality(1 .. Len(q))
  BY <1>3, <1>4, FS_Subset
<1> QED
  BY <1>1, <1>3, <1>5

(* Nothing stays scheduled once every entry has been applied.              *)
LEMMA AllApplied ==
  ASSUME SchedInv, pc = "apply", applied = Len(inFlight)
  PROVE  \A s \in SeqId : numScheduled[s] = 0
<1> SUFFICES ASSUME NEW s \in SeqId, numScheduled[s] # 0 PROVE FALSE
  OBVIOUS
<1>1. numScheduled[s] \in Nat /\ inFlight \in Seq(PlanEntry)
  BY DEF SchedInv, SchedTypeOK
<1>2. PICK k \in DOMAIN inFlight : inFlight[k].id = s
  BY <1>1 DEF SchedInv, PlanOK, Executing
<1>3. EntryOK(k)
  BY DEF SchedInv, PlanOK
<1>4. k <= applied
  BY <1>1
<1> QED
  BY <1>2, <1>3, <1>4 DEF EntryOK

(* The locals of a finished step have their types.                         *)
LEMMA ReturnTypes ==
  ASSUME SchedTypeOK, PoolTypeOK', ReturnFromStep, inFlight' = <<>>,
         numScheduled' \in [SeqId -> Nat], recomputeTarget' \in [SeqId -> Nat],
         waiting' \in Seq(SeqId), running' \in Seq(SeqId),
         UNCHANGED <<numPrompt, maxTokens, ignoreEos, nextId, outputs>>
  PROVE  SchedTypeOK'
<1>1. {blockedBefore', blocked'} \subseteq BlockReport
  BY DEF ReturnFromStep, NoBlock, BlockReport
<1>2. /\ pc' \in {"idle", "preempt", "admit", "reserve", "capture", "execute", "apply"}
      /\ path' \in {"none", "prefill", "paged_prefill", "decode"}
      /\ runningBefore' \in Nat /\ applied' \in Nat
      /\ finished' \in SUBSET SeqId /\ recovered' \in SUBSET SeqId
  BY DEF ReturnFromStep
<1>3. inFlight' \in Seq(PlanEntry) /\ result' \in Seq(Sampled)
  BY DEF ReturnFromStep
<1> QED
  BY <1>1, <1>2, <1>3, Zenon DEF SchedTypeOK

(* The finished sequences leave.                                           *)
LEMMA ApplyEndsOK ==
  ASSUME SchedInv, PoolTypeOK', ApplyEnds
  PROVE  SchedInv'
<1>0. SchedTypeOK /\ PlanOK
  BY DEF SchedInv
<1>1. /\ pc = "apply" /\ applied = Len(inFlight)
      /\ running' = Retain(running, SeqId \ finished)
      /\ recomputeTarget' = [s \in SeqId |->
                               IF s \in recovered \ finished THEN 0 ELSE recomputeTarget[s]]
      /\ inFlight' = <<>>
      /\ ReturnFromStep
      /\ UNCHANGED <<numPrompt, numScheduled, maxTokens, ignoreEos, waiting, nextId, outputs>>
  BY DEF ApplyEnds
<1>2. pc' = "idle" /\ applied' = 0 /\ finished' = {} /\ recovered' = {}
  BY <1>1 DEF ReturnFromStep
<1>3. /\ running \in Seq(SeqId) /\ waiting \in Seq(SeqId)
      /\ running \in Seq(Int) /\ waiting \in Seq(Int) /\ nextId \in Int
      /\ Range(running) \subseteq SeqId /\ Range(running) \cap Range(waiting) = {}
      /\ Len(running) \in Nat
  BY QueueTypes
<1>4. finished \subseteq Range(running) /\ recovered \subseteq Range(running)
  BY <1>0 DEF PlanOK
<1>5. /\ running' \in Seq(SeqId)
      /\ Range(running)' = Range(running) \cap (SeqId \ finished)
      /\ Len(running') \in Nat /\ Len(running') <= Len(running)
  <2>1. PICK r : r = Retain(running, SeqId \ finished)
    OBVIOUS
  <2>2. r \in Seq(SeqId) /\ Range(r) = Range(running) \cap (SeqId \ finished)
    <3>1. PICK S : S = SeqId \ finished
      OBVIOUS
    <3>2. running \in Seq(SeqId)
      BY <1>3, Zenon
    <3>3. Retain(running, S) \in Seq(SeqId) /\ Range(Retain(running, S)) = Range(running) \cap S
      BY <3>2, RetainProperties, Zenon
    <3> QED
      BY <2>1, <3>1, <3>3, Zenon
  <2>3. Len(r) \in Nat /\ Len(r) <= Len(running)
    BY <1>3, <2>1, RetainShortens
  <2>4. running' = r
    BY <1>1, <2>1
  <2> QED
    BY <2>2, <2>3, <2>4
<1>6. Range(running)' = Range(running) \ finished
  BY <1>3, <1>5
<1>7. /\ tokens' = tokens
      /\ \A s \in SeqId :
           IF s \in finished THEN table'[s] = <<>> /\ numCached'[s] = 0
           ELSE table'[s] = table[s] /\ numCached'[s] = numCached[s]
  <2>1. CASE finished = {}
    <3>1. UNCHANGED poolVars
      BY <2>1 DEF ApplyEnds
    <3> QED
      BY <2>1, <3>1 DEF poolVars
  <2>2. CASE finished # {}
    <3>1. PICK q : q = Retain(running, finished)
      OBVIOUS
    <3>2. DeallocateBatch(q)
      BY <2>2, <3>1 DEF ApplyEnds
    <3>3. Range(q) = finished
      BY <3>1, FinishedProperties
    <3> QED
      BY <3>2, <3>3, ReleaseEffect
  <2> QED
    BY <2>1, <2>2
<1>8. \A s \in SeqId : numScheduled'[s] = 0
  BY <1>1, AllApplied
<1>9. \A s \in SeqId : WorkOK(s)'
  BY <1>8, NoWork
<1>10. SchedTypeOK'
  <2>1. numScheduled' \in [SeqId -> Nat] /\ waiting' \in Seq(SeqId)
    BY <1>0, <1>1 DEF SchedTypeOK
  <2>2. recomputeTarget' \in [SeqId -> Nat]
    BY <1>0, <1>1 DEF SchedTypeOK
  <2> QED
    BY <1>0, <1>1, <1>5, <2>1, <2>2, ReturnTypes
<1>11. Ordered(running, waiting, nextId)'
  <2>1. Ordered(Retain(running, SeqId \ finished), waiting, nextId)
    BY <1>3, OrderedRetain DEF SchedInv
  <2> QED
    BY <1>1, <2>1
<1>12. OnlyRunningOwn'
  <2> SUFFICES ASSUME NEW s \in SeqId
               PROVE  table'[s] # <<>> <=> s \in Range(running)'
    BY DEF OnlyRunningOwn
  <2>1. table[s] # <<>> <=> s \in Range(running)
    BY DEF SchedInv, OnlyRunningOwn
  <2> QED
    BY <1>6, <1>7, <2>1
<1>13. ASSUME NEW s \in SeqId, s \in finished PROVE RequestOK(s)'
  <2>1. ~Queued(s)' /\ s \notin Range(running)' /\ s \notin Range(waiting)'
    BY <1>1, <1>3, <1>4, <1>6, <1>13 DEF Queued
  <2>2. ~(s >= nextId')
    <3>1. ~(s >= nextId)
      BY <1>0, <1>3, <1>4, <1>13, RequestTypes DEF SchedInv, Ordered
    <3> QED
      BY <1>1, <3>1
  <2> QED
    BY <1>9, <2>1, <2>2 DEF RequestOK
<1>14. ASSUME NEW s \in SeqId, s \notin finished, s \notin recovered PROVE RequestOK(s)'
  <2>1. RequestOK(s) /\ Same(s)
    BY <1>1, <1>7, <1>14 DEF SchedInv, Same
  <2>2. /\ s >= nextId' => s >= nextId
        /\ s \in Range(running)' => s \in Range(running)
        /\ s \in Range(waiting)' => s \in Range(waiting)
    BY <1>1, <1>6
  <2> QED
    BY <1>9, <1>14, <2>1, <2>2, RequestKept
<1>15. ASSUME NEW s \in SeqId, s \notin finished, s \in recovered PROVE RequestOK(s)'
  <2>1. RequestOK(s) /\ s \in Range(running) /\ s \notin Range(waiting) /\ Phase(s) = "decode"
    BY <1>0, <1>3, <1>4, <1>15 DEF SchedInv, PlanOK
  <2>2. /\ InPhase(s) /\ LengthsOK(s) /\ Len(tokens[s]) < numPrompt[s] + maxTokens[s]
    BY <1>15, <2>1 DEF RequestOK, Queued
  <2>3. /\ tokens'[s] = tokens[s] /\ table'[s] = table[s] /\ numCached'[s] = numCached[s]
        /\ recomputeTarget'[s] = 0 /\ numPrompt' = numPrompt /\ maxTokens' = maxTokens
    BY <1>1, <1>7, <1>15
  <2>4. /\ numCached[s] \in Nat /\ numPrompt[s] \in Nat /\ PrefillTarget(s) \in Nat
        /\ recomputeTarget[s] \in Nat /\ Len(tokens[s]) \in Nat
    BY <1>0, RequestTypes
  <2>5. Phase(s)' = "decode"
    <3>1. ~(numCached[s] < PrefillTarget(s))
      BY <2>1 DEF Phase
    <3>2. numPrompt[s] <= PrefillTarget(s)
      BY <2>2, <2>4 DEF LengthsOK, PrefillTarget
    <3>3. ~(numCached[s] < numPrompt[s])
      BY <2>4, <3>1, <3>2
    <3>4. PrefillTarget(s)' = numPrompt[s]
      BY <2>3 DEF PrefillTarget
    <3> QED
      BY <2>3, <3>3, <3>4 DEF Phase
  <2>6. MissingBlocks(s)' = MissingBlocks(s)
    BY <2>3 DEF MissingBlocks, BlocksNeeded
  <2>7. InPhase(s)'
    BY <2>1, <2>2, <2>3, <2>5, <2>6 DEF InPhase
  <2>8. LengthsOK(s)' /\ (Len(tokens[s]) < numPrompt[s] + maxTokens[s])'
    BY <2>2, <2>3 DEF LengthsOK
  <2>9. ~(s >= nextId') /\ s \notin Range(waiting)'
    <3>1. ~(s >= nextId)
      BY <1>0, <1>3, <2>1, RequestTypes DEF SchedInv, Ordered
    <3> QED
      BY <1>1, <2>1, <3>1
  <2> QED
    BY <1>9, <2>7, <2>8, <2>9 DEF RequestOK
<1>16. PlanOK'
  BY <1>1, <1>2, NoPlan DEF Executing
<1>17. SelectionOK'
  <2>1. Len(running) <= MaxNumSeqs /\ MaxNumSeqs \in Nat
    BY EngineOptions DEF SchedInv, SelectionOK, ValidOptions
  <2>2. Len(running') <= MaxNumSeqs
    BY <1>3, <1>5, <2>1
  <2> QED
    BY <1>2, <2>2 DEF SelectionOK, Selecting
<1>18. ProgressOK'
  BY <1>2 DEF ProgressOK
<1> QED
  BY <1>10, <1>11, <1>12, <1>13, <1>14, <1>15, <1>16, <1>17, <1>18 DEF SchedInv

(* Every request is dropped.                                               *)
LEMMA AbortOK ==
  ASSUME SchedInv, PoolTypeOK', AbortAllRequests
  PROVE  SchedInv'
<1>0. SchedTypeOK
  BY DEF SchedInv
<1>1. /\ running' = <<>> /\ waiting' = <<>> /\ inFlight' = <<>>
      /\ numScheduled' = [s \in SeqId |-> 0]
      /\ ReturnFromStep
      /\ UNCHANGED <<numPrompt, recomputeTarget, maxTokens, ignoreEos, nextId, outputs>>
  BY DEF AbortAllRequests
<1>2. pc' = "idle" /\ applied' = 0 /\ finished' = {} /\ recovered' = {}
  BY <1>1 DEF ReturnFromStep
<1>3. Range(running)' = {} /\ Range(waiting)' = {} /\ Len(running') = 0
  BY <1>1 DEF Range
<1>4. tokens' = tokens /\ \A s \in SeqId : table'[s] = <<>>
  <2>1. /\ Allocated \in Seq(SeqId) /\ Range(Allocated) = Range(running)
    BY AllocatedProperties
  <2>2. \A s \in SeqId : table[s] # <<>> <=> s \in Range(Allocated)
    BY <2>1 DEF SchedInv, OnlyRunningOwn
  <2>3. CASE Allocated # <<>>
    <3>1. DeallocateBatch(Allocated)
      BY <2>3 DEF AbortAllRequests
    <3> QED
      BY <2>2, <3>1, ReleaseEffect
  <2>4. CASE Allocated = <<>>
    <3>1. UNCHANGED <<tokens, table>>
      BY <2>4 DEF AbortAllRequests, poolVars
    <3>2. Range(Allocated) = {}
      BY <2>1, <2>4, EmptyRange
    <3> QED
      BY <2>2, <3>1, <3>2
  <2> QED
    BY <2>3, <2>4
<1>5. SchedTypeOK'
  <2>1. numScheduled' \in [SeqId -> Nat] /\ recomputeTarget' \in [SeqId -> Nat]
        /\ waiting' \in Seq(SeqId) /\ running' \in Seq(SeqId)
    BY <1>0, <1>1 DEF SchedTypeOK
  <2> QED
    BY <1>0, <1>1, <2>1, ReturnTypes
<1>6. Ordered(running, waiting, nextId)'
  BY <1>1, <1>3 DEF Ordered, Increasing
<1>7. OnlyRunningOwn'
  BY <1>3, <1>4 DEF OnlyRunningOwn
<1>8. ASSUME NEW s \in SeqId PROVE RequestOK(s)'
  <2>1. WorkOK(s)'
    BY <1>1, NoWork
  <2>2. s >= nextId' => Unused(s)'
    BY <1>1, <1>4 DEF SchedInv, RequestOK, Unused
  <2> QED
    BY <1>3, <2>1, <2>2 DEF RequestOK, Queued
<1>9. PlanOK'
  BY <1>1, <1>2, NoPlan DEF Executing
<1>10. SelectionOK'
  BY <1>2, <1>3, EngineOptions DEF SelectionOK, Selecting, ValidOptions
<1>11. ProgressOK'
  BY <1>2 DEF ProgressOK
<1> QED
  BY <1>5, <1>6, <1>7, <1>8, <1>9, <1>10, <1>11 DEF SchedInv

(* Nothing happens.                                                        *)
LEMMA StutterOK ==
  ASSUME SchedInv, UNCHANGED schedVars
  PROVE  SchedInv'
<1>0. /\ SchedTypeOK /\ Ordered(running, waiting, nextId) /\ OnlyRunningOwn
      /\ PlanOK /\ SelectionOK /\ ProgressOK
  BY DEF SchedInv
<1>1. /\ UNCHANGED poolVars
      /\ UNCHANGED <<free, used, refCount, hash, identity, index, tokens, table, numCached>>
      /\ UNCHANGED <<numPrompt, numScheduled, recomputeTarget, maxTokens, ignoreEos>>
      /\ UNCHANGED <<waiting, running, nextId, inFlight, pc>>
      /\ UNCHANGED <<runningBefore, blockedBefore, blocked, path, result, applied,
                     finished, recovered, outputs>>
  BY DEF schedVars, poolVars, seqVars, callVars
<1>2. SchedTypeOK'
  BY <1>0, <1>1, Zenon DEF SchedTypeOK, PoolTypeOK
<1>3. Ordered(running, waiting, nextId)'
  BY <1>0, <1>1 DEF Ordered, Increasing
<1>4. OnlyRunningOwn'
  BY <1>0, <1>1 DEF OnlyRunningOwn
<1>5. ASSUME NEW s \in SeqId PROVE RequestOK(s)'
  <2>1. RequestOK(s) /\ Same(s) /\ WorkOK(s)
    BY <1>1 DEF SchedInv, Same, RequestOK
  <2>2. WorkOK(s)'
    <3>1. Wanted(s)' = Wanted(s) /\ MissingBlocks(s)' = MissingBlocks(s)
      BY <2>1, SameFields
    <3> QED
      BY <1>1, <2>1, <3>1 DEF WorkOK, Executing, Selecting
  <2> QED
    BY <1>1, <2>1, <2>2, RequestKept
<1>6. /\ Early' = Early /\ HeldEarly' = HeldEarly /\ ShortDecoders' = ShortDecoders
      /\ ScheduledTokens' = ScheduledTokens /\ EarlyWork' = EarlyWork
      /\ \A s : Phase(s)' = Phase(s)
  BY <1>1, SelectionKept
<1>7. PlanOK'
  <2>1. \A k \in DOMAIN inFlight : EntryOK(k)'
    <3> SUFFICES ASSUME NEW k \in DOMAIN inFlight PROVE EntryOK(k)'
      OBVIOUS
    <3>1. EntryOK(k)
      BY <1>0 DEF PlanOK
    <3> QED
      BY <1>1, <3>1 DEF EntryOK, TokenBudget
  <2>2. PlanBudgets' = PlanBudgets
    BY <1>1 DEF PlanBudgets, TokenBudget
  <2>3. Total(PlanBudgets)' = Total(PlanBudgets)
    BY <2>2 DEF Total, SumTo
  <2> QED
    BY <1>0, <1>1, <1>6, <2>1, <2>3 DEF PlanOK, Executing
<1>8. SelectionOK'
  <2>1. ASSUME Selecting', NEW i \in DOMAIN running', i > runningBefore'
        PROVE  (Phase(running[i]) = "prefill" /\ numScheduled[running[i]] > 0)'
    <3>1. PICK r : r = running[i]
      OBVIOUS
    <3>2. Phase(r) = "prefill" /\ numScheduled[r] > 0
      BY <1>0, <1>1, <2>1, <3>1 DEF SelectionOK, Selecting
    <3>3. Phase(r)' = "prefill" /\ numScheduled'[r] > 0 /\ running'[i] = r
      BY <1>1, <1>6, <3>1, <3>2
    <3> QED
      BY <3>3
  <2>2. (pc \in {"admit", "reserve"} =>
           Cardinality(HeldEarly) + Cardinality(ShortDecoders) <= NumBlocks)'
    BY <1>0, <1>1, <1>6 DEF SelectionOK
  <2>3. (Len(running) <= MaxNumSeqs)'
    BY <1>0, <1>1 DEF SelectionOK
  <2>4. Selecting' => (ScheduledTokens <= MaxNumBatchedTokens /\ runningBefore <= Len(running))'
    BY <1>0, <1>1, <1>6 DEF SelectionOK, Selecting
  <2> QED
    BY <2>1, <2>2, <2>3, <2>4 DEF SelectionOK
<1>9. ProgressOK'
  <2>1. CanAdmit' = CanAdmit
    <3>1. PICK h : h = Head(waiting)
      OBVIOUS
    <3>2. Head(waiting)' = h
      BY <1>1, <3>1
    <3>3. CanAllocate(h)' = CanAllocate(h)
      BY <1>1, CanAllocateUnchanged
    <3>4. CanAllocate(Head(waiting))' = CanAllocate(Head(waiting))
      BY <3>1, <3>2, <3>3
    <3> QED
      BY <1>1, <1>6, <3>4 DEF CanAdmit
  <2> QED
    BY <1>0, <1>1, <1>6, <2>1 DEF ProgressOK, IsRunning
<1> QED
  BY <1>2, <1>3, <1>4, <1>5, <1>7, <1>8, <1>9 DEF SchedInv

(* The two invariants hold together: the scheduler's rests on the pool     *)
(* keeping its promises, and the pool's on the scheduler keeping to its    *)
(* interface.                                                              *)
SystemInv == SchedInv /\ CacheInv

(* The invariant of scheduler and pool holds at the start.                 *)
LEMMA SystemInit == SchedInit => SystemInv
BY SchedInitOK, CacheInit DEF SystemInv, SchedInit

(* Every step keeps it and is a step of the pool.                          *)
LEMMA SystemStep == SystemInv /\ [SchedNext]_schedVars => SystemInv' /\ [PoolNext]_poolVars
<1> SUFFICES ASSUME SystemInv, [SchedNext]_schedVars
             PROVE  SystemInv' /\ [PoolNext]_poolVars
  OBVIOUS
<1>0. SchedInv /\ CacheInv
  BY DEF SystemInv
<1>1. [PoolNext]_poolVars
  <2>1. CASE SchedNext
    BY <1>0, <2>1, StepUsesPool DEF PoolStep
  <2>2. CASE UNCHANGED schedVars
    BY <2>2 DEF schedVars
  <2> QED
    BY <2>1, <2>2
<1>2. CacheInv'
  BY <1>0, <1>1, CacheStep
<1>3. PoolTypeOK'
  BY <1>2 DEF CacheInv, PoolInv
<1>4. SchedInv'
  <2>1. ASSUME NEW p \in Prompt, NEW m \in MaxTokens, NEW i \in BOOLEAN, AddRequest(p, m, i)
        PROVE  SchedInv'
    BY <1>0, <1>3, <2>1, AddRequestOK
  <2>2. CASE BeginStep
    BY <1>0, <1>3, <2>2, BeginStepOK
  <2>3. CASE Preempt
    BY <1>0, <1>3, <2>3, PreemptOK
  <2>4. CASE ScheduleRunning
    BY <1>0, <1>3, <2>4, ScheduleRunningOK
  <2>5. CASE AdmitHead
    BY <1>0, <1>3, <2>5, AdmitHeadOK
  <2>6. CASE AdmissionEnds
    BY <1>0, <1>3, <2>6, AdmissionEndsOK
  <2>7. CASE ReserveDecodeCache
    BY <1>0, <1>3, <2>7, ReserveDecodeCacheOK
  <2>8. CASE RollbackLastAdmission
    BY <1>0, <1>3, <2>8, RollbackOK
  <2>9. CASE CapturePlan
    BY <1>0, <1>3, <2>9, CapturePlanOK
  <2>10. ASSUME NEW r \in Results(inFlight), Execute(r) PROVE SchedInv'
    BY <1>0, <1>3, <2>10, ExecuteOK
  <2>11. CASE ApplyOne
    BY <1>0, <1>3, <2>11, ApplyOneOK
  <2>12. CASE ApplyEnds
    BY <1>0, <1>3, <2>12, ApplyEndsOK
  <2>13. CASE AbortAllRequests
    BY <1>0, <1>3, <2>13, AbortOK
  <2>14. CASE UNCHANGED schedVars
    BY <1>0, <2>14, StutterOK
  <2> QED
    BY <2>1, <2>2, <2>3, <2>4, <2>5, <2>6, <2>7, <2>8, <2>9, <2>10, <2>11, <2>12, <2>13, <2>14
       DEF SchedNext, PlanStep, ExecuteStep, ApplyStep
<1> QED
  BY <1>1, <1>2, <1>4 DEF SystemInv
-----------------------------------------------------------------------------
(* The theorems.                                                           *)

(* The scheduler reaches the pool only through its interface: it admits    *)
(* what can_allocate accepts, commits tokens it holds blocks for, reserves *)
(* what can_append_batch allows and releases what is held.  Every theorem  *)
(* about PoolSpec therefore holds of the scheduler's pool.                 *)
THEOREM SchedulerImplementsPool == SchedSpec => ImplementsPool
<1>1. SchedInit => PoolInit
  BY DEF SchedInit
<1>2. SystemInv /\ [SchedNext]_schedVars => [UNCHANGED poolVars \/ PoolNext]_poolVars
  BY SystemStep
<1> QED
  BY <1>1, <1>2, SystemInit, SystemStep, PTL DEF SchedSpec, ImplementsPool

(* The queues are typed, in order of arrival, and exactly the running      *)
(* sequences hold blocks, through admission, chunked prefill, preemption,  *)
(* rollback, finish and abort.                                             *)
THEOREM SchedulerQueuesConsistent == SchedSpec => []QueuesConsistent
<1>1. SystemInv => QueuesConsistent
  <2> SUFFICES ASSUME SystemInv PROVE QueuesConsistent
    OBVIOUS
  <2>1. SchedInv
    BY DEF SystemInv
  <2>2. FifoOrder
    BY <2>1, QueueTypes, OrderedIsFifo DEF SchedInv
  <2> QED
    BY <2>1, <2>2 DEF SchedInv, QueuesConsistent
<1> QED
  BY <1>1, SystemInit, SystemStep, PTL DEF SchedSpec

(* A captured plan computes at least one token and at most the budget, for *)
(* at most max_num_seqs sequences; it computes exactly the tokens after    *)
(* the cached ones, and samples exactly at the end of a history.           *)
THEOREM SchedulerPlanIsExact == SchedSpec => []PlanIsExact
<1>1. SystemInv => PlanIsExact
  <2> SUFFICES ASSUME SchedInv PROVE PlanIsExact
    BY DEF SystemInv
  <2>0. SchedTypeOK /\ PlanOK
    BY DEF SchedInv
  <2>1. ASSUME pc = "execute", NEW k \in DOMAIN inFlight
        PROVE  /\ inFlight[k].first = numCached[inFlight[k].id] + 1
               /\ inFlight[k].last \in inFlight[k].first .. Len(tokens[inFlight[k].id])
               /\ inFlight[k].sampling <=> inFlight[k].last = Len(tokens[inFlight[k].id])
               /\ TokenBudget(inFlight[k]) = numScheduled[inFlight[k].id]
               /\ TokenBudget(inFlight[k]) \in Nat \ {0}
    <3>1. EntryOK(k) /\ k > applied
      BY <2>0, <2>1 DEF PlanOK, SchedTypeOK
    <3>2. inFlight[k] \in PlanEntry
      BY <2>0 DEF SchedTypeOK
    <3>3. inFlight[k].first \in Nat /\ inFlight[k].last \in Nat
      BY <3>2 DEF PlanEntry
    <3>4. /\ inFlight[k].first = numCached[inFlight[k].id] + 1
          /\ inFlight[k].last \in inFlight[k].first .. Len(tokens[inFlight[k].id])
          /\ inFlight[k].sampling <=> inFlight[k].last = Len(tokens[inFlight[k].id])
          /\ TokenBudget(inFlight[k]) = numScheduled[inFlight[k].id]
      BY <3>1 DEF EntryOK
    <3>5. inFlight[k].last >= inFlight[k].first
      BY <3>3, <3>4
    <3>6. TokenBudget(inFlight[k]) \in Nat \ {0}
      BY <3>3, <3>5 DEF TokenBudget
    <3> QED
      BY <3>4, <3>6
  <2>2. PlansNextTokens
    <3> SUFFICES ASSUME pc = "execute", NEW p \in Range(inFlight)
                 PROVE  /\ p.first = numCached[p.id] + 1
                        /\ p.last \in p.first .. Len(tokens[p.id])
                        /\ p.sampling <=> p.last = Len(tokens[p.id])
      BY DEF PlansNextTokens, Planned
    <3>1. PICK k \in DOMAIN inFlight : inFlight[k] = p
      BY DEF Range
    <3> QED
      BY <2>1, <3>1
  <2>3. ASSUME pc = "execute" PROVE Total(PlanBudgets) \in 1 .. MaxNumBatchedTokens
    <3> DEFINE f == PlanBudgets
               n == Len(inFlight)
    <3>1. inFlight \in Seq(PlanEntry) /\ inFlight # <<>> /\ Total(f) <= MaxNumBatchedTokens
      BY <2>0, <2>3 DEF SchedTypeOK, PlanOK, Executing
    <3>2. n \in Nat \ {0} /\ DOMAIN inFlight = 1 .. n
      BY <3>1, EmptySeq
    <3>3. f = [k \in 1 .. n |-> TokenBudget(inFlight[k])]
      BY <3>2 DEF PlanBudgets
    <3>4. \A k \in 1 .. n : TokenBudget(inFlight[k]) \in Nat \ {0}
      BY <2>1, <2>3, <3>2
    <3> HIDE DEF f, n
    <3>5. f \in Seq(Nat) /\ Len(f) = n /\ f[n] \in Nat \ {0}
      BY <3>2, <3>3, <3>4
    <3>6. SumTo(f, n) >= f[n] /\ Total(f) \in Nat
      <4>1. n \in 1 .. Len(f)
        BY <3>2, <3>5
      <4> QED
        BY <3>5, <4>1, SumType
    <3>7. Total(f) = SumTo(f, n)
      BY <3>5 DEF Total
    <3>8. MaxNumBatchedTokens \in Nat
      BY EngineOptions DEF ValidOptions
    <3> QED
      BY <3>1, <3>5, <3>6, <3>7, <3>8 DEF f
  <2>4. PlanWithinLimits
    <3>1. Len(running) <= MaxNumSeqs
      BY DEF SchedInv, SelectionOK
    <3> QED
      BY <2>3, <3>1 DEF PlanWithinLimits, PlanBudgets
  <2> QED
    BY <2>2, <2>4 DEF PlanIsExact
<1> QED
  BY <1>1, SystemInit, SystemStep, PTL DEF SchedSpec

(* The positions a plan computes come after the cached ones, so that their *)
(* slots exist and lie in blocks that are neither shared nor published.    *)
LEMMA PlannedSlots ==
  ASSUME SystemInv, pc = "execute", NEW p \in Range(inFlight), NEW pos \in p.first .. p.last
  PROVE  /\ p.id \in SeqId
         /\ pos \in Nat \ {0} /\ numCached[p.id] < pos
         /\ pos <= Len(tokens[p.id]) /\ pos <= Len(table[p.id]) * BlockSize
         /\ SlotBlock(p.id, pos) \in DOMAIN table[p.id]
         /\ table[p.id][SlotBlock(p.id, pos)] \in Range(table[p.id])
         /\ refCount[table[p.id][SlotBlock(p.id, pos)]] = 1
         /\ identity[table[p.id][SlotBlock(p.id, pos)]] = <<>>
<1>0. SchedInv /\ CacheInv /\ SchedTypeOK /\ PlanOK
  BY DEF SystemInv, SchedInv
<1>1. PICK k \in DOMAIN inFlight : inFlight[k] = p
  BY DEF Range
<1>2. EntryOK(k) /\ k > applied /\ p \in PlanEntry
  BY <1>0, <1>1 DEF PlanOK, SchedTypeOK
<1>3. PICK s \in SeqId : s = p.id
  BY <1>2 DEF PlanEntry
<1>4. p.first \in Nat /\ p.last \in Nat
  BY <1>2 DEF PlanEntry
<1>5. /\ numScheduled[s] = TokenBudget(p)
      /\ p.first = numCached[s] + 1 /\ p.last \in p.first .. Len(tokens[s])
  BY <1>1, <1>2, <1>3 DEF EntryOK
<1>6. /\ numCached[s] \in Nat /\ Len(tokens[s]) \in Nat /\ BlockSize \in Nat \ {0}
      /\ table[s] \in Seq(Block) /\ Len(table[s]) \in Nat
  BY <1>0, RequestTypes
<1>7. /\ pos \in Int /\ numCached[s] < pos /\ pos <= Len(tokens[s])
      /\ p.first <= p.last
  BY <1>4, <1>5, <1>6
<1>8. MissingBlocks(s) = 0
  <2>1. numScheduled[s] > 0
    BY <1>4, <1>5, <1>7 DEF TokenBudget
  <2> QED
    BY <1>0, <2>1 DEF SchedInv, RequestOK, WorkOK, Executing
<1>9. Len(tokens[s]) <= Len(table[s]) * BlockSize
  BY <1>0, <1>8, NotShortHasSlots
<1>10. PICK i : i = SlotBlock(s, pos)
  OBVIOUS
<1>11. i \in 1 .. Len(table[s]) /\ i > CachedBlocks(s)
  <2>1. PICK a : a = pos - 1
    OBVIOUS
  <2>2. PICK q : q = a \div BlockSize
    OBVIOUS
  <2>3. PICK c : c = CachedBlocks(s)
    OBVIOUS
  <2>4. PICK L : L = Len(table[s])
    OBVIOUS
  <2>5. a \in Nat /\ numCached[s] <= a /\ a < Len(tokens[s])
    BY <1>6, <1>7, <2>1
  <2>6. q \in Nat /\ c \in Nat /\ L \in Nat
    BY <1>6, <2>2, <2>3, <2>4, <2>5, DivProperties DEF CachedBlocks
  <2>7. c <= q
    <3>1. c * BlockSize <= numCached[s]
      BY <1>6, <2>3, DivProperties DEF CachedBlocks
    <3>2. c * BlockSize <= a
      BY <1>6, <2>5, <2>6, <3>1
    <3> QED
      BY <1>6, <2>2, <2>5, <2>6, <3>2, DivBound
  <2>8. ~(L <= q)
    <3>1. ~(L * BlockSize <= a)
      <4>1. L * BlockSize \in Int
        BY <1>6, <2>6
      <4> QED
        BY <1>6, <1>9, <2>4, <2>5, <4>1
    <3> QED
      BY <1>6, <2>2, <2>5, <2>6, <3>1, DivBound
  <2>9. i = q + 1
    BY <1>10, <2>1, <2>2 DEF SlotBlock
  <2> QED
    BY <2>3, <2>4, <2>6, <2>7, <2>8, <2>9
<1>12. i \in DOMAIN table[s]
  BY <1>6, <1>11
<1>13. refCount[table[s][i]] = 1 /\ identity[table[s][i]] = <<>>
  BY <1>0, <1>11, <1>12 DEF CacheInv, CacheOK, PendingPrivate
<1>14. table[s][i] \in Range(table[s])
  BY <1>12 DEF Range
<1>15. pos \in Nat \ {0} /\ pos <= Len(table[s]) * BlockSize
  <2>1. Len(table[s]) * BlockSize \in Int
    BY <1>6
  <2> QED
    BY <1>6, <1>7, <1>9, <2>1
<1> QED
  BY <1>3, <1>6, <1>7, <1>10, <1>12, <1>13, <1>14, <1>15

(* Every slot a plan writes lies in the block table of its sequence, in a  *)
(* block that no other sequence holds and no prefix lookup can hit: the    *)
(* planned positions come after the cached ones, whose full blocks are the *)
(* only ones that are shared or published.                                 *)
THEOREM SchedulerWritesAreExclusive == SchedSpec => []WritesAreExclusive
<1>1. SystemInv => WritesAreExclusive
  BY PlannedSlots DEF WritesAreExclusive, Planned
<1> QED
  BY <1>1, SystemInit, SystemStep, PTL DEF SchedSpec

(* What can_allocate accepts leaves something to compute: the last block   *)
(* of a sequence is never looked up.                                       *)
LEMMA AdmissionLeavesWork ==
  ASSUME PoolInv, NEW s \in SeqId, tokens[s] # <<>>, CanAllocate(s) # NoRoom
  PROVE  CanAllocate(s) * BlockSize \in Nat /\ CanAllocate(s) * BlockSize < Len(tokens[s])
<1> DEFINE n == CanAllocate(s)
           N == BlocksNeeded(s)
           B == BlockSize
           L == Len(tokens[s])
<1>0. PoolTypeOK
  BY DEF PoolInv
<1>1. n \in Nat /\ n <= N - 1
  BY AdmitPlan
<1>2. N \in Nat \ {0} /\ B \in Nat \ {0} /\ L \in Nat
  BY <1>0, BlocksNeededProperties, SequenceTypes
<1>3. N = (L + B - 1) \div B
  BY DEF BlocksNeeded
<1> HIDE DEF n, N, B, L
<1>4. (n + 1) * B <= L + B - 1
  <2>1. n + 1 \in Nat /\ n + 1 <= N /\ L + B - 1 \in Nat
    BY <1>1, <1>2
  <2> QED
    BY <1>2, <1>3, <2>1, DivBound
<1>5. (n + 1) * B = n * B + B /\ n * B \in Nat
  BY <1>1, <1>2
<1>6. n * B < L
  BY <1>2, <1>4, <1>5
<1> QED
  BY <1>5, <1>6 DEF n, B, L

(* The errors of plan_step are unreachable for requests generate accepts:  *)
(* withdrawing admissions always makes room for the decoders, because      *)
(* preempt_if_needed made room for them before; an admission always leaves *)
(* something to compute; and some work is always selected.                 *)
THEOREM SchedulerStepErrorsUnreachable == SchedSpec => []StepErrorsUnreachable
<1>1. SystemInv => StepErrorsUnreachable
  <2> SUFFICES ASSUME SystemInv PROVE StepErrorsUnreachable
    OBVIOUS
  <2>0. SchedInv /\ CacheInv /\ PoolInv
    BY DEF SystemInv, CacheInv
  <2>1. pc = "reserve" /\ AppendErrs(SelectedDecoders) => Len(running) > runningBefore
    BY <2>0, FailedReservation
  <2>2. ASSUME pc = "admit", CanAdmit, NEW s, s = Head(waiting)
        PROVE  ~AllocateErrs(s, CanAllocate(s)) /\ CanAllocate(s) * BlockSize < PrefillTarget(s)
    <3>1. waiting # <<>> /\ CanAllocate(s) # NoRoom
      BY <2>2 DEF CanAdmit
    <3>2. s \in Range(waiting)
      <4>1. waiting \in Seq(SeqId)
        BY <2>0, QueueTypes
      <4> QED
        BY <2>2, <3>1, <4>1, PopProperties
    <3>3. /\ s \in SeqId /\ tokens[s] # <<>> /\ table[s] = <<>>
          /\ PrefillTarget(s) = Len(tokens[s])
      BY <2>0, <3>2, WaitingProperties
    <3>4. ~AllocateErrs(s, CanAllocate(s))
      BY <2>0, <3>1, <3>3, AllocateNeverFails
    <3>5. CanAllocate(s) * BlockSize < Len(tokens[s])
      BY <2>0, <3>1, <3>3, AdmissionLeavesWork
    <3> QED
      BY <3>3, <3>4, <3>5
  <2>3. ASSUME pc = "capture" PROVE Scheduled # <<>>
    <3>1. EarlyWork \/ Len(running) > runningBefore
      BY <2>0, <2>3 DEF SchedInv, ProgressOK
    <3>2. Selecting
      BY <2>3 DEF Selecting
    <3>3. \E s \in SeqId : numScheduled[s] > 0
      <4>1. CASE EarlyWork
        <5>1. Early \subseteq SeqId
          BY <2>0, <3>2, EarlyProperties, QueueTypes
        <5> QED
          BY <4>1, <5>1 DEF EarlyWork
      <4>2. CASE Len(running) > runningBefore
        <5>1. PICK n : n = Len(running)
          OBVIOUS
        <5>2. n \in Nat /\ DOMAIN running = 1 .. n /\ running \in Seq(SeqId)
          BY <2>0, <5>1, QueueTypes
        <5>3. runningBefore \in Nat
          BY <2>0, <3>2, EarlyProperties
        <5>4. n \in DOMAIN running /\ n > runningBefore
          BY <4>2, <5>1, <5>2, <5>3
        <5>5. numScheduled[running[n]] > 0
          BY <2>0, <3>2, <5>4, EarlyProperties
        <5>6. running[n] \in SeqId
          BY <5>2, <5>4, ElementOfSeq
        <5> QED
          BY <5>5, <5>6
      <4> QED
        BY <3>1, <4>1, <4>2
    <3>4. /\ Scheduled \in Seq(SeqId)
          /\ Range(Scheduled) = {s \in SeqId : numScheduled[s] > 0}
      BY <2>0, ScheduledProperties
    <3>5. Range(Scheduled) # {}
      BY <3>3, <3>4
    <3> QED
      BY <3>4, <3>5, EmptyRange
  <2> QED
    BY <2>1, <2>2, <2>3 DEF StepErrorsUnreachable
<1> QED
  BY <1>1, SystemInit, SystemStep, PTL DEF SchedSpec

-----------------------------------------------------------------------------
(* Admission.                                                              *)

(* A lookup for the i-th block of s can return b.                          *)
Findable(b, s, i) ==
  /\ b \in Range(index[FullChain(s)[i]])
  /\ hash[b] = FullChain(s)[i]
  /\ identity[b] = PrefixTokens(s, i)

(* The blocks of s but the last that another sequence has in use, and what *)
(* s must take from the free list.                                         *)
UsedPrefixes(s) ==
  {i \in 1 .. BlocksNeeded(s) - 1 : \E b \in used : identity[b] = PrefixTokens(s, i)}

Cost(s) == BlocksNeeded(s) - Cardinality(UsedPrefixes(s))

(* The j-th running sequence, admitted in this step, found all there was   *)
(* to find; each block it found is held by an earlier sequence or is the   *)
(* only one of its prefix in use.                                          *)
LateOK(j) ==
  LET s == running[j]
      n == CachedBlocks(s)
  IN  /\ n < BlocksNeeded(s)
      /\ n + 1 < BlocksNeeded(s) => \A b \in Block : ~Findable(b, s, n + 1)
      /\ \A i \in 1 .. n :
           \/ \E k \in 1 .. j - 1 : table[s][i] \in Range(table[running[k]])
           \/ \A b \in used : identity[b] = PrefixTokens(s, i) => b = table[s][i]

(* All admissions of this step are of that kind.                           *)
AllLateOK == \A j \in DOMAIN running : j > runningBefore => LateOK(j)

(* The head of the queue has to wait, with so many blocks to spare.        *)
HeadWaits(room) ==
  \/ Len(running) >= MaxNumSeqs
  \/ ScheduledTokens >= MaxNumBatchedTokens /\ Len(running) > runningBefore
  \/ Cost(Head(waiting)) > room

(* A head that was blocked before the selection stays blocked, and no      *)
(* admission happens.                                                      *)
BlockedStays ==
  blockedBefore # NoBlock =>
    /\ waiting # <<>> /\ blockedBefore.request = Head(waiting)
    /\ Len(running) = runningBefore

(* What has to be added to SystemInv to make WaitersAreServed inductive.   *)
ServedInv ==
  /\ Selecting => BlockedStays
  /\ pc \in {"admit", "reserve"} => AllLateOK
  /\ pc = "admit" /\ waiting # <<>> /\ Len(running) = runningBefore =>
       IF blockedBefore = NoBlock THEN ScheduledTokens < MaxNumBatchedTokens
       ELSE Len(running) >= MaxNumSeqs \/ Cost(Head(waiting)) > Len(free)
  /\ pc = "reserve" /\ waiting # <<>> => HeadWaits(Len(free) - Cardinality(ShortDecoders))
  /\ pc = "capture" /\ waiting # <<>> => HeadWaits(Len(free))
  /\ WaitersAreServed
-----------------------------------------------------------------------------
(* Facts about lookups.                                                    *)

(* The blocks of a history that a lookup considers.                        *)
LEMMA FullBlocks ==
  ASSUME PoolTypeOK, NEW s \in SeqId, tokens[s] # <<>>
  PROVE  /\ BlocksNeeded(s) \in Nat \ {0}
         /\ \A i \in 1 .. BlocksNeeded(s) - 1 : i \in 1 .. Len(tokens[s]) \div BlockSize
         /\ Len(tokens[s]) \div BlockSize \in Nat
<1>1. /\ BlocksNeeded(s) \in Nat \ {0} /\ Len(tokens[s]) \div BlockSize \in Nat
      /\ BlocksNeeded(s) - 1 <= Len(tokens[s]) \div BlockSize
  BY BlocksNeededProperties
<1> QED
  BY <1>1

(* A prefix of i full blocks has as many tokens, so it is not empty.       *)
LEMMA PrefixLength ==
  ASSUME PoolTypeOK, NEW s \in SeqId, NEW i \in 1 .. Len(tokens[s]) \div BlockSize
  PROVE  /\ i \in Nat \ {0} /\ i * BlockSize \in Nat \ {0} /\ i * BlockSize <= Len(tokens[s])
         /\ Len(PrefixTokens(s, i)) = i * BlockSize
         /\ PrefixTokens(s, i) # <<>>
<1>1. BlockSize \in Nat \ {0} /\ Len(tokens[s]) \in Nat
  BY SequenceTypes
<1>2. i \in Nat /\ i # 0 /\ i <= Len(tokens[s]) \div BlockSize
  <2>1. Len(tokens[s]) \div BlockSize \in Nat
    BY <1>1, DivProperties
  <2> QED
    BY <2>1
<1>3. i * BlockSize <= Len(tokens[s])
  BY <1>1, <1>2, DivBound
<1>4. Len(PrefixTokens(s, i)) = i * BlockSize
  BY <1>2, <1>3, BlockTokensProperties
<1>5. i * BlockSize \in Nat \ {0}
  BY <1>1, <1>2
<1> QED
  BY <1>2, <1>3, <1>4, <1>5

(* Equal prefixes have as many blocks, and agree on every shorter one.     *)
LEMMA SamePrefix ==
  ASSUME PoolTypeOK, NEW s \in SeqId, NEW r \in SeqId,
         NEW i \in 1 .. Len(tokens[s]) \div BlockSize,
         NEW k \in 1 .. Len(tokens[r]) \div BlockSize,
         PrefixTokens(s, i) = PrefixTokens(r, k)
  PROVE  /\ i = k
         /\ \A j \in 1 .. i : /\ PrefixTokens(s, j) = PrefixTokens(r, j)
                              /\ BlockTokens(s, j) = BlockTokens(r, j)
<1>1. BlockSize \in Nat \ {0} /\ tokens[s] \in Seq(Token) /\ tokens[r] \in Seq(Token)
  BY SequenceTypes
<1>2. /\ i \in Nat \ {0} /\ i * BlockSize \in Nat /\ i * BlockSize <= Len(tokens[s])
      /\ Len(PrefixTokens(s, i)) = i * BlockSize
  BY PrefixLength
<1>3. /\ k \in Nat \ {0} /\ k * BlockSize \in Nat /\ k * BlockSize <= Len(tokens[r])
      /\ Len(PrefixTokens(r, k)) = k * BlockSize
  BY PrefixLength
<1>4. i = k
  <2>1. i * BlockSize = k * BlockSize
    BY <1>2, <1>3
  <2>2. CASE i < k
    BY <1>1, <1>2, <1>3, <2>1, <2>2, ProductMonotone
  <2>3. CASE k < i
    BY <1>1, <1>2, <1>3, <2>1, <2>3, ProductMonotone
  <2> QED
    BY <1>2, <1>3, <2>2, <2>3
<1> DEFINE m == i * BlockSize
           p == PrefixTokens(s, i)
<1>5. m \in Nat /\ m <= Len(tokens[s]) /\ m <= Len(tokens[r])
  BY <1>2, <1>3, <1>4
<1>6. \A x \in 1 .. m : tokens[s][x] = tokens[r][x]
  <2>1. p = SubSeq(tokens[s], 1, m) /\ p = SubSeq(tokens[r], 1, m)
    BY <1>4 DEF PrefixTokens
  <2> HIDE DEF m, p
  <2>2. \A x \in 1 .. m : p[x] = tokens[s][x]
    BY <1>1, <1>5, <2>1
  <2>3. \A x \in 1 .. m : p[x] = tokens[r][x]
    BY <1>1, <1>5, <2>1
  <2> QED
    BY <2>2, <2>3
<1>7. ASSUME NEW j \in 1 .. i
      PROVE  PrefixTokens(s, j) = PrefixTokens(r, j) /\ BlockTokens(s, j) = BlockTokens(r, j)
  <2> DEFINE n == j * BlockSize
             f == (j - 1) * BlockSize
  <2>1. j \in Nat /\ n \in Nat /\ f \in Nat /\ n <= m
    <3>1. j \in Nat /\ j - 1 \in Nat /\ j <= i
      BY <1>2
    <3>2. n \in Nat /\ f \in Nat
      BY <1>1, <3>1
    <3>3. CASE j = i
      BY <1>2, <1>5, <3>1, <3>2, <3>3
    <3>4. CASE j < i
      <4>1. n + BlockSize <= m
        BY <1>1, <1>2, <3>1, <3>4, ProductMonotone
      <4> HIDE DEF n, m
      <4> QED
        BY <1>1, <1>5, <3>1, <3>2, <4>1
    <3> QED
      BY <1>2, <3>1, <3>2, <3>3, <3>4
  <2> HIDE DEF n, f, m
  <2>2. SubSeq(tokens[s], 1, n) = SubSeq(tokens[r], 1, n)
    BY <1>1, <1>5, <1>6, <2>1
  <2>3. SubSeq(tokens[s], f + 1, n) = SubSeq(tokens[r], f + 1, n)
    BY <1>1, <1>5, <1>6, <2>1
  <2> QED
    BY <2>2, <2>3 DEF PrefixTokens, BlockTokens, n, f
<1> QED
  BY <1>4, <1>7

(* Equal prefixes have equal chained hashes.                               *)
LEMMA SameChain ==
  ASSUME PoolTypeOK, NEW s \in SeqId, NEW r \in SeqId,
         NEW i \in 1 .. Len(tokens[s]) \div BlockSize,
         i \in 1 .. Len(tokens[r]) \div BlockSize,
         PrefixTokens(s, i) = PrefixTokens(r, i)
  PROVE  FullChain(s)[i] = FullChain(r)[i]
<1> DEFINE ns == Len(tokens[s]) \div BlockSize
           nr == Len(tokens[r]) \div BlockSize
           hs == FullChain(s)
           hr == FullChain(r)
           S == {j \in Nat : j <= i => hs[j] = hr[j]}
<1>1. BlockSize \in Nat \ {0} /\ Len(tokens[s]) \in Nat /\ Len(tokens[r]) \in Nat
  BY SequenceTypes
<1>2. ns \in Nat /\ nr \in Nat
  BY <1>1, DivProperties
<1>3. \A j \in 0 .. ns : hs[j] = IF j = 0 THEN NoHash ELSE XxHash(hs[j - 1], BlockTokens(s, j))
  BY <1>2, ChainHashStep DEF FullChain
<1>4. \A j \in 0 .. nr : hr[j] = IF j = 0 THEN NoHash ELSE XxHash(hr[j - 1], BlockTokens(r, j))
  BY <1>2, ChainHashStep DEF FullChain
<1>5. \A j \in 1 .. i : BlockTokens(s, j) = BlockTokens(r, j)
  BY SamePrefix
<1>6. i \in Nat /\ i <= ns /\ i <= nr
  BY <1>2
<1> HIDE DEF ns, nr, hs, hr
<1>7. 0 \in S
  BY <1>2, <1>3, <1>4
<1>8. ASSUME NEW j \in Nat, j \in S PROVE j + 1 \in S
  <2> SUFFICES ASSUME j + 1 <= i PROVE hs[j + 1] = hr[j + 1]
    OBVIOUS
  <2>1. j + 1 \in 0 .. ns /\ j + 1 \in 0 .. nr /\ j + 1 # 0 /\ (j + 1) - 1 = j /\ j + 1 \in 1 .. i
    BY <1>2, <1>6
  <2>2. hs[j] = hr[j]
    BY <1>6, <1>8
  <2>3. hs[j + 1] = XxHash(hs[j], BlockTokens(s, j + 1))
    BY <1>3, <2>1
  <2>4. hr[j + 1] = XxHash(hr[j], BlockTokens(r, j + 1))
    BY <1>4, <2>1
  <2> QED
    BY <1>5, <2>1, <2>2, <2>3, <2>4
<1>9. S = Nat
  <2>1. S \in SUBSET Nat
    OBVIOUS
  <2> HIDE DEF S
  <2> QED
    BY <1>7, <1>8, <2>1, SetInduction
<1>10. i \in S
  BY <1>6, <1>9
<1> QED
  BY <1>6, <1>10 DEF hs, hr

(* What one request can find, every request with that prefix can.          *)
LEMMA SameFindable ==
  ASSUME PoolTypeOK, NEW s \in SeqId, NEW r \in SeqId,
         NEW i \in 1 .. Len(tokens[s]) \div BlockSize,
         i \in 1 .. Len(tokens[r]) \div BlockSize,
         PrefixTokens(s, i) = PrefixTokens(r, i), NEW b
  PROVE  Findable(b, s, i) <=> Findable(b, r, i)
BY SameChain DEF Findable

(* A lookup hits exactly when there is a block to find.                    *)
LEMMA HitsAreFindable ==
  ASSUME PoolTypeOK, NEW s \in SeqId, NEW i
  PROVE  BucketHits(FullChain(s)[i], PrefixTokens(s, i)) # {} <=> \E b : Findable(b, s, i)
BY DEF BucketHits, Findable, Range

(* A used block that carries a prefix of s is one that s can find, and     *)
(* then every shorter prefix is in use.                                    *)
LEMMA UsedIsFindable ==
  ASSUME CacheInv, NEW s \in SeqId, NEW i \in 1 .. Len(tokens[s]) \div BlockSize,
         NEW b \in used, identity[b] = PrefixTokens(s, i)
  PROVE  /\ Findable(b, s, i)
         /\ \A j \in 1 .. i : \E c \in used : identity[c] = PrefixTokens(s, j)
<1>1. PoolTypeOK /\ PoolInv
  BY DEF CacheInv, PoolInv
<1>2. PICK r \in SeqId : b \in Range(table[r])
  BY <1>1 DEF PoolInv, Ownership, UsedExact, Owners
<1>3. CacheOK(r)
  BY DEF CacheInv
<1>4. PICK k \in DOMAIN table[r] : table[r][k] = b
  BY <1>2 DEF Range
<1>5. table[r] \in Seq(Block) /\ DOMAIN table[r] = 1 .. Len(table[r]) /\ Len(table[r]) \in Nat
  BY <1>1, SequenceTypes
<1>6. PrefixTokens(s, i) # <<>>
  BY <1>1, PrefixLength
<1>7. CachedBlocks(r) \in Nat /\ CachedBlocks(r) <= Len(tokens[r]) \div BlockSize
      /\ Len(tokens[r]) \div BlockSize \in Nat
  <2>1. BlockSize \in Nat \ {0} /\ Len(tokens[r]) \in Nat
    BY <1>1, SequenceTypes
  <2>2. CachedBlocks(r) \in 0 .. Len(table[r]) /\ CachedBlocks(r) <= Len(tokens[r]) \div BlockSize
    BY <1>1, <1>3, CachedBlocksProperties DEF CacheOK
  <2>3. Len(tokens[r]) \div BlockSize \in Nat
    BY <2>1, DivProperties
  <2>4. CachedBlocks(r) \in Nat
    BY <1>5, <2>2
  <2> QED
    BY <2>2, <2>3, <2>4
<1>8. k \in 1 .. CachedBlocks(r)
  <2>1. k > CachedBlocks(r) => identity[b] = <<>>
    BY <1>3, <1>4 DEF CacheOK, PendingPrivate
  <2> QED
    BY <1>5, <1>6, <1>7, <2>1
<1>9. identity[b] = PrefixTokens(r, k)
  BY <1>3, <1>4, <1>8 DEF CacheOK, PublishedFor
<1>10. k \in 1 .. Len(tokens[r]) \div BlockSize
  BY <1>7, <1>8
<1>11. i = k /\ \A j \in 1 .. i : PrefixTokens(s, j) = PrefixTokens(r, j)
  <2>1. PrefixTokens(s, i) = PrefixTokens(r, k)
    BY <1>9
  <2> QED
    BY <1>1, <1>10, <2>1, SamePrefix
<1>12. Findable(b, s, i)
  <2>1. FullChain(r)[k] = hash[b]
    BY <1>1, <1>3, <1>4, <1>8, ChainMeetsCached
  <2>2. b \in Range(index[hash[b]])
    BY <1>3, <1>4, <1>8 DEF CacheOK, Indexed
  <2>3. Findable(b, r, k)
    BY <1>9, <2>1, <2>2 DEF Findable
  <2>4. PrefixTokens(s, i) = PrefixTokens(r, i) /\ i \in 1 .. Len(tokens[r]) \div BlockSize
    BY <1>9, <1>10, <1>11
  <2> QED
    BY <1>1, <1>11, <2>3, <2>4, SameFindable
<1>13. ASSUME NEW j \in 1 .. i PROVE \E c \in used : identity[c] = PrefixTokens(s, j)
  <2>1. j \in 1 .. CachedBlocks(r) /\ j \in DOMAIN table[r]
    BY <1>4, <1>5, <1>7, <1>8, <1>11
  <2>2. table[r][j] \in Range(table[r]) /\ identity[table[r][j]] = PrefixTokens(r, j)
    BY <1>3, <2>1 DEF CacheOK, PublishedFor, Range
  <2>3. table[r][j] \in used
    BY <1>1, <2>2, HeldIsUsed
  <2> QED
    BY <1>11, <2>2, <2>3
<1> QED
  BY <1>12, <1>13

(* A lookup does not stop before the first block it cannot find.           *)
LEMMA LongestPrefix ==
  ASSUME PoolTypeOK, NEW s \in SeqId, NEW n \in Nat, n <= Len(tokens[s]) \div BlockSize,
         NEW m \in 0 .. n,
         \A i \in 1 .. m : \E b : Findable(b, s, i)
  PROVE  m <= Len(CachedPrefix(s, n))
<1> DEFINE Hit(i) == BucketHits(FullChain(s)[i], PrefixTokens(s, i)) # {}
           K == {k \in 0 .. n : \A i \in 1 .. k : Hit(i)}
           c == CachedPrefix(s, n)
<1>1. m \in K
  BY HitsAreFindable
<1>2. K \in SUBSET Nat /\ \A k \in K : k <= n
  OBVIOUS
<1>3. c = [i \in 1 .. Max(K) |-> CachedBlockId(FullChain(s)[i], PrefixTokens(s, i))]
  BY DEF CachedPrefix, FullChain
<1> HIDE DEF K, c, Hit
<1>4. \E x \in K : \A y \in K : x >= y
  BY <1>1, <1>2, GreatestNatural
<1>5. Max(K) \in K /\ \A y \in K : Max(K) >= y
  BY <1>4 DEF Max
<1>6. Max(K) \in Nat /\ m \in Nat /\ m <= Max(K)
  BY <1>1, <1>2, <1>5
<1>7. Len(c) = Max(K)
  BY <1>3, <1>6
<1> QED
  BY <1>6, <1>7 DEF c

(* The places of UsedPrefixes are those of the blocks that can_allocate    *)
(* counts as shared, so it refuses exactly what costs more than is free.   *)
LEMMA CostDecides ==
  ASSUME CacheInv, NEW s \in SeqId, tokens[s] # <<>>
  PROVE  /\ IsFiniteSet(UsedPrefixes(s)) /\ Cardinality(UsedPrefixes(s)) \in Nat
         /\ CanAllocate(s) = NoRoom <=> Len(free) < Cost(s)
         /\ UsedPrefixes(s) =
              {i \in DOMAIN CachedPrefix(s, BlocksNeeded(s) - 1) :
                 CachedPrefix(s, BlocksNeeded(s) - 1)[i] \in used}
         /\ CanAllocate(s) # NoRoom =>
              CanAllocate(s) = Len(CachedPrefix(s, BlocksNeeded(s) - 1))
<1> DEFINE N == BlocksNeeded(s)
           c == CachedPrefix(s, N - 1)
           shared == {i \in DOMAIN c : c[i] \in used}
           U == UsedPrefixes(s)
<1>1. PoolTypeOK /\ PoolInv
  BY DEF CacheInv, PoolInv
<1>2. /\ N \in Nat \ {0} /\ \A i \in 1 .. N - 1 : i \in 1 .. Len(tokens[s]) \div BlockSize
      /\ Len(tokens[s]) \div BlockSize \in Nat /\ N - 1 <= Len(tokens[s]) \div BlockSize
  BY <1>1, FullBlocks, BlocksNeededProperties
<1>3. N - 1 \in Nat
  BY <1>2
<1>4. CanAllocate(s) = IF Len(free) < N - Cardinality(shared) THEN NoRoom ELSE Len(c)
  BY <1>2 DEF CanAllocate
<1>5. U = {i \in 1 .. N - 1 : \E b \in used : identity[b] = PrefixTokens(s, i)}
  BY DEF UsedPrefixes
<1>6. Cost(s) = N - Cardinality(U)
  BY DEF Cost
<1> HIDE DEF N, U
<1>7. /\ c \in Seq(Block) /\ Len(c) \in 0 .. N - 1
      /\ \A i \in 1 .. Len(c) :
           /\ BucketHits(FullChain(s)[i], PrefixTokens(s, i)) # {}
           /\ c[i] = CachedBlockId(FullChain(s)[i], PrefixTokens(s, i))
  BY <1>1, <1>2, <1>3, CachedPrefixProperties
<1>8. \A i \in 1 .. Len(c) : identity[c[i]] = PrefixTokens(s, i)
  BY <1>1, <1>2, <1>3, HitsArePublished
<1>9. DOMAIN c = 1 .. Len(c) /\ Len(c) \in Nat
  BY <1>7
<1>10. \A m \in 0 .. N - 1 : (\A i \in 1 .. m : \E b : Findable(b, s, i)) => m <= Len(c)
  BY <1>1, <1>2, <1>3, LongestPrefix
<1> HIDE DEF c
<1>11. shared \subseteq U
  <2> SUFFICES ASSUME NEW i \in 1 .. Len(c), c[i] \in used PROVE i \in U
    BY <1>9
  <2>1. i \in 1 .. N - 1
    BY <1>3, <1>7, <1>9
  <2> QED
    BY <1>5, <1>8, <2>1
<1>12. U \subseteq shared
  <2> SUFFICES ASSUME NEW i \in 1 .. N - 1, NEW b \in used, identity[b] = PrefixTokens(s, i)
               PROVE  i \in DOMAIN c /\ c[i] \in used
    BY <1>5
  <2>1. i \in 1 .. Len(tokens[s]) \div BlockSize
    BY <1>2
  <2>2. /\ Findable(b, s, i)
        /\ \A j \in 1 .. i : \E d \in used : identity[d] = PrefixTokens(s, j)
    BY <2>1, UsedIsFindable
  <2>3. ASSUME NEW j \in 1 .. i PROVE \E d : Findable(d, s, j)
    <3>1. j \in 1 .. N - 1
      BY <1>3
    <3>2. PICK d \in used : identity[d] = PrefixTokens(s, j)
      BY <2>2
    <3>3. j \in 1 .. Len(tokens[s]) \div BlockSize
      BY <1>2, <3>1
    <3> QED
      BY <3>2, <3>3, UsedIsFindable
  <2>4. i <= Len(c)
    <3>1. i \in 0 .. N - 1
      BY <1>3
    <3> QED
      BY <1>10, <2>3, <3>1
  <2>5. i \in 1 .. Len(c)
    BY <1>3, <1>9, <2>4
  <2>6. c[i] \in used
    <3> DEFINE h == FullChain(s)[i]
               id == PrefixTokens(s, i)
               hits == BucketHits(h, id)
               usedHits == {k \in hits : index[h][k] \in used}
    <3>1. PICK k \in DOMAIN index[h] : index[h][k] = b
      BY <2>2 DEF Findable, Range
    <3>2. k \in usedHits
      BY <2>2, <3>1 DEF BucketHits, Findable
    <3>3. h \in HashVal
      <4> DEFINE full == Len(tokens[s]) \div BlockSize
      <4>1. BlockSize \in Nat \ {0} /\ Len(tokens[s]) \in Nat
        BY <1>1, SequenceTypes
      <4>2. full \in Nat /\ full * BlockSize <= Len(tokens[s])
        BY <4>1, DivProperties
      <4>3. i \in 0 + 1 .. full
        BY <2>1
      <4>4. FullChain(s) = ChainHash(s, 0, NoHash, full)
        BY DEF FullChain
      <4> HIDE DEF full
      <4> QED
        BY <1>1, <4>2, <4>3, <4>4, ChainHashProperties
    <3>4. index[h] \in Seq(Block)
      BY <1>1, <3>3 DEF PoolTypeOK
    <3>5. usedHits \in SUBSET (1 .. Len(index[h])) /\ Len(index[h]) \in Nat
      BY <3>4 DEF BucketHits
    <3> HIDE DEF usedHits
    <3>6. \A x \in usedHits : x \in Nat /\ x <= Len(index[h])
      BY <3>5
    <3>7. usedHits \in SUBSET Nat
      BY <3>6
    <3>8. \E x \in usedHits : \A y \in usedHits : x >= y
      BY <3>2, <3>5, <3>6, <3>7, GreatestNatural
    <3>9. Max(usedHits) \in usedHits
      BY <3>8 DEF Max
    <3>10. CachedBlockId(h, id) = index[h][Max(usedHits)]
      BY <3>2 DEF CachedBlockId, usedHits
    <3> QED
      BY <1>7, <2>5, <3>9, <3>10 DEF usedHits
  <2> QED
    BY <1>9, <2>5, <2>6
<1>13. U = shared
  BY <1>11, <1>12
<1>14. IsFiniteSet(U) /\ Cardinality(U) \in Nat
  <2>1. U \subseteq 1 .. N - 1
    BY <1>5
  <2>2. IsFiniteSet(1 .. N - 1)
    BY <1>3, FS_Interval
  <2> QED
    BY <2>1, <2>2, FS_Subset, FS_CardinalityType
<1>15. Len(free) \in Nat /\ Len(c) # NoRoom
  BY <1>1, <1>9 DEF PoolTypeOK, NoRoom
<1> QED
  BY <1>4, <1>6, <1>13, <1>14, <1>15 DEF U, N, c

(* Resetting blocks makes nothing findable.                                *)
LEMMA FindableShrinks ==
  ASSUME PoolTypeOK, tokens' = tokens, NEW F \in SUBSET Block, ResetBlocks(F),
         NEW s \in SeqId, NEW i \in 1 .. Len(tokens[s]) \div BlockSize,
         NEW b \in Block, Findable(b, s, i)'
  PROVE  Findable(b, s, i) /\ b \notin F
<1> DEFINE h == FullChain(s)[i]
<1>1. FullChain(s)' = FullChain(s) /\ PrefixTokens(s, i)' = PrefixTokens(s, i)
  BY DEF FullChain, ChainHash, BlockTokens, PrefixTokens
<1>2. b \in Range(index'[h]) /\ hash'[b] = h /\ identity'[b] = PrefixTokens(s, i)
  BY <1>1 DEF Findable
<1>3. b \notin F
  <2>1. PrefixTokens(s, i) # <<>>
    BY PrefixLength
  <2> QED
    BY <1>2, <2>1 DEF ResetBlocks
<1>4. hash[b] = h /\ identity[b] = PrefixTokens(s, i)
  BY <1>2, <1>3 DEF ResetBlocks
<1>5. h \in HashVal
  <2> DEFINE full == Len(tokens[s]) \div BlockSize
  <2>1. BlockSize \in Nat \ {0} /\ Len(tokens[s]) \in Nat
    BY SequenceTypes
  <2>2. full \in Nat /\ full * BlockSize <= Len(tokens[s])
    BY <2>1, DivProperties
  <2>3. i \in 0 + 1 .. full
    OBVIOUS
  <2>4. FullChain(s) = ChainHash(s, 0, NoHash, full)
    BY DEF FullChain
  <2> HIDE DEF full
  <2> QED
    BY <2>2, <2>3, <2>4, ChainHashProperties
<1> HIDE DEF h
<1>6. b \in Range(index[h])
  <2>1. CASE h = NoHash
    <3>1. index'[h] = index[h]
      BY <1>5, <2>1 DEF ResetBlocks
    <3> QED
      BY <1>2, <3>1
  <2>2. CASE h # NoHash
    <3> DEFINE S == {x \in Block : x \notin F \/ hash[x] # h}
    <3>1. index'[h] = Retain(index[h], S)
      BY <1>5, <2>2 DEF ResetBlocks
    <3>2. index[h] \in Seq(Block)
      BY <1>5 DEF PoolTypeOK
    <3> HIDE DEF S
    <3>3. Range(Retain(index[h], S)) = Range(index[h]) \cap S
      BY <3>2, RetainProperties
    <3> QED
      BY <1>2, <3>1, <3>3
  <2> QED
    BY <2>1, <2>2
<1> QED
  BY <1>3, <1>4, <1>6 DEF Findable, h

(* What an admission does: s gets the blocks c of its longest cached       *)
(* prefix, and the blocks of F, taken from the free list and reset.        *)
AdmitWith(s, c, F) ==
  /\ c = CachedPrefix(s, BlocksNeeded(s) - 1)
  /\ c \in Seq(Block) /\ Len(c) \in 0 .. BlocksNeeded(s) - 1
  /\ F \in SUBSET Block
  /\ CachedBlocks(s)' = Len(c)
  /\ \A i \in 1 .. Len(c) : table'[s][i] = c[i] /\ identity[c[i]] = PrefixTokens(s, i)
  /\ used' = used \cup Range(c) \cup F
  /\ ResetBlocks(F)
  /\ tokens' = tokens
  /\ \A r \in SeqId : r # s => table'[r] = table[r] /\ numCached'[r] = numCached[r]

(* Every admission has that shape.                                         *)
LEMMA AdmitShape ==
  ASSUME CacheInv, NEW s \in SeqId, Admit(s)
  PROVE  \E c, F : AdmitWith(s, c, F)
<1> DEFINE n == CanAllocate(s)
           N == BlocksNeeded(s)
           c == CachedPrefix(s, N - 1)
           rest == Retain(free, Block \ Range(CachedPrefix(s, n)))
           F == Range(SubSeq(rest, 1, N - n))
<1>1. /\ PoolTypeOK /\ PoolInv /\ BlockSize \in Nat \ {0}
      /\ tokens[s] # <<>> /\ n # NoRoom /\ Allocate(s, n)
  BY SequenceTypes DEF CacheInv, PoolInv, Admit
<1>2. n = Len(c)
  BY <1>1, CostDecides
<1>3. N - 1 \in Nat /\ N - 1 <= Len(tokens[s]) \div BlockSize
  BY <1>1, BlocksNeededProperties
<1>4. c \in Seq(Block) /\ Len(c) \in 0 .. N - 1 /\ CachedPrefix(s, n) = c
  BY <1>1, <1>2, <1>3, CachedPrefixProperties
<1>5. \A i \in 1 .. Len(c) : identity[c[i]] = PrefixTokens(s, i)
  BY <1>1, <1>3, HitsArePublished
<1>6. SubSeq(rest, 1, N - n) \in Seq(Block)
  BY <1>1, AdmitPlan
<1>7. F \in SUBSET Block
  <2> DEFINE f == SubSeq(rest, 1, N - n)
  <2>1. f \in Seq(Block)
    BY <1>6
  <2> HIDE DEF f
  <2>2. Range(f) \in SUBSET Block
    BY <2>1 DEF Range
  <2> QED
    BY <2>2 DEF f
<1>8. /\ used' = used \cup Range(c) \cup F
      /\ ResetBlocks(F)
      /\ tokens' = tokens
      /\ table' = [table EXCEPT ![s] = c \o SubSeq(rest, 1, N - n)]
      /\ numCached' = [numCached EXCEPT ![s] = n * BlockSize]
  BY <1>1, <1>4 DEF Allocate
<1>9. \A i \in 1 .. Len(c) : table'[s][i] = c[i]
  <2>1. table'[s] = c \o SubSeq(rest, 1, N - n)
    BY <1>1, <1>8 DEF PoolTypeOK
  <2> DEFINE f == SubSeq(rest, 1, N - n)
  <2> HIDE DEF c, f
  <2>2. \A i \in 1 .. Len(c) : (c \o f)[i] = c[i]
    <3>1. f \in Seq(Block)
      BY <1>6 DEF f
    <3> QED
      BY <1>4, <3>1, ConcatProperties
  <2> QED
    BY <2>1, <2>2 DEF f
<1>10. CachedBlocks(s)' = Len(c)
  <2>1. numCached'[s] = n * BlockSize
    BY <1>1, <1>8 DEF PoolTypeOK
  <2>2. n \in Nat
    BY <1>2, <1>4
  <2>3. (n * BlockSize) \div BlockSize = n
    BY <1>1, <2>2, MultipleDiv
  <2> QED
    BY <1>2, <2>1, <2>3 DEF CachedBlocks
<1>11. \A r \in SeqId : r # s => table'[r] = table[r] /\ numCached'[r] = numCached[r]
  BY <1>1, <1>8 DEF PoolTypeOK
<1> HIDE DEF c, F
<1>12. AdmitWith(s, c, F)
  BY <1>4, <1>5, <1>7, <1>8, <1>9, <1>10, <1>11 DEF AdmitWith, c
<1> QED
  BY <1>12

(* A block in use after it that carries a prefix of some r was in use, or  *)
(* is the one s has found for the same prefix.                             *)
LEMMA AdmitUses ==
  ASSUME PoolTypeOK, NEW s \in SeqId, tokens[s] # <<>>, NEW c, NEW F, AdmitWith(s, c, F),
         NEW r \in SeqId, NEW i \in 1 .. Len(tokens[r]) \div BlockSize,
         NEW b \in used', identity'[b] = PrefixTokens(r, i)
  PROVE  /\ b \in Block /\ identity[b] = PrefixTokens(r, i)
         /\ \/ b \in used
            \/ /\ i \in 1 .. Len(c) /\ b = c[i]
               /\ PrefixTokens(r, i) = PrefixTokens(s, i)
<1>1. PrefixTokens(r, i) # <<>>
  BY PrefixLength
<1>2. c \in Seq(Block) /\ F \in SUBSET Block /\ used' = used \cup Range(c) \cup F /\ ResetBlocks(F)
  BY DEF AdmitWith
<1>3. b \in Block
  BY <1>2 DEF PoolTypeOK, Range
<1>4. b \notin F /\ identity[b] = PrefixTokens(r, i)
  BY <1>1, <1>2, <1>3, ResetBlocksEffect
<1>5. ASSUME b \notin used
      PROVE  i \in 1 .. Len(c) /\ b = c[i] /\ PrefixTokens(r, i) = PrefixTokens(s, i)
  <2>1. PICK k \in 1 .. Len(c) : b = c[k]
    BY <1>2, <1>4, <1>5 DEF Range
  <2>2. identity[b] = PrefixTokens(s, k)
    BY <2>1 DEF AdmitWith
  <2>3. k \in 1 .. Len(tokens[s]) \div BlockSize
    <3>1. BlocksNeeded(s) \in Nat /\ Len(c) \in 0 .. BlocksNeeded(s) - 1
      BY BlocksNeededProperties DEF AdmitWith
    <3>2. k \in 1 .. BlocksNeeded(s) - 1
      BY <2>1, <3>1
    <3> QED
      BY <3>2, FullBlocks
  <2>4. PrefixTokens(r, i) = PrefixTokens(s, k)
    BY <1>4, <2>2
  <2>5. i = k
    BY <2>3, <2>4, SamePrefix
  <2> QED
    BY <2>1, <2>4, <2>5
<1> QED
  BY <1>3, <1>4, <1>5

(* A running sequence has tokens, and until it decodes a block for each.   *)
LEMMA RunningProperties ==
  ASSUME SchedInv, NEW s \in Range(running)
  PROVE  /\ s \in SeqId /\ tokens[s] # <<>>
         /\ Phase(s) = "prefill" => Len(table[s]) = BlocksNeeded(s)
<1>1. s \in SeqId
  BY QueueTypes
<1>2. LengthsOK(s) /\ InPhase(s)
  BY <1>1 DEF SchedInv, RequestOK, Queued
<1>3. PoolTypeOK /\ Len(tokens[s]) \in Nat /\ Len(table[s]) \in Nat
  BY <1>1, SequenceTypes DEF SchedInv, SchedTypeOK
<1>4. tokens[s] # <<>>
  BY <1>2, <1>3 DEF LengthsOK
<1>5. BlocksNeeded(s) \in Nat
  BY <1>1, <1>3, <1>4, BlocksNeededProperties
<1>6. Phase(s) = "prefill" => Len(table[s]) = BlocksNeeded(s)
  BY <1>2, <1>3, <1>5 DEF InPhase, MissingBlocks
<1> QED
  BY <1>1, <1>4, <1>6

(* An admission keeps what is known of the sequences admitted before, and  *)
(* the new one has found all there was.                                    *)
LEMMA AdmitKeepsLate ==
  ASSUME SystemInv, pc = "admit", AllLateOK, AdmitHead
  PROVE  AllLateOK'
<1>0. PICK s, l : s = Head(waiting) /\ l = Len(running)
  OBVIOUS
<1>1. /\ SchedInv /\ CacheInv /\ PoolTypeOK /\ PoolInv
      /\ waiting # <<>> /\ waiting \in Seq(SeqId) /\ running \in Seq(SeqId)
      /\ l \in Nat /\ DOMAIN running = 1 .. l
      /\ \A j \in 1 .. l : running[j] \in SeqId /\ running[j] \in Range(running)
  BY <1>0, QueueTypes DEF SystemInv, CacheInv, PoolInv, AdmitHead, CanAdmit, Range
<1>2. s \in SeqId /\ s \in Range(waiting)
  BY <1>0, <1>1, PopProperties
<1>3. tokens[s] # <<>> /\ s \notin Range(running)
  BY <1>1, <1>2, WaitingProperties
<1>4. Admit(s) /\ running' = Append(running, s) /\ runningBefore' = runningBefore
  BY <1>0 DEF AdmitHead, callVars
<1>5. PICK c, F : AdmitWith(s, c, F)
  BY <1>1, <1>2, <1>4, AdmitShape
<1>6. /\ c = CachedPrefix(s, BlocksNeeded(s) - 1)
      /\ c \in Seq(Block) /\ Len(c) \in 0 .. BlocksNeeded(s) - 1 /\ DOMAIN c = 1 .. Len(c)
      /\ F \in SUBSET Block /\ ResetBlocks(F)
      /\ CachedBlocks(s)' = Len(c)
      /\ \A i \in 1 .. Len(c) : table'[s][i] = c[i] /\ identity[c[i]] = PrefixTokens(s, i)
      /\ tokens' = tokens
      /\ \A r \in SeqId : r # s => table'[r] = table[r] /\ numCached'[r] = numCached[r]
  BY <1>5 DEF AdmitWith
<1>7. /\ Len(running') = l + 1 /\ DOMAIN running' = 1 .. l + 1
      /\ \A j \in 1 .. l : running'[j] = running[j]
      /\ running'[l + 1] = s
  BY <1>1, <1>2, <1>4, <1>0
<1>8. \A r \in SeqId : BlocksNeeded(r)' = BlocksNeeded(r)
  BY <1>6 DEF BlocksNeeded
<1>9. \A r, i : PrefixTokens(r, i)' = PrefixTokens(r, i)
  BY <1>6 DEF PrefixTokens
<1>10. UsedPrefixes(s) = {i \in 1 .. Len(c) : c[i] \in used}
  BY <1>1, <1>2, <1>3, <1>6, CostDecides
<1>11. \A j \in 1 .. l : table'[running[j]] = table[running[j]]
  BY <1>1, <1>3, <1>6
<1>12. ASSUME NEW j \in 1 .. l, j > runningBefore PROVE LateOK(j)'
  <2>1. PICK r \in SeqId : r = running[j]
    BY <1>1
  <2>2. r # s /\ r \in Range(running) /\ running'[j] = r
    BY <1>1, <1>3, <1>7, <2>1
  <2>3. tokens[r] # <<>>
    BY <1>1, <2>2, RunningProperties
  <2>0. PICK m, R : m = CachedBlocks(r) /\ R = BlocksNeeded(r)
    OBVIOUS
  <2>4. CachedBlocks(r)' = m /\ table'[r] = table[r]
    BY <1>6, <2>0, <2>2 DEF CachedBlocks
  <2>5. R \in Nat \ {0} /\ \A i \in 1 .. R - 1 : i \in 1 .. Len(tokens[r]) \div BlockSize
    BY <1>1, <2>0, <2>3, FullBlocks
  <2>6. CacheOK(r) /\ m \in 0 .. Len(table[r]) /\ Len(table[r]) \in Nat
    BY <1>1, <2>0, CachedBlocksProperties, SequenceTypes DEF CacheInv, CacheOK
  <2>7. /\ m < R
        /\ m + 1 < R => \A b \in Block : ~Findable(b, r, m + 1)
        /\ \A i \in 1 .. m :
             \/ \E k \in 1 .. j - 1 : table[r][i] \in Range(table[running[k]])
             \/ \A b \in used : identity[b] = PrefixTokens(r, i) => b = table[r][i]
    BY <1>1, <1>12, <2>0, <2>1 DEF AllLateOK, LateOK
  <2>8. m \in Nat /\ m + 1 \in Nat /\ m <= Len(table[r])
    BY <2>6
  <2>9. m + 1 < R => \A b \in Block : ~Findable(b, r, m + 1)'
    <3> SUFFICES ASSUME m + 1 < R, NEW b \in Block, Findable(b, r, m + 1)' PROVE FALSE
      OBVIOUS
    <3>1. m + 1 \in 1 .. R - 1
      BY <2>5, <2>8
    <3>2. m + 1 \in 1 .. Len(tokens[r]) \div BlockSize
      BY <2>5, <3>1
    <3>3. Findable(b, r, m + 1)
      BY <1>1, <1>6, <3>2, FindableShrinks
    <3> QED
      BY <2>7, <3>3
  <2>10. ASSUME NEW i \in 1 .. m
         PROVE  \/ \E k \in 1 .. j - 1 : table'[r][i] \in Range(table'[running'[k]])
                \/ \A b \in used' : identity'[b] = PrefixTokens(r, i) => b = table'[r][i]
    <3>1. CASE \E k \in 1 .. j - 1 : table[r][i] \in Range(table[running[k]])
      <4>1. PICK k \in 1 .. j - 1 : table[r][i] \in Range(table[running[k]])
        BY <3>1
      <4>2. k \in 1 .. l
        BY <1>1
      <4>3. table'[r][i] \in Range(table'[running'[k]])
        BY <1>7, <1>11, <2>4, <4>1, <4>2
      <4> QED
        BY <4>3
    <3>2. CASE \A b \in used : identity[b] = PrefixTokens(r, i) => b = table[r][i]
      <4> SUFFICES ASSUME NEW b \in used', identity'[b] = PrefixTokens(r, i)
                   PROVE  b = table'[r][i]
        OBVIOUS
      <4>1. i \in 1 .. R - 1 /\ i \in 1 .. Len(table[r])
        BY <2>5, <2>7, <2>8
      <4>2. i \in 1 .. Len(tokens[r]) \div BlockSize
        BY <2>5, <4>1
      <4>3. /\ identity[b] = PrefixTokens(r, i)
            /\ \/ b \in used
               \/ /\ i \in 1 .. Len(c) /\ b = c[i]
                  /\ PrefixTokens(r, i) = PrefixTokens(s, i)
        BY <1>1, <1>2, <1>3, <1>5, <4>2, AdmitUses
      <4>4. CASE b \in used
        BY <2>4, <3>2, <4>3, <4>4
      <4>5. ASSUME b \notin used PROVE FALSE
        <5>1. i \in 1 .. Len(c) /\ b = c[i] /\ PrefixTokens(r, i) = PrefixTokens(s, i)
          BY <4>3, <4>5
        <5>2. table[r][i] \in Range(table[r])
          BY <1>1, <4>1, SequenceTypes DEF Range
        <5>3. table[r][i] \in used
          BY <1>1, <5>2, HeldIsUsed
        <5>4. identity[table[r][i]] = PrefixTokens(r, i)
          BY <2>0, <2>6 DEF CacheOK, PublishedFor
        <5>5. i \in 1 .. BlocksNeeded(s) - 1
          <6>1. BlocksNeeded(s) \in Nat
            BY <1>1, <1>2, <1>3, BlocksNeededProperties
          <6> QED
            BY <1>6, <5>1, <6>1
        <5>6. i \in UsedPrefixes(s)
          BY <5>1, <5>3, <5>4, <5>5 DEF UsedPrefixes
        <5> QED
          BY <1>10, <4>5, <5>1, <5>6
      <4> QED
        BY <4>4, <4>5
    <3> QED
      BY <2>7, <3>1, <3>2
  <2>11. CachedBlocks(r)' < BlocksNeeded(r)'
    BY <1>8, <2>0, <2>4, <2>7
  <2>12. (CachedBlocks(r) + 1 < BlocksNeeded(r))'
            => \A b \in Block : ~Findable(b, r, CachedBlocks(r) + 1)'
    BY <1>8, <2>0, <2>4, <2>9
  <2>13. \A i \in 1 .. CachedBlocks(r)' :
           \/ \E k \in 1 .. j - 1 : table'[r][i] \in Range(table'[running'[k]])
           \/ \A b \in used' : identity'[b] = PrefixTokens(r, i)' => b = table'[r][i]
    BY <1>9, <2>4, <2>10
  <2> QED
    BY <2>2, <2>11, <2>12, <2>13 DEF LateOK
<1>13. LateOK(l + 1)'
  <2>0. PICK n, N : n = Len(c) /\ N = BlocksNeeded(s)
    OBVIOUS
  <2>1. N \in Nat \ {0} /\ \A i \in 1 .. N - 1 : i \in 1 .. Len(tokens[s]) \div BlockSize
    BY <1>1, <1>2, <1>3, <2>0, FullBlocks
  <2>2. n \in Nat /\ n <= N - 1 /\ n + 1 \in Nat
    BY <1>6, <2>0, <2>1
  <2>3. n + 1 < N => \A b \in Block : ~Findable(b, s, n + 1)'
    <3> SUFFICES ASSUME n + 1 < N, NEW b \in Block, Findable(b, s, n + 1)' PROVE FALSE
      OBVIOUS
    <3>1. n + 1 \in 1 .. N - 1 /\ n + 1 \in 0 .. N - 1 /\ N - 1 \in Nat
      BY <2>1, <2>2
    <3>2. n + 1 \in 1 .. Len(tokens[s]) \div BlockSize
      BY <2>1, <3>1
    <3>3. Findable(b, s, n + 1)
      BY <1>1, <1>2, <1>6, <3>2, FindableShrinks
    <3>4. N - 1 <= Len(tokens[s]) \div BlockSize
      BY <1>1, <1>2, <1>3, BlocksNeededProperties, <2>0
    <3>5. \A i \in 1 .. n : \E d : Findable(d, s, i)
      <4>1. \A i \in 1 .. n : BucketHits(FullChain(s)[i], PrefixTokens(s, i)) # {}
        BY <1>1, <1>2, <1>6, <3>1, <3>4, CachedPrefixProperties, <2>0
      <4> QED
        BY <1>1, <1>2, <4>1, HitsAreFindable
    <3>6. \A i \in 1 .. n + 1 : \E d : Findable(d, s, i)
      <4>1. \A i \in 1 .. n + 1 : i \in 1 .. n \/ i = n + 1
        BY <2>2
      <4> QED
        BY <3>3, <3>5, <4>1
    <3>7. n + 1 <= Len(CachedPrefix(s, N - 1))
      BY <1>1, <1>2, <3>1, <3>4, <3>6, LongestPrefix
    <3>8. n + 1 <= n
      BY <1>6, <3>7, <2>0
    <3> QED
      BY <2>2, <3>8
  <2>4. ASSUME NEW i \in 1 .. n
        PROVE  \/ \E k \in 1 .. l : table'[s][i] \in Range(table'[running'[k]])
               \/ \A b \in used' : identity'[b] = PrefixTokens(s, i) => b = table'[s][i]
    <3>0. i \in 1 .. N - 1 /\ i \in 1 .. Len(c)
      BY <2>0, <2>1, <2>2
    <3>1. table'[s][i] = c[i] /\ i \in 1 .. N - 1 /\ i \in 1 .. Len(tokens[s]) \div BlockSize
      BY <1>6, <2>1, <3>0
    <3>2. CASE c[i] \in used
      <4>1. PICK r \in Range(running) : c[i] \in Range(table[r])
        BY <1>1, <3>2, UsedByRunning
      <4>2. PICK k \in 1 .. l : running[k] = r
        BY <1>1 DEF Range
      <4>3. c[i] \in Range(table'[running'[k]])
        BY <1>7, <1>11, <4>1, <4>2
      <4> QED
        BY <3>1, <4>3
    <3>3. CASE c[i] \notin used
      <4> SUFFICES ASSUME NEW b \in used', identity'[b] = PrefixTokens(s, i)
                   PROVE  b = c[i]
        BY <3>1
      <4>1. identity[b] = PrefixTokens(s, i) /\ (b \in used \/ b = c[i])
        BY <1>1, <1>2, <1>3, <1>5, <3>1, AdmitUses
      <4>2. b \notin used
        BY <1>10, <2>0, <3>1, <3>3, <4>1 DEF UsedPrefixes
      <4> QED
        BY <4>1, <4>2
    <3> QED
      BY <3>2, <3>3
  <2>5. CachedBlocks(s)' = n /\ n < N /\ BlocksNeeded(s)' = N /\ l + 1 - 1 = l
    BY <1>1, <1>2, <1>6, <1>8, <2>1, <2>2, <2>0
  <2>6. (CachedBlocks(s) + 1 < BlocksNeeded(s))'
           => \A b \in Block : ~Findable(b, s, CachedBlocks(s) + 1)'
    BY <2>3, <2>5
  <2>7. PICK j : j = l + 1 /\ j - 1 = l
    BY <1>1
  <2>8. \A i \in 1 .. CachedBlocks(s)' :
          \/ \E k \in 1 .. j - 1 : table'[s][i] \in Range(table'[running'[k]])
          \/ \A b \in used' : identity'[b] = PrefixTokens(s, i)' => b = table'[s][i]
    BY <1>9, <2>4, <2>5, <2>7
  <2>9. running'[j] = s
    BY <1>7, <2>7
  <2>10. (CachedBlocks(s) < BlocksNeeded(s))'
    BY <2>5
  <2>11. LateOK(j)'
    BY <2>6, <2>8, <2>9, <2>10 DEF LateOK
  <2> QED
    BY <2>7, <2>11
<1>14. ASSUME NEW j \in DOMAIN running', j > runningBefore' PROVE LateOK(j)'
  <2>1. j \in 1 .. l \/ j = l + 1
    BY <1>1, <1>7
  <2> QED
    BY <1>4, <1>12, <1>13, <1>14, <2>1
<1> QED
  BY <1>14 DEF AllLateOK

(* A rollback keeps what is known of the admissions that remain.           *)
LEMMA RollbackKeepsLate ==
  ASSUME SystemInv, pc = "reserve", AllLateOK, RollbackLastAdmission
  PROVE  AllLateOK'
<1>0. PICK l, s : l = Len(running) /\ s = Last(running)
  OBVIOUS
<1>1. /\ SchedInv /\ SchedTypeOK /\ running \in Seq(SeqId) /\ running \in Seq(SeqId)
      /\ l \in Nat \ {0} /\ DOMAIN running = 1 .. l /\ NoDuplicates(running)
      /\ \A j \in 1 .. l : running[j] \in SeqId
  <2>1. l > runningBefore /\ runningBefore \in Nat
    BY <1>0 DEF RollbackLastAdmission, SystemInv, SchedInv, SchedTypeOK
  <2> QED
    BY <1>0, <2>1, QueueTypes DEF SystemInv, SchedInv
<1>2. s = running[l] /\ s \in SeqId
  BY <1>0, <1>1 DEF Last
<1>3. /\ DeallocateBatch(<<s>>) /\ running' = Front(running) /\ runningBefore' = runningBefore
  BY <1>0 DEF RollbackLastAdmission, callVars
<1>4. /\ Len(running') = l - 1 /\ DOMAIN running' = 1 .. l - 1
      /\ \A j \in 1 .. l - 1 : running'[j] = running[j]
  <2>1. running # <<>>
    BY <1>0, <1>1
  <2>2. Front(running) \in Seq(SeqId) /\ Len(Front(running)) = l - 1
        /\ \A j \in 1 .. l - 1 : Front(running)[j] = running[j]
    BY <1>0, <1>1, <2>1, FrontProperties
  <2> QED
    BY <1>3, <2>2
<1>5. /\ tokens' = tokens
      /\ \A r \in SeqId : r # s => table'[r] = table[r] /\ numCached'[r] = numCached[r]
  BY <1>1, <1>2, <1>3, ReleaseOneEffect
<1>6. /\ index' = index /\ hash' = hash /\ identity' = identity /\ used' \subseteq used
  BY <1>3 DEF DeallocateBatch
<1>7. \A j \in 1 .. l - 1 : running[j] \in SeqId /\ running[j] # s
  <2> SUFFICES ASSUME NEW j \in 1 .. l - 1 PROVE running[j] \in SeqId /\ running[j] # s
    OBVIOUS
  <2>1. j \in 1 .. l /\ l \in 1 .. l /\ j # l
    BY <1>1
  <2> QED
    BY <1>1, <1>2, <2>1 DEF NoDuplicates
<1>8. ASSUME NEW j \in DOMAIN running', j > runningBefore' PROVE LateOK(j)'
  <2>1. j \in 1 .. l - 1 /\ j \in 1 .. l /\ j > runningBefore
    BY <1>1, <1>3, <1>4, <1>8
  <2>2. PICK r : r = running[j]
    OBVIOUS
  <2>3. r \in SeqId /\ r # s /\ running'[j] = r
    BY <1>4, <1>7, <2>1, <2>2
  <2>4. PICK m : m = CachedBlocks(r)
    OBVIOUS
  <2>5. /\ CachedBlocks(r)' = m /\ BlocksNeeded(r)' = BlocksNeeded(r) /\ table'[r] = table[r]
        /\ \A b, i : Findable(b, r, i)' <=> Findable(b, r, i)
        /\ \A i : PrefixTokens(r, i)' = PrefixTokens(r, i)
    BY <1>5, <1>6, <2>3, <2>4
       DEF CachedBlocks, BlocksNeeded, Findable, PrefixTokens, FullChain, ChainHash, BlockTokens
  <2>6. /\ m < BlocksNeeded(r)
        /\ m + 1 < BlocksNeeded(r) => \A b \in Block : ~Findable(b, r, m + 1)
        /\ \A i \in 1 .. m :
             \/ \E k \in 1 .. j - 1 : table[r][i] \in Range(table[running[k]])
             \/ \A b \in used : identity[b] = PrefixTokens(r, i) => b = table[r][i]
    BY <1>1, <2>1, <2>2, <2>4 DEF AllLateOK, LateOK
  <2>7. \A k \in 1 .. j - 1 : table'[running'[k]] = table[running[k]]
    <3> SUFFICES ASSUME NEW k \in 1 .. j - 1 PROVE table'[running'[k]] = table[running[k]]
      OBVIOUS
    <3>1. k \in 1 .. l - 1
      BY <1>1, <2>1
    <3> QED
      BY <1>4, <1>5, <1>7, <3>1
  <2>8. \A i \in 1 .. m :
          \/ \E k \in 1 .. j - 1 : table'[r][i] \in Range(table'[running'[k]])
          \/ \A b \in used' : identity'[b] = PrefixTokens(r, i)' => b = table'[r][i]
    BY <1>6, <2>5, <2>6, <2>7
  <2>9. (CachedBlocks(r) < BlocksNeeded(r))'
    BY <2>5, <2>6
  <2>10. (CachedBlocks(r) + 1 < BlocksNeeded(r))'
           => \A b \in Block : ~Findable(b, r, CachedBlocks(r) + 1)'
    BY <2>5, <2>6
  <2>11. \A i \in 1 .. CachedBlocks(r)' :
          \/ \E k \in 1 .. j - 1 : table'[r][i] \in Range(table'[running'[k]])
          \/ \A b \in used' : identity'[b] = PrefixTokens(r, i)' => b = table'[r][i]
    BY <2>5, <2>8
  <2> QED
    BY <2>3, <2>9, <2>10, <2>11 DEF LateOK
<1> QED
  BY <1>8 DEF AllLateOK

(* What the last admission gives back does not pay for it again: whatever  *)
(* of its prefix is still in use is not freed.                             *)
LEMMA RollbackFreesTooLittle ==
  ASSUME SystemInv, pc = "reserve", AllLateOK, RollbackLastAdmission,
         NEW s, s = Last(running)
  PROVE  /\ s \in SeqId /\ tokens[s] # <<>>
         /\ Cardinality(Freed(<<s>>)) \in Nat
         /\ IsFiniteSet(UsedPrefixes(s)') /\ Cardinality(UsedPrefixes(s)') \in Nat
         /\ Cardinality(Freed(<<s>>)) <= BlocksNeeded(s) - Cardinality(UsedPrefixes(s)')
<1>0. PICK l : l = Len(running)
  OBVIOUS
<1>1. /\ SchedInv /\ SchedTypeOK /\ CacheInv /\ PoolInv /\ PoolTypeOK
      /\ l \in Nat \ {0} /\ DOMAIN running = 1 .. l /\ NoDuplicates(running)
      /\ l \in 1 .. l /\ l > runningBefore
      /\ \A j \in 1 .. l : running[j] \in SeqId /\ running[j] \in Range(running)
  <2>1. l > runningBefore /\ runningBefore \in Nat
    BY <1>0 DEF RollbackLastAdmission, SystemInv, SchedInv, SchedTypeOK
  <2>2. l \in Nat \ {0} /\ DOMAIN running = 1 .. l
    BY <1>0, <2>1, QueueTypes DEF SystemInv
  <2>3. SchedInv /\ SchedTypeOK /\ CacheInv /\ PoolInv /\ PoolTypeOK
    BY DEF SystemInv, SchedInv, CacheInv, PoolInv
  <2>4. NoDuplicates(running) /\ Range(running) \subseteq SeqId
    BY <2>3, QueueTypes
  <2>5. \A j \in 1 .. l : running[j] \in SeqId /\ running[j] \in Range(running)
    BY <2>2, <2>4 DEF Range
  <2>6. l \in 1 .. l
    BY <2>2
  <2> QED
    BY <2>1, <2>2, <2>3, <2>4, <2>5, <2>6
<1>2. s = running[l] /\ s \in Range(running) /\ s \in SeqId
  BY <1>0, <1>1 DEF Last
<1>3. tokens[s] # <<>> /\ Len(table[s]) = BlocksNeeded(s)
  <2>1. Phase(s) = "prefill"
    BY <1>1, <1>2, EarlyProperties DEF Selecting
  <2> QED
    BY <1>1, <1>2, <2>1, RunningProperties
<1>4. DeallocateBatch(<<s>>) /\ tokens' = tokens /\ identity' = identity
  BY DEF RollbackLastAdmission, DeallocateBatch
<1>5. PICK N, n, U, G : /\ N = BlocksNeeded(s) /\ n = CachedBlocks(s)
                        /\ U = UsedPrefixes(s)' /\ G = Freed(<<s>>)
  OBVIOUS
<1>6. used' = used \ G
  BY <1>4, <1>5 DEF DeallocateBatch
<1>7. N \in Nat \ {0} /\ \A i \in 1 .. N - 1 : i \in 1 .. Len(tokens[s]) \div BlockSize
  BY <1>1, <1>2, <1>3, <1>5, FullBlocks
<1>8. U = {i \in 1 .. N - 1 : \E b \in used' : identity[b] = PrefixTokens(s, i)}
  <2>1. BlocksNeeded(s)' = N
    BY <1>4, <1>5 DEF BlocksNeeded
  <2>2. \A i : PrefixTokens(s, i)' = PrefixTokens(s, i)
    BY <1>4 DEF PrefixTokens
  <2> QED
    BY <1>4, <1>5, <2>1, <2>2 DEF UsedPrefixes
<1>9. U \subseteq 1 .. N /\ IsFiniteSet(1 .. N) /\ Cardinality(1 .. N) = N
  BY <1>7, <1>8, FS_Interval
<1>10. IsFiniteSet(U) /\ Cardinality(U) \in Nat
  BY <1>9, FS_Subset, FS_CardinalityType
<1>11. \A b \in G : b \in Range(table[s]) /\ Owners(b) = {s}
  <2> SUFFICES ASSUME NEW b \in G PROVE b \in Range(table[s]) /\ Owners(b) = {s}
    OBVIOUS
  <2>1. /\ b \in Block /\ ReleaseCount(<<s>>, b) > 0
        /\ refCount[b] = ReleaseCount(<<s>>, b)
    BY <1>5 DEF Freed
  <2>2. Range(<<s>>) = {s}
    BY DEF Range
  <2>3. ReleaseCount(<<s>>, b) = Cardinality({r \in {s} : b \in Range(table[r])})
    BY <2>2 DEF ReleaseCount
  <2>4. b \in Range(table[s])
    <3>1. CASE b \notin Range(table[s])
      <4>1. {r \in {s} : b \in Range(table[r])} = {}
        BY <3>1
      <4> QED
        BY <2>1, <2>3, <4>1, FS_EmptySet
    <3> QED
      BY <3>1
  <2>5. refCount[b] = 1
    <3>1. {r \in {s} : b \in Range(table[r])} = {s}
      BY <2>4
    <3> QED
      BY <2>1, <2>3, <3>1, FS_Singleton
  <2> QED
    BY <1>1, <1>2, <2>4, <2>5, SoleOwner
<1>12. ASSUME NEW i \in U PROVE table[s][i] \notin G
  <2>1. i \in 1 .. N - 1 /\ i \in 1 .. Len(tokens[s]) \div BlockSize
    BY <1>7, <1>8
  <2>2. PICK b \in used' : identity[b] = PrefixTokens(s, i)
    BY <1>8
  <2>3. b \in used /\ b \notin G
    BY <1>6, <2>2
  <2>4. /\ n < N
        /\ n + 1 < N => \A d \in Block : ~Findable(d, s, n + 1)
        /\ \A k \in 1 .. n :
             \/ \E j \in 1 .. l - 1 : table[s][k] \in Range(table[running[j]])
             \/ \A d \in used : identity[d] = PrefixTokens(s, k) => d = table[s][k]
    BY <1>1, <1>2, <1>5 DEF AllLateOK, LateOK
  <2>5. n \in Nat
    <3>1. CacheOK(s) /\ Len(table[s]) \in Nat
      BY <1>1, <1>2, SequenceTypes DEF CacheInv
    <3>2. n \in 0 .. Len(table[s])
      BY <1>1, <1>2, <1>5, <3>1, CachedBlocksProperties DEF CacheOK
    <3> QED
      BY <3>1, <3>2
  <2>6. i \in 1 .. n
    <3> SUFFICES ASSUME i > n PROVE FALSE
      BY <1>7, <2>1, <2>5
    <3>1. n + 1 \in 1 .. N - 1 /\ n + 1 \in 1 .. i /\ n + 1 < N
      BY <1>7, <2>1, <2>5
    <3>2. n + 1 \in 1 .. Len(tokens[s]) \div BlockSize
      BY <1>7, <3>1
    <3>3. PICK d \in used : identity[d] = PrefixTokens(s, n + 1)
      BY <1>1, <1>2, <2>1, <2>2, <2>3, <3>1, UsedIsFindable
    <3>4. Findable(d, s, n + 1) /\ d \in Block
      BY <1>1, <1>2, <3>2, <3>3, UsedIsFindable DEF PoolTypeOK
    <3> QED
      BY <2>4, <3>1, <3>4
  <2>7. CASE \E j \in 1 .. l - 1 : table[s][i] \in Range(table[running[j]])
    <3>1. PICK j \in 1 .. l - 1 : table[s][i] \in Range(table[running[j]])
      BY <2>7
    <3>2. j \in 1 .. l /\ j # l
      BY <1>1
    <3>3. running[j] \in SeqId /\ running[j] # s
      BY <1>1, <1>2, <3>2 DEF NoDuplicates
    <3>4. running[j] \in Owners(table[s][i])
      BY <3>1, <3>3 DEF Owners
    <3> QED
      BY <1>11, <3>3, <3>4
  <2>8. CASE \A d \in used : identity[d] = PrefixTokens(s, i) => d = table[s][i]
    BY <2>2, <2>3, <2>8
  <2> QED
    BY <2>4, <2>6, <2>7, <2>8
<1>13. Cardinality(G) \in Nat /\ Cardinality(G) <= N - Cardinality(U)
  <2> DEFINE V == {i \in 1 .. N : table[s][i] \in G}
             f == [i \in V |-> table[s][i]]
  <2>1. V \subseteq (1 .. N) \ U
    BY <1>12
  <2>2. table[s] \in Seq(Block) /\ DOMAIN table[s] = 1 .. N
    BY <1>1, <1>2, <1>3, <1>5, SequenceTypes
  <2>3. f \in Surjection(V, G)
    <3>1. f \in [V -> G]
      OBVIOUS
    <3>2. \A b \in G : \E i \in V : f[i] = b
      <4> SUFFICES ASSUME NEW b \in G PROVE \E i \in V : f[i] = b
        OBVIOUS
      <4>1. PICK i \in 1 .. N : table[s][i] = b
        BY <1>11, <2>2 DEF Range
      <4>2. i \in V
        BY <4>1
      <4> QED
        BY <4>1, <4>2
    <3> QED
      BY <3>1, <3>2 DEF Surjection
  <2>4. IsFiniteSet((1 .. N) \ U) /\ Cardinality((1 .. N) \ U) = N - Cardinality(U)
    <3>1. /\ IsFiniteSet((1 .. N) \ U)
          /\ Cardinality((1 .. N) \ U) = Cardinality(1 .. N) - Cardinality((1 .. N) \cap U)
      BY <1>9, FS_Difference
    <3>2. (1 .. N) \cap U = U
      BY <1>9
    <3> QED
      BY <1>9, <3>1, <3>2
  <2>5. IsFiniteSet(V) /\ Cardinality(V) <= N - Cardinality(U) /\ Cardinality(V) \in Nat
    <3> HIDE DEF V
    <3> QED
      BY ZenonT(40), <2>1, <2>4, FS_Subset, FS_CardinalityType
  <2>6. IsFiniteSet(G) /\ Cardinality(G) <= Cardinality(V) /\ Cardinality(G) \in Nat
    <3> HIDE DEF V, f
    <3> QED
      BY <2>3, <2>5, FS_Surjection, FS_CardinalityType
  <2> HIDE DEF V
  <2> QED
    BY <1>7, <1>10, <2>5, <2>6
<1> QED
  BY <1>2, <1>3, <1>5, <1>10, <1>13

(* The steps of the selection.                                             *)

(* An unchanged pool costs a request the same.                             *)
LEMMA CostUnchanged ==
  ASSUME UNCHANGED poolVars, NEW s
  PROVE  Cost(s)' = Cost(s)
BY DEF poolVars, Cost, UsedPrefixes, BlocksNeeded, PrefixTokens

(* The waiting head is a request with tokens.                              *)
LEMMA WaitingHead ==
  ASSUME SystemInv, waiting # <<>>
  PROVE  /\ Head(waiting) \in SeqId /\ tokens[Head(waiting)] # <<>>
         /\ CanAllocate(Head(waiting)) = NoRoom <=> Len(free) < Cost(Head(waiting))
         /\ Cost(Head(waiting)) \in Int /\ Len(free) \in Nat
<1>1. SchedInv /\ CacheInv /\ PoolTypeOK
  BY DEF SystemInv, CacheInv, PoolInv
<1>2. waiting \in Seq(SeqId)
  BY <1>1, QueueTypes
<1>3. Head(waiting) \in SeqId /\ Head(waiting) \in Range(waiting)
  BY <1>2, PopProperties
<1>4. tokens[Head(waiting)] # <<>>
  BY <1>1, <1>3, WaitingProperties
<1>5. CanAllocate(Head(waiting)) = NoRoom <=> Len(free) < Cost(Head(waiting))
  BY <1>1, <1>3, <1>4, CostDecides
<1>6. Cost(Head(waiting)) \in Int
  <2>1. Cardinality(UsedPrefixes(Head(waiting))) \in Nat
    BY <1>1, <1>3, <1>4, CostDecides
  <2>2. BlocksNeeded(Head(waiting)) \in Nat
    BY <1>1, <1>3, <1>4, BlocksNeededProperties
  <2> QED
    BY <2>1, <2>2 DEF Cost
<1>7. Len(free) \in Nat
  BY <1>1 DEF PoolTypeOK
<1> QED
  BY <1>3, <1>4, <1>5, <1>6, <1>7

(* Outside the selection there is nothing to show.                         *)
LEMMA NotServing ==
  pc \notin {"admit", "reserve", "capture", "execute"} => ServedInv
BY DEF ServedInv, Selecting, WaitersAreServed, WaitingIsExplained, WaiterAdvances

(* Steps that move no block and no sequence keep what is known of them.    *)
LEMMA LateUnchanged ==
  ASSUME UNCHANGED <<used, hash, identity, index, tokens, table, numCached, running,
                     runningBefore>>,
         AllLateOK
  PROVE  AllLateOK'
<1>1. /\ \A s : CachedBlocks(s)' = CachedBlocks(s) /\ BlocksNeeded(s)' = BlocksNeeded(s)
      /\ \A s, i : PrefixTokens(s, i)' = PrefixTokens(s, i)
  BY DEF CachedBlocks, BlocksNeeded, PrefixTokens
<1>2. \A b, s, i : Findable(b, s, i)' <=> Findable(b, s, i)
  BY DEF Findable, PrefixTokens, FullChain, ChainHash, BlockTokens
<1>3. \A j : LateOK(j) => LateOK(j)'
  BY <1>1, <1>2 DEF LateOK
<1> QED
  BY <1>3 DEF AllLateOK

(* The budget of the running sequences leaves a token for the head.        *)
LEMMA ScheduleRunningServes ==
  ASSUME SystemInv, ScheduleRunning
  PROVE  ServedInv'
<1> DEFINE share == [i \in DOMAIN running |-> Share(i, RunningBudget)]
<1>0. SchedInv /\ SchedTypeOK
  BY DEF SystemInv, SchedInv
<1>1. /\ pc' = "admit" /\ blockedBefore' = AdmissionBlock(0) /\ runningBefore' = Len(running)
      /\ numScheduled' = [s \in SeqId |->
                            IF s \in Range(running)
                            THEN Share(PositionIn(running, s), RunningBudget)
                            ELSE numScheduled[s]]
      /\ running' = running /\ waiting' = waiting
  BY DEF ScheduleRunning
<1>2. UNCHANGED poolVars /\ free' = free
  BY DEF ScheduleRunning, poolVars
<1>3. /\ Len(running) \in Nat /\ DOMAIN running = 1 .. Len(running)
      /\ NoDuplicates(running) /\ Range(running) \subseteq SeqId
  BY <1>0, QueueTypes
<1>4. AllLateOK'
  <2> SUFFICES ASSUME NEW j \in DOMAIN running', j > runningBefore' PROVE FALSE
    BY DEF AllLateOK
  <2> QED
    BY <1>1, <1>3
<1>5. waiting = <<>> => AdmissionBlock(0) = NoBlock
  BY <1>0, AdmissionBlockProperties
<1>6. waiting # <<>> /\ AdmissionBlock(0) # NoBlock =>
        /\ AdmissionBlock(0).request = Head(waiting)
        /\ Len(running) >= MaxNumSeqs \/ CanAllocate(Head(waiting)) = NoRoom
  <2>1. ~(0 >= MaxNumBatchedTokens)
    BY EngineOptions DEF ValidOptions
  <2> QED
    BY <1>0, <2>1, AdmissionBlockProperties
<1>7. BlockedStays'
  BY <1>1, <1>5, <1>6 DEF BlockedStays
<1>8. ASSUME waiting # <<>>, AdmissionBlock(0) = NoBlock
      PROVE  ScheduledTokens' < MaxNumBatchedTokens
  <2>1. RunningBudget \in Nat /\ RunningBudget < MaxNumBatchedTokens
    BY <1>0, <1>8, RunningBudgetProperties
  <2>2. /\ \A i \in DOMAIN running : Share(i, RunningBudget) \in Nat
        /\ Total(share) <= RunningBudget
    BY <1>0, <2>1, ShareProperties
  <2>3. ASSUME NEW i \in DOMAIN running PROVE numScheduled'[running[i]] = Share(i, RunningBudget)
    <3>1. running[i] \in Range(running) /\ running[i] \in SeqId
      BY <1>3 DEF Range
    <3>2. PositionIn(running, running[i]) = i
      BY <1>3, <3>1, PositionProperties DEF NoDuplicates
    <3> QED
      BY <1>1, <3>1, <3>2
  <2>4. ScheduledTokens' = Total(share)
    BY <1>1, <2>3 DEF ScheduledTokens
  <2>5. Total(share) \in Nat
    <3>1. share \in Seq(Nat)
      BY <1>3, <2>2
    <3> QED
      BY <3>1, SumType
  <2>6. MaxNumBatchedTokens \in Nat
    BY EngineOptions DEF ValidOptions
  <2> HIDE DEF share
  <2> QED
    BY <2>1, <2>2, <2>4, <2>5, <2>6
<1>9. waiting # <<>> /\ AdmissionBlock(0) # NoBlock =>
        Len(running) >= MaxNumSeqs \/ Cost(Head(waiting))' > Len(free)
  <2> SUFFICES ASSUME waiting # <<>>, CanAllocate(Head(waiting)) = NoRoom
               PROVE  Cost(Head(waiting))' > Len(free)
    BY <1>6
  <2>1. Len(free) < Cost(Head(waiting)) /\ Cost(Head(waiting)) \in Int /\ Len(free) \in Nat
    BY WaitingHead
  <2>2. PICK s : s = Head(waiting)
    OBVIOUS
  <2>3. Cost(s)' = Cost(s) /\ Head(waiting)' = s
    BY <1>1, <1>2, <2>2, CostUnchanged
  <2> QED
    BY <2>1, <2>2, <2>3
<1>10. (waiting # <<>> =>
          IF blockedBefore = NoBlock THEN ScheduledTokens < MaxNumBatchedTokens
          ELSE Len(running) >= MaxNumSeqs \/ Cost(Head(waiting)) > Len(free))'
  BY <1>1, <1>2, <1>8, <1>9
<1>11. WaitersAreServed'
  BY <1>1 DEF WaitersAreServed, WaitingIsExplained, WaiterAdvances
<1> QED
  BY <1>1, <1>4, <1>7, <1>10, <1>11 DEF ServedInv

(* A head that was blocked before the selection is never admitted.         *)
LEMMA AdmitHeadServes ==
  ASSUME SystemInv, ServedInv, AdmitHead
  PROVE  ServedInv'
<1>0. SchedInv /\ pc = "admit" /\ pc' = "admit" /\ CanAdmit /\ waiting # <<>>
  BY DEF SystemInv, AdmitHead, CanAdmit
<1>1. /\ running' = Append(running, Head(waiting))
      /\ runningBefore' = runningBefore /\ blockedBefore' = blockedBefore
  BY DEF AdmitHead, callVars
<1>2. /\ Len(running) \in Nat /\ running \in Seq(SeqId)
      /\ runningBefore \in Nat /\ runningBefore <= Len(running)
  BY <1>0, QueueTypes, EarlyProperties DEF Selecting
<1>3. blockedBefore = NoBlock
  <2> SUFFICES ASSUME blockedBefore # NoBlock PROVE FALSE
    OBVIOUS
  <2>1. Len(running) = runningBefore
    BY <1>0 DEF ServedInv, BlockedStays, Selecting
  <2>2. Len(running) >= MaxNumSeqs \/ Cost(Head(waiting)) > Len(free)
    BY <1>0, <2>1 DEF ServedInv
  <2>3. Len(running) < MaxNumSeqs /\ CanAllocate(Head(waiting)) # NoRoom
    BY <1>0 DEF CanAdmit
  <2>4. ~(Len(free) < Cost(Head(waiting))) /\ Cost(Head(waiting)) \in Int /\ Len(free) \in Nat
    BY <1>0, <2>3, WaitingHead
  <2>5. MaxNumSeqs \in Nat
    BY EngineOptions DEF ValidOptions
  <2> QED
    BY <1>2, <2>2, <2>3, <2>4, <2>5
<1>4. Len(running') # runningBefore'
  <2>1. Len(running') = Len(running) + 1
    BY <1>0, <1>1, <1>2, WaitingHead
  <2> QED
    BY <1>1, <1>2, <2>1
<1>5. AllLateOK'
  BY <1>0, AdmitKeepsLate DEF ServedInv
<1>6. BlockedStays' /\ WaitersAreServed'
  BY <1>0, <1>1, <1>3
     DEF BlockedStays, WaitersAreServed, WaitingIsExplained, WaiterAdvances
<1> QED
  BY <1>0, <1>4, <1>5, <1>6 DEF ServedInv

(* The loop ends at a limit, or at a head there is no room for.            *)
LEMMA AdmissionEndsServes ==
  ASSUME SystemInv, ServedInv, AdmissionEnds
  PROVE  ServedInv'
<1>0. SchedInv /\ pc = "admit" /\ pc' = "reserve" /\ ~CanAdmit
  BY DEF SystemInv, AdmissionEnds
<1>1. UNCHANGED <<poolVars, seqVars, waiting, running, nextId, inFlight, callVars>>
  BY DEF AdmissionEnds
<1>2. UNCHANGED <<tokens, table, numCached, numPrompt, recomputeTarget, numScheduled, running,
                  runningBefore, blockedBefore, waiting, free, used, identity, hash, index>>
  BY <1>1 DEF poolVars, seqVars, callVars
<1>3. /\ Len(running) \in Nat /\ runningBefore \in Nat /\ runningBefore <= Len(running)
  BY <1>0, QueueTypes, EarlyProperties DEF Selecting
<1>4. Cardinality(ShortDecoders) \in Nat
  BY <1>0, DecodersShort
<1>5. waiting # <<>> => HeadWaits(Len(free) - Cardinality(ShortDecoders))
  <2> SUFFICES ASSUME waiting # <<>>
               PROVE  HeadWaits(Len(free) - Cardinality(ShortDecoders))
    OBVIOUS
  <2>1. /\ CanAllocate(Head(waiting)) = NoRoom <=> Len(free) < Cost(Head(waiting))
        /\ Cost(Head(waiting)) \in Int /\ Len(free) \in Nat
    BY WaitingHead
  <2>2. /\ MaxNumSeqs \in Nat /\ MaxNumBatchedTokens \in Nat /\ ScheduledTokens \in Nat
    BY <1>0, EngineOptions, ScheduledTokensType DEF ValidOptions
  <2>3. \/ Len(running) >= MaxNumSeqs
        \/ ScheduledTokens >= MaxNumBatchedTokens
        \/ CanAllocate(Head(waiting)) = NoRoom
    BY <1>0, <1>3, <2>2 DEF CanAdmit
  <2>4. Len(running) = runningBefore =>
          IF blockedBefore = NoBlock THEN ScheduledTokens < MaxNumBatchedTokens
          ELSE Len(running) >= MaxNumSeqs \/ Cost(Head(waiting)) > Len(free)
    BY <1>0 DEF ServedInv
  <2> QED
    BY <1>3, <1>4, <2>1, <2>2, <2>3, <2>4 DEF HeadWaits
<1>6. (waiting # <<>> => HeadWaits(Len(free) - Cardinality(ShortDecoders)))'
  <2>1. ShortDecoders' = ShortDecoders /\ ScheduledTokens' = ScheduledTokens
    BY <1>2, SelectionKept
  <2>2. \A s : Cost(s)' = Cost(s)
    BY <1>1, CostUnchanged
  <2>3. waiting' = waiting /\ running' = running /\ runningBefore' = runningBefore /\ free' = free
    BY <1>2
  <2> QED
    BY <1>5, <2>1, <2>2, <2>3 DEF HeadWaits
<1>7. BlockedStays'
  BY <1>0, <1>2 DEF ServedInv, Selecting, BlockedStays
<1>8. AllLateOK'
  <2>1. AllLateOK
    BY <1>0 DEF ServedInv
  <2> QED
    BY <1>2, <2>1, LateUnchanged
<1>9. WaitersAreServed'
  BY <1>0 DEF WaitersAreServed, WaitingIsExplained, WaiterAdvances
<1> QED
  BY <1>0, <1>6, <1>7, <1>8, <1>9 DEF ServedInv

(* A rollback takes no decoder back.                                       *)
LEMMA RollbackKeepsShort ==
  ASSUME SystemInv, RollbackLastAdmission
  PROVE  ShortDecoders' = ShortDecoders
<1>0. PICK v : v = Last(running)
  OBVIOUS
<1>1. /\ SchedInv /\ SchedTypeOK /\ running \in Seq(SeqId) /\ pc = "reserve"
      /\ Len(running) > runningBefore /\ runningBefore \in Nat /\ running # <<>>
      /\ DOMAIN running = 1 .. Len(running) /\ Len(running) \in DOMAIN running
  <2>1. SchedInv /\ SchedTypeOK /\ pc = "reserve" /\ Len(running) > runningBefore
    BY DEF SystemInv, SchedInv, RollbackLastAdmission
  <2>2. running \in Seq(SeqId) /\ runningBefore \in Nat
    BY <2>1 DEF SchedTypeOK
  <2> QED
    BY <2>1, <2>2
<1>2. /\ v \in SeqId /\ v \in Range(running)
      /\ Range(running) = Range(Front(running)) \cup {v} /\ Range(running) \subseteq SeqId
  BY <1>0, <1>1, FrontProperties, QueueTypes
<1>3. Phase(v) = "prefill"
  BY <1>0, <1>1, EarlyProperties DEF Selecting, Last
<1>4. /\ DeallocateBatch(<<v>>) /\ running' = Front(running)
      /\ numScheduled' = [numScheduled EXCEPT ![v] = 0]
      /\ UNCHANGED <<numPrompt, recomputeTarget, maxTokens>>
  BY <1>0 DEF RollbackLastAdmission
<1>5. \A r \in SeqId : r # v =>
        /\ Phase(r)' = Phase(r) /\ MissingBlocks(r)' = MissingBlocks(r)
        /\ numScheduled'[r] = numScheduled[r]
  <2>1. /\ tokens' = tokens
        /\ \A r \in SeqId : r # v => table'[r] = table[r] /\ numCached'[r] = numCached[r]
    BY <1>1, <1>2, <1>4, ReleaseOneEffect
  <2>2. \A r \in SeqId : r # v => Same(r) /\ numScheduled'[r] = numScheduled[r]
    BY <1>1, <1>4, <2>1 DEF Same, SchedTypeOK
  <2> QED
    BY <2>2, SameFields
<1>6. numScheduled'[v] = 0
  BY <1>1, <1>2, <1>4 DEF SchedTypeOK
<1>7. ShortDecoders' =
        {r \in Range(running') :
           numScheduled'[r] > 0 /\ Phase(r)' = "decode" /\ MissingBlocks(r)' = 1}
  BY DEF ShortDecoders
<1> QED
  BY <1>2, <1>3, <1>4, <1>5, <1>6, <1>7 DEF ShortDecoders

(* The request that gives its blocks back cannot have them at once.        *)
LEMMA RollbackServes ==
  ASSUME SystemInv, SchedInv', ServedInv, RollbackLastAdmission
  PROVE  ServedInv'
<1>0. PICK s : s = Last(running)
  OBVIOUS
<1>1. /\ SchedInv /\ CacheInv /\ PoolInv /\ pc = "reserve" /\ pc' = "reserve"
      /\ AppendErrs(SelectedDecoders) /\ Len(running) > runningBefore
      /\ runningBefore' = runningBefore /\ blockedBefore' = blockedBefore
  BY DEF SystemInv, RollbackLastAdmission, CacheInv, callVars
<1>2. waiting' = <<s>> \o waiting /\ running' = Front(running) /\ DeallocateBatch(<<s>>)
  BY <1>0 DEF RollbackLastAdmission, Requeue
<1>3. AllLateOK
  BY <1>1 DEF ServedInv
<1>4. AllLateOK'
  BY <1>1, <1>3, RollbackKeepsLate
<1>5. /\ s \in SeqId /\ tokens[s] # <<>>
      /\ Cardinality(Freed(<<s>>)) \in Nat
      /\ Cardinality(UsedPrefixes(s)') \in Nat
      /\ Cardinality(Freed(<<s>>)) <= BlocksNeeded(s) - Cardinality(UsedPrefixes(s)')
  BY <1>0, <1>1, <1>3, RollbackFreesTooLittle
<1>6. Len(free') = Len(free) + Cardinality(Freed(<<s>>)) /\ Len(free) \in Nat
  <2> DEFINE G == Freed(<<s>>)
             tables == [i \in DOMAIN <<s>> |-> table[<<s>>[i]]]
  <2>1. free' = free \o WalkOrder(tables, G)
    BY <1>2 DEF DeallocateBatch
  <2>2. PoolTypeOK /\ table[s] \in Seq(Block)
    BY <1>1, <1>5, SequenceTypes DEF PoolInv
  <2>3. tables \in Seq(Seq(Block)) /\ DOMAIN tables = {1} /\ tables[1] = table[s]
    BY <2>2
  <2>4. \A b \in G : b \in Block /\ b \in Range(table[s])
    <3> SUFFICES ASSUME NEW b \in Block, ReleaseCount(<<s>>, b) > 0 PROVE b \in Range(table[s])
      BY DEF Freed
    <3>1. Range(<<s>>) = {s}
      BY DEF Range
    <3>2. CASE b \notin Range(table[s])
      <4>1. {r \in Range(<<s>>) : b \in Range(table[r])} = {}
        BY <3>1, <3>2
      <4>2. ReleaseCount(<<s>>, b) = 0
        BY <4>1, FS_EmptySet DEF ReleaseCount
      <4> QED
        BY <4>2
    <3> QED
      BY <3>2
  <2>5. IsFiniteSet(Block)
    BY PoolSizes, FS_Interval DEF Block
  <2> HIDE DEF G, tables
  <2>6. G \in SUBSET Block /\ IsFiniteSet(G) /\ \A b \in G : \E i \in DOMAIN tables : b \in Range(tables[i])
    BY <2>3, <2>4, <2>5, FS_Subset
  <2>7. /\ WalkOrder(tables, G) \in Seq(Block) /\ Range(WalkOrder(tables, G)) = G
        /\ NoDuplicates(WalkOrder(tables, G))
    BY <2>3, <2>6, WalkOrderProperties
  <2>8. Len(WalkOrder(tables, G)) = Cardinality(G)
    BY <2>7, LenIsCardinality
  <2>9. free \in Seq(Block)
    BY <2>2 DEF PoolTypeOK
  <2>10. Len(free') = Len(free) + Len(WalkOrder(tables, G))
    BY <2>1, <2>7, <2>9, ConcatProperties
  <2> QED
    BY <2>8, <2>9, <2>10 DEF G
<1>7. Cardinality(ShortDecoders) \in Nat /\ Cardinality(ShortDecoders) > Len(free)
  <2>1. SelectedDecoders \in Seq(SeqId) /\ NoDuplicates(SelectedDecoders)
    BY <1>1, DecodersProperties
  <2>2. ~CanAppendBatch(SelectedDecoders)
    BY <1>1, <2>1, AppendNeverFails
  <2>3. /\ \A r \in Range(SelectedDecoders) : MissingBlocks(r) \in {0, 1}
        /\ {r \in Range(SelectedDecoders) : MissingBlocks(r) = 1} = ShortDecoders
        /\ Cardinality(ShortDecoders) \in Nat
    BY <1>1, DecodersShort
  <2>4. ~(Cardinality({r \in Range(SelectedDecoders) : MissingBlocks(r) = 1}) <= Len(free))
    BY <2>1, <2>2, <2>3, CanAppendProperties
  <2>5. ~(Cardinality(ShortDecoders) <= Len(free))
    BY <2>3, <2>4, Zenon
  <2> QED
    BY <1>6, <2>3, <2>5
<1>8. ShortDecoders' = ShortDecoders
  BY <1>1, RollbackKeepsShort
<1>9. Cost(s)' = BlocksNeeded(s) - Cardinality(UsedPrefixes(s)') /\ BlocksNeeded(s) \in Nat
  <2>1. tokens' = tokens
    BY <1>2 DEF DeallocateBatch
  <2>2. BlocksNeeded(s)' = BlocksNeeded(s)
    BY <2>1 DEF BlocksNeeded
  <2>3. BlocksNeeded(s) \in Nat
    BY <1>1, <1>5, BlocksNeededProperties DEF PoolInv
  <2> QED
    BY <2>2, <2>3 DEF Cost
<1>10. Head(waiting)' = s
  <2>1. waiting \in Seq(SeqId)
    BY <1>1, QueueTypes
  <2> QED
    BY <1>2, <1>5, <2>1
<1>11. HeadWaits(Len(free) - Cardinality(ShortDecoders))'
  <2>1. Cost(s)' > Len(free') - Cardinality(ShortDecoders)'
    BY <1>5, <1>6, <1>7, <1>8, <1>9
  <2> QED
    BY <1>10, <2>1 DEF HeadWaits
<1>12. BlockedStays'
  <2>1. BlockedStays /\ Len(running) \in Nat /\ runningBefore \in Nat
    BY <1>1, QueueTypes, EarlyProperties DEF ServedInv, Selecting
  <2>2. blockedBefore = NoBlock
    BY <1>1, <2>1 DEF BlockedStays
  <2> QED
    BY <1>1, <2>2 DEF BlockedStays
<1>13. WaitersAreServed'
  BY <1>1 DEF WaitersAreServed, WaitingIsExplained, WaiterAdvances
<1> QED
  BY <1>1, <1>4, <1>11, <1>12, <1>13 DEF ServedInv

(* The blocks the decoders take leave the head no better off.              *)
LEMMA ReserveServes ==
  ASSUME SystemInv, ServedInv, ReserveDecodeCache
  PROVE  ServedInv'
<1>1. /\ SchedInv /\ CacheInv /\ PoolTypeOK /\ pc = "reserve" /\ pc' = "capture"
      /\ ~AppendErrs(SelectedDecoders) /\ MayAppendBatch(SelectedDecoders)
      /\ UNCHANGED <<seqVars, waiting, running, nextId, inFlight, callVars>>
  BY DEF SystemInv, ReserveDecodeCache, CacheInv, PoolInv
<1>2. /\ waiting' = waiting /\ running' = running /\ runningBefore' = runningBefore
      /\ blockedBefore' = blockedBefore /\ numScheduled' = numScheduled
  BY <1>1 DEF seqVars, callVars
<1>3. PICK short : short = Retain(SelectedDecoders, {s \in SeqId : MissingBlocks(s) = 1})
  OBVIOUS
<1>4. /\ short \in Seq(SeqId) /\ Len(short) \in Nat
      /\ Range(short) = ShortDecoders /\ Len(short) = Cardinality(ShortDecoders)
  <2>1. SelectedDecoders \in Seq(SeqId) /\ NoDuplicates(SelectedDecoders)
    BY <1>1, DecodersProperties
  <2>2. {s \in Range(SelectedDecoders) : MissingBlocks(s) = 1} = ShortDecoders
    BY <1>1, DecodersShort
  <2>3. /\ short \in Seq(SeqId) /\ Len(short) \in Nat /\ NoDuplicates(short)
        /\ Range(short) = Range(SelectedDecoders) \cap {s \in SeqId : MissingBlocks(s) = 1}
    BY <1>3, <2>1, RetainProperties
  <2>4. Range(SelectedDecoders) \subseteq SeqId
    BY <2>1 DEF Range
  <2>5. Range(short) = ShortDecoders
    BY <2>2, <2>3, <2>4
  <2> QED
    BY <2>3, <2>5, LenIsCardinality
<1>5. Len(short) <= Len(free) /\ free \in Seq(Block) /\ Len(free) \in Nat
  <2>1. SelectedDecoders \in Seq(SeqId) /\ NoDuplicates(SelectedDecoders)
    BY <1>1, DecodersProperties
  <2>2. CanAppendBatch(SelectedDecoders)
    BY <1>1 DEF AppendErrs
  <2>3. /\ \A r \in Range(SelectedDecoders) : MissingBlocks(r) \in {0, 1}
        /\ {r \in Range(SelectedDecoders) : MissingBlocks(r) = 1} = ShortDecoders
    BY <1>1, DecodersShort
  <2>4. Cardinality({r \in Range(SelectedDecoders) : MissingBlocks(r) = 1}) <= Len(free)
    BY <2>1, <2>2, <2>3, CanAppendProperties
  <2>5. Cardinality(ShortDecoders) <= Len(free)
    BY <2>3, <2>4, Zenon
  <2> QED
    BY <1>1, <1>4, <2>5 DEF PoolTypeOK
<1>6. PICK F : F = Range(SubSeq(free, 1, Len(short)))
  OBVIOUS
<1>7. /\ F \in SUBSET Block /\ ResetBlocks(F) /\ used' = used \cup F /\ tokens' = tokens
      /\ free' = SubSeq(free, Len(short) + 1, Len(free))
  <2>1. SubSeq(free, 1, Len(short)) \in Seq(Block)
    BY <1>4, <1>5, SubSeqProperties
  <2>2. F \in SUBSET Block
    <3> DEFINE f == SubSeq(free, 1, Len(short))
    <3>1. f \in Seq(Block) /\ F = Range(f)
      BY <1>6, <2>1
    <3> HIDE DEF f
    <3> QED
      BY <3>1 DEF Range
  <2> QED
    BY <1>1, <1>3, <1>6, <2>2 DEF MayAppendBatch
<1>8. Len(free') = Len(free) - Cardinality(ShortDecoders)
  BY <1>4, <1>5, <1>7, SubSeqProperties
<1>9. ASSUME waiting # <<>> PROVE HeadWaits(Len(free))'
  <2>1. HeadWaits(Len(free) - Cardinality(ShortDecoders))
    BY <1>1, <1>9 DEF ServedInv
  <2>2. PICK s : s = Head(waiting)
    OBVIOUS
  <2>3. s \in SeqId /\ tokens[s] # <<>> /\ Cost(s) \in Int
    BY <1>9, <2>2, WaitingHead
  <2>4. \A i \in 1 .. BlocksNeeded(s) - 1 : i \in 1 .. Len(tokens[s]) \div BlockSize
    BY <1>1, <2>3, FullBlocks
  <2>5. BlocksNeeded(s)' = BlocksNeeded(s) /\ \A i : PrefixTokens(s, i)' = PrefixTokens(s, i)
    BY <1>7 DEF BlocksNeeded, PrefixTokens
  <2>6. UsedPrefixes(s)' \subseteq UsedPrefixes(s)
    <3> SUFFICES ASSUME NEW i \in 1 .. BlocksNeeded(s) - 1, NEW b \in used',
                        identity'[b] = PrefixTokens(s, i)
                 PROVE  \E d \in used : identity[d] = PrefixTokens(s, i)
      BY <2>5 DEF UsedPrefixes
    <3>1. PrefixTokens(s, i) # <<>>
      BY <1>1, <2>3, <2>4, PrefixLength
    <3>2. b \in Block /\ b \notin F
      BY <1>1, <1>7, <3>1, ResetBlocksEffect DEF PoolTypeOK
    <3>3. b \in used /\ identity[b] = PrefixTokens(s, i)
      BY <1>1, <1>7, <3>2, ResetBlocksEffect
    <3> QED
      BY <3>3
  <2>7. IsFiniteSet(UsedPrefixes(s)) /\ Cardinality(UsedPrefixes(s)) \in Nat
    BY <1>1, <2>3, CostDecides
  <2>8. /\ Cardinality(UsedPrefixes(s)') <= Cardinality(UsedPrefixes(s))
        /\ Cardinality(UsedPrefixes(s)') \in Nat
    <3> DEFINE U == UsedPrefixes(s)'
    <3>1. U \subseteq UsedPrefixes(s)
      BY <2>6
    <3> HIDE DEF U
    <3>2. IsFiniteSet(U) /\ Cardinality(U) <= Cardinality(UsedPrefixes(s)) /\ Cardinality(U) \in Nat
      BY <2>7, <3>1, FS_Subset, FS_CardinalityType
    <3> QED
      BY <3>2 DEF U
  <2>9. Cost(s)' >= Cost(s) /\ Cost(s)' \in Int
    <3>1. BlocksNeeded(s) \in Nat
      BY <1>1, <2>3, BlocksNeededProperties
    <3>2. Cost(s)' = BlocksNeeded(s) - Cardinality(UsedPrefixes(s)')
      BY <2>5 DEF Cost
    <3> QED
      BY <2>7, <2>8, <3>1, <3>2 DEF Cost
  <2>10. ScheduledTokens' = ScheduledTokens
    BY <1>2 DEF ScheduledTokens
  <2>11. Head(waiting)' = s /\ (Cost(s) > Len(free) - Cardinality(ShortDecoders) => Cost(s)' > Len(free'))
    <3>1. Len(free) - Cardinality(ShortDecoders) \in Int
      BY <1>4, <1>5
    <3> QED
      BY <1>2, <1>8, <2>2, <2>3, <2>9, <3>1
  <2> QED
    BY <1>2, <2>1, <2>2, <2>10, <2>11 DEF HeadWaits
<1>10. BlockedStays'
  BY <1>1, <1>2 DEF ServedInv, Selecting, BlockedStays
<1>11. WaitersAreServed'
  BY <1>1 DEF WaitersAreServed, WaitingIsExplained, WaiterAdvances
<1> QED
  BY <1>1, <1>2, <1>9, <1>10, <1>11 DEF ServedInv

(* The captured plan names the head it leaves waiting, for a reason.       *)
LEMMA CaptureServes ==
  ASSUME SystemInv, ServedInv, CapturePlan
  PROVE  ServedInv'
<1>1. /\ SchedInv /\ pc = "capture" /\ pc' = "execute"
      /\ blocked' = IF blockedBefore # NoBlock THEN blockedBefore
                    ELSE AdmissionBlock(ScheduledTokens)
      /\ waiting' = waiting /\ running' = running /\ runningBefore' = runningBefore
      /\ UNCHANGED poolVars
  BY DEF SystemInv, CapturePlan
<1>2. BlockedStays /\ (waiting # <<>> => HeadWaits(Len(free)))
  BY <1>1 DEF ServedInv, Selecting
<1>3. waiting # <<>> =>
        IF ScheduledTokens >= MaxNumBatchedTokens \/ Len(running) >= MaxNumSeqs
           \/ CanAllocate(Head(waiting)) = NoRoom
        THEN /\ AdmissionBlock(ScheduledTokens) # NoBlock
             /\ AdmissionBlock(ScheduledTokens).request = Head(waiting)
        ELSE AdmissionBlock(ScheduledTokens) = NoBlock
  BY <1>1, AdmissionBlockProperties
<1>4. waiting # <<>> /\ Cost(Head(waiting)) > Len(free) => CanAllocate(Head(waiting)) = NoRoom
  <2> SUFFICES ASSUME waiting # <<>>, Cost(Head(waiting)) > Len(free)
               PROVE  CanAllocate(Head(waiting)) = NoRoom
    OBVIOUS
  <2>1. /\ CanAllocate(Head(waiting)) = NoRoom <=> Len(free) < Cost(Head(waiting))
        /\ Cost(Head(waiting)) \in Int /\ Len(free) \in Nat
    BY WaitingHead
  <2> QED
    BY <2>1
<1>5. WaitingIsExplained'
  <2>1. CASE waiting = <<>>
    <3>1. blockedBefore = NoBlock /\ AdmissionBlock(ScheduledTokens) = NoBlock
      BY <1>1, <1>2, <2>1, AdmissionBlockProperties DEF BlockedStays
    <3> QED
      BY <1>1, <2>1, <3>1 DEF WaitingIsExplained
  <2>2. CASE waiting # <<>>
    <3>1. blocked'.request = Head(waiting)
      BY <1>1, <1>2, <1>3, <1>4, <2>2 DEF BlockedStays, HeadWaits
    <3> QED
      BY <1>1, <2>2, <3>1 DEF WaitingIsExplained
  <2> QED
    BY <2>1, <2>2
<1>6. WaiterAdvances'
  <2> SUFFICES ASSUME waiting # <<>>, AdmissionBlock(0)' = NoBlock
               PROVE  Len(running) > runningBefore
    BY <1>1 DEF WaiterAdvances
  <2>1. AdmissionBlock(0) = NoBlock
    <3>1. CanAllocate(Head(waiting))' = CanAllocate(Head(waiting))
      BY <1>1, CanAllocateUnchanged
    <3> QED
      BY <1>1, <3>1 DEF AdmissionBlock
  <2>2. ~(Len(running) >= MaxNumSeqs) /\ CanAllocate(Head(waiting)) # NoRoom
    BY <1>1, <2>1, AdmissionBlockProperties
  <2> QED
    BY <1>2, <1>4, <2>2 DEF HeadWaits
<1> QED
  BY <1>1, <1>5, <1>6 DEF ServedInv, Selecting, WaitersAreServed

(* Every step keeps it.                                                    *)
LEMMA ServedStep ==
  SystemInv /\ ServedInv /\ [SchedNext]_schedVars => ServedInv'
<1> SUFFICES ASSUME SystemInv, ServedInv, [SchedNext]_schedVars PROVE ServedInv'
  OBVIOUS
<1>1. SchedInv'
  BY SystemStep DEF SystemInv
<1>2. (pc \notin {"admit", "reserve", "capture", "execute"} => ServedInv)'
  BY NotServing, PTL
<1>3. ASSUME NEW p \in Prompt, NEW m \in MaxTokens, NEW i \in BOOLEAN, AddRequest(p, m, i)
      PROVE  ServedInv'
  <2>1. pc' = "idle"
    BY <1>3 DEF AddRequest
  <2> QED
    BY <1>2, <2>1
<1>4. CASE BeginStep
  <2>1. pc' = "preempt"
    BY <1>4 DEF BeginStep
  <2> QED
    BY <1>2, <2>1
<1>5. CASE Preempt
  <2>1. pc' = "preempt"
    BY <1>5 DEF Preempt
  <2> QED
    BY <1>2, <2>1
<1>6. CASE ScheduleRunning
  BY <1>6, ScheduleRunningServes
<1>7. CASE AdmitHead
  BY <1>7, AdmitHeadServes
<1>8. CASE AdmissionEnds
  BY <1>8, AdmissionEndsServes
<1>9. CASE ReserveDecodeCache
  BY <1>9, ReserveServes
<1>10. CASE RollbackLastAdmission
  BY <1>1, <1>10, RollbackServes
<1>11. CASE CapturePlan
  BY <1>11, CaptureServes
<1>12. CASE ExecuteStep
  <2>1. pc' = "apply"
    BY <1>12 DEF ExecuteStep, Execute
  <2> QED
    BY <1>2, <2>1
<1>13. CASE ApplyOne
  <2>1. pc' = "apply"
    BY <1>13 DEF ApplyOne
  <2> QED
    BY <1>2, <2>1
<1>14. CASE ApplyEnds
  <2>1. pc' = "idle"
    BY <1>14 DEF ApplyEnds, ReturnFromStep
  <2> QED
    BY <1>2, <2>1
<1>15. CASE AbortAllRequests
  <2>1. pc' = "idle"
    BY <1>15 DEF AbortAllRequests, ReturnFromStep
  <2> QED
    BY <1>2, <2>1
<1>16. CASE UNCHANGED schedVars
  <2>1. UNCHANGED <<free, used, hash, identity, index, tokens, table, numCached, numPrompt,
                    numScheduled, recomputeTarget, waiting, running, pc, runningBefore,
                    blockedBefore, blocked>>
    BY <1>16 DEF schedVars, poolVars, seqVars, callVars
  <2>2. UNCHANGED poolVars
    BY <1>16 DEF schedVars
  <2>3. (\A s : Cost(s)' = Cost(s)) /\ (\A s : CanAllocate(s)' = CanAllocate(s))
    BY <2>2, CostUnchanged, CanAllocateUnchanged
  <2>4. ShortDecoders' = ShortDecoders /\ ScheduledTokens' = ScheduledTokens
    BY <2>1, SelectionKept
  <2>5. (\A room : HeadWaits(room)' = HeadWaits(room)) /\ (\A n : AdmissionBlock(n)' = AdmissionBlock(n))
    BY <2>1, <2>3, <2>4 DEF HeadWaits, AdmissionBlock
  <2>6. AllLateOK => AllLateOK'
    BY <2>1, LateUnchanged
  <2>7. (Selecting => BlockedStays) => (Selecting => BlockedStays)'
    BY <2>1 DEF Selecting, BlockedStays
  <2>8. WaitersAreServed => WaitersAreServed'
    BY <2>1, <2>5 DEF WaitersAreServed, WaitingIsExplained, WaiterAdvances
  <2> QED
    BY <2>1, <2>3, <2>4, <2>5, <2>6, <2>7, <2>8 DEF ServedInv
<1> QED
  BY <1>3, <1>4, <1>5, <1>6, <1>7, <1>8, <1>9, <1>10, <1>11, <1>12, <1>13, <1>14, <1>15, <1>16
     DEF SchedNext, PlanStep, ApplyStep

(* A request is left waiting only for the reason its plan names, and the   *)
(* head of the queue is never passed over while it would fit, however the  *)
(* admissions of the step were shared, found in the cache or rolled back   *)
(* (select_work, reserve_decode_cache, blocked_admission).                 *)
THEOREM SchedulerWaitersAreServed == SchedSpec => []WaitersAreServed
<1>1. SchedInit => SystemInv
  BY SystemInit
<1>2. SchedInit => ServedInv
  BY NotServing DEF SchedInit
<1>3. SystemInv /\ [SchedNext]_schedVars => SystemInv'
  BY SystemStep
<1>4. SystemInv /\ ServedInv /\ [SchedNext]_schedVars => ServedInv'
  BY ServedStep
<1>5. ServedInv => WaitersAreServed
  BY DEF ServedInv
<1> QED
  BY <1>1, <1>2, <1>3, <1>4, <1>5, PTL DEF SchedSpec
=============================================================================
