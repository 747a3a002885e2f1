--------------------------- MODULE SplitCopyProofs ---------------------------
(***************************************************************************)
(* Proofs about SplitCopy, for every number of pages, parts, workers' steps *)
(* and runs: what split_pages computes, and that a copy that completes has *)
(* every row once.                                                         *)
(***************************************************************************)
EXTENDS SplitCopy, TLAPS, WellFoundedInduction

(* A non-empty set of natural numbers has a least element. *)
LEMMA LeastNat ==
  ASSUME NEW T \in SUBSET Nat, T # {}
  PROVE  \E x \in T : \A y \in T : x <= y
<1>1. \E x \in T : \A y \in T : ~ (<<y, x>> \in OpToRel(<, Nat))
  BY NatLessThanWellFounded, WFMin, Zenon
<1>2. ASSUME NEW x \in T, NEW y \in T, <<y, x>> \notin OpToRel(<, Nat)
      PROVE  x <= y
  BY <1>2 DEF OpToRel
<1> QED
  BY <1>1, <1>2

(* A number lies between two multiples of any other.                       *)
LEMMA DivBounds ==
  ASSUME NEW p \in Nat, NEW m \in Nat \ {0}
  PROVE  /\ p \div m \in Nat
         /\ (p \div m) * m <= p
         /\ p < (p \div m) * m + m
OBVIOUS

(* Multiplication is monotonic.                                            *)
LEMMA TimesMonotonic ==
  ASSUME NEW a \in Nat, NEW b \in Nat, NEW c \in Nat, a <= b
  PROVE  a * c \in Nat /\ b * c \in Nat /\ a * c <= b * c
OBVIOUS

(* One factor more is one summand more.                                    *)
LEMMA Distributes ==
  ASSUME NEW a \in Int, NEW c \in Int
  PROVE  (a + 1) * c = a * c + c /\ a * c \in Int
OBVIOUS

(* A sequence is its first element and the rest. *)
LEMMA ConsIs ==
  ASSUME NEW S, NEW a \in S, NEW t \in Seq(S), NEW u \in Seq(S), Len(u) = Len(t) + 1,
         u[1] = a, \A i \in 1 .. Len(t) : u[i + 1] = t[i]
  PROVE  <<a>> \o t = u
OBVIOUS

(* A function on 1 .. m is a sequence of length m.                         *)
LEMMA FunctionIsSeq ==
  ASSUME NEW S, NEW m \in Nat, NEW u, u = [i \in 1 .. m |-> u[i]], \A i \in 1 .. m : u[i] \in S
  PROVE  u \in Seq(S) /\ Len(u) = m
<1>1. u \in [1 .. m -> S]
  OBVIOUS
<1> QED
  BY <1>1

(* The k-th of n ranges of step pages each. *)
EvenPart(k, n, step) ==
  [start |-> (k - 1) * step, end |-> IF k = n THEN Unbounded ELSE k * step]

EvenParts(n, step) == [k \in 1 .. n |-> EvenPart(k, n, step)]

(* What the recursion of Ranges says of the ranges from the k-th on, given those after it. *)
RangesBody(f, k, pages, max) ==
  IF k * Step(pages, max) + Step(pages, max) >= pages \/ k = max - 1
  THEN <<[start |-> k * Step(pages, max), end |-> Unbounded]>>
  ELSE <<[start |-> k * Step(pages, max),
          end   |-> k * Step(pages, max) + Step(pages, max)]>> \o f[k + 1]

Recurses(f, pages, max) == f = [k \in 0 .. max - 1 |-> RangesBody(f, k, pages, max)]

(* If some function satisfies the recursion of Ranges then Ranges does. *)
LEMMA RangesDef ==
  ASSUME NEW pages, NEW max, NEW f, Recurses(f, pages, max)
  PROVE  Recurses(Ranges(pages, max), pages, max)
BY Zenon DEF Ranges, RangesBody, Recurses

(* And there is only one. *)
LEMMA RangesUnique ==
  ASSUME NEW pages, NEW max \in Nat \ {0},
         NEW f, Recurses(f, pages, max), NEW g, Recurses(g, pages, max)
  PROVE  f[0] = g[0]
<1> DEFINE Differ == {j \in 0 .. max - 1 : f[max - 1 - j] # g[max - 1 - j]}
<1> SUFFICES ASSUME Differ # {} PROVE FALSE
  <2>1. Differ = {} => max - 1 \notin Differ
    OBVIOUS
  <2>2. max - 1 \in 0 .. max - 1 /\ max - 1 - (max - 1) = 0
    OBVIOUS
  <2> QED
    BY <2>1, <2>2
<1>0. Differ \in SUBSET Nat
  OBVIOUS
<1>1. PICK j \in Differ : \A i \in Differ : j <= i
  <2> HIDE DEF Differ
  <2> QED
    BY <1>0, LeastNat
<1> DEFINE k == max - 1 - j
<1>2. k \in 0 .. max - 1 /\ f[k] # g[k] /\ j \in 0 .. max - 1
  BY <1>1
<1>3. f[k] = RangesBody(f, k, pages, max) /\ g[k] = RangesBody(g, k, pages, max)
  BY <1>2 DEF Recurses
<1>4. CASE k = max - 1
  BY <1>2, <1>3, <1>4 DEF RangesBody
<1>5. CASE k # max - 1
  <2>1. j - 1 \in 0 .. max - 1 /\ max - 1 - (j - 1) = k + 1 /\ ~(j <= j - 1)
    BY <1>2, <1>5
  <2>2. f[k + 1] = g[k + 1]
    BY <1>1, <2>1
  <2> QED
    BY <1>2, <1>3, <2>2 DEF RangesBody
<1> QED
  BY <1>4, <1>5

(* split_pages: min(pages, max) ranges of one width, the last one open, and *)
(* none of them starts behind the last page counted.                       *)
LEMMA SplitPagesShape ==
  ASSUME NEW pages \in Nat \ {0}, NEW max \in Nat \ {0}
  PROVE  \E n \in 1 .. max : \E step \in Nat \ {0} :
           SplitPages(pages, max) = EvenParts(n, step) /\ (n - 1) * step < pages
<1> DEFINE s == Step(pages, max)
           n == IF pages < max THEN pages ELSE max
           q == pages \div max
           Last(k) == k * s + s >= pages \/ k = max - 1
<1>1. q \in Nat /\ q * max <= pages /\ pages < q * max + max
  BY DivBounds
<1>2. s \in Nat \ {0} /\ (s = 1 \/ s = q) /\ (pages < max => s = 1)
  <2>1. pages < max => q = 0
    <3> SUFFICES ASSUME pages < max, q >= 1 PROVE FALSE
      BY <1>1
    <3>1. 1 * max <= q * max
      BY <1>1, TimesMonotonic
    <3> QED
      BY <1>1, <3>1
  <2> QED
    BY <1>1, <2>1 DEF Step
<1>3. n \in 1 .. max
  OBVIOUS
<1>4. (n - 1) * s < pages
  <2>1. CASE s = 1
    BY <1>3, <2>1
  <2>2. CASE s = q /\ s # 1
    <3>1. n = max
      BY <1>2, <2>2
    <3> HIDE DEF q
    <3>2. (max - 1 + 1) * q = (max - 1) * q + q /\ (max - 1) * q \in Int
      BY <1>1, Distributes
    <3>3. max * q = q * max /\ max - 1 + 1 = max
      BY <1>1
    <3> QED
      BY <1>1, <1>2, <2>2, <3>1, <3>2, <3>3
  <2> QED
    BY <1>2, <2>1, <2>2
<1> HIDE DEF s, n, q
<1>5. ASSUME NEW k \in 0 .. max - 1
      PROVE  Last(k) <=> k >= n - 1
  <2>1. (k + 1) * s = k * s + s /\ k * s \in Int
    BY <1>2, Distributes
  <2>2. CASE k < n - 1
    <3>1. (k + 1) * s <= (n - 1) * s
      BY <1>2, <1>3, <2>2, TimesMonotonic
    <3> QED
      BY <1>2, <1>3, <1>4, <2>1, <2>2, <3>1
  <2>3. CASE k >= n - 1
    BY <1>2, <2>1, <2>3 DEF n
  <2> QED
    BY <1>3, <2>2, <2>3
<1> DEFINE g == [k \in 0 .. max - 1 |->
                  IF k >= n - 1 THEN <<[start |-> k * s, end |-> Unbounded]>>
                  ELSE [i \in 1 .. n - k |-> EvenPart(k + i, n, s)]]
<1>6. Recurses(g, pages, max)
  <2>1. ASSUME NEW k \in 0 .. max - 1
        PROVE  g[k] = RangesBody(g, k, pages, max)
    <3>1. CASE k >= n - 1
      BY <1>5, <3>1 DEF RangesBody, s
    <3>2. CASE k < n - 1
      <4> DEFINE a == [start |-> k * s, end |-> k * s + s]
      <4>1. k + 1 \in 0 .. max - 1 /\ ~Last(k)
        BY <1>3, <1>5, <3>2
      <4>2. RangesBody(g, k, pages, max) = <<a>> \o g[k + 1]
        BY <4>1 DEF RangesBody, s
      <4>3. g[k] = [i \in 1 .. n - k |-> EvenPart(k + i, n, s)]
        BY <1>3, <3>2
      <4>4. g[k + 1] = [i \in 1 .. n - (k + 1) |-> EvenPart(k + 1 + i, n, s)]
        <5>1. CASE k + 1 < n - 1
          BY <1>3, <4>1, <5>1
        <5>2. CASE k + 1 = n - 1
          <6>1. g[k + 1] = <<[start |-> (k + 1) * s, end |-> Unbounded]>>
            BY <1>3, <4>1, <5>2
          <6>2. EvenPart(n, n, s) = [start |-> (k + 1) * s, end |-> Unbounded]
            BY <5>2 DEF EvenPart
          <6>3. n - (k + 1) = 1 /\ k + 1 + 1 = n
            BY <1>3, <5>2
          <6> QED
            BY <6>1, <6>2, <6>3
        <5> QED
          BY <1>3, <3>2, <5>1, <5>2
      <4>5. <<a>> \o g[k + 1] = g[k]
        <5> DEFINE P == {EvenPart(k + i, n, s) : i \in 1 .. n - k}
        <5>1. EvenPart(k + 1, n, s) = a
          <6>1. (k + 1) * s = k * s + s /\ k + 1 - 1 = k
            BY <1>2, Distributes
          <6> QED
            BY <1>3, <3>2, <6>1 DEF EvenPart
        <5>2. n - k \in Nat /\ n - (k + 1) \in Nat /\ n - k = n - (k + 1) + 1
          BY <1>3, <3>2
        <5>3. g[k] \in Seq(P) /\ Len(g[k]) = n - k /\ g[k][1] = a
          <6>1. ASSUME NEW i \in 1 .. n - k PROVE EvenPart(k + i, n, s) \in P
            OBVIOUS
          <6>2. 1 \in 1 .. n - k
            BY <5>2
          <6> HIDE DEF P, g, a
          <6>3. g[k] = [i \in 1 .. n - k |-> g[k][i]] /\ g[k][1] = EvenPart(k + 1, n, s)
            BY <4>3, <6>2
          <6>4. \A i \in 1 .. n - k : g[k][i] \in P
            BY <4>3, <6>1
          <6> QED
            BY <5>1, <5>2, <6>3, <6>4, FunctionIsSeq
        <5>4. g[k + 1] \in Seq(P) /\ Len(g[k + 1]) = n - (k + 1)
          <6>1. ASSUME NEW i \in 1 .. n - (k + 1) PROVE EvenPart(k + 1 + i, n, s) \in P
            <7>1. i + 1 \in 1 .. n - k /\ k + (i + 1) = k + 1 + i
              BY <5>2
            <7> QED
              BY <7>1
          <6> HIDE DEF P, g
          <6>2. /\ g[k + 1] = [i \in 1 .. n - (k + 1) |-> g[k + 1][i]]
                /\ \A i \in 1 .. n - (k + 1) : g[k + 1][i] \in P
            BY <4>4, <6>1
          <6> QED
            BY <5>2, <6>2, FunctionIsSeq
        <5>5. ASSUME NEW i \in 1 .. n - (k + 1) PROVE g[k][i + 1] = g[k + 1][i]
          <6>1. i + 1 \in 1 .. n - k /\ k + (i + 1) = k + 1 + i
            BY <5>2
          <6> HIDE DEF g
          <6> QED
            BY <4>3, <4>4, <6>1
        <5>6. a \in P
          BY <5>1, <5>2
        <5> HIDE DEF a, P, g
        <5> QED
          BY <5>2, <5>3, <5>4, <5>5, <5>6, ConsIs
      <4> QED
        BY <4>2, <4>5
    <3> QED
      BY <1>3, <3>1, <3>2
  <2> HIDE DEF g
  <2>2. g = [k \in 0 .. max - 1 |-> g[k]]
    BY DEF g
  <2> QED
    BY <2>1, <2>2 DEF Recurses
<1>7. Ranges(pages, max)[0] = g[0]
  <2> HIDE DEF g
  <2> QED
    BY <1>6, RangesDef, RangesUnique
<1>8. g[0] = EvenParts(n, s)
  <2>1. 0 \in 0 .. max - 1
    OBVIOUS
  <2>2. CASE n = 1
    <3>1. g[0] = <<[start |-> 0 * s, end |-> Unbounded]>>
      BY <2>1, <2>2
    <3>2. EvenParts(1, s) = [i \in 1 .. 1 |-> EvenPart(i, 1, s)]
      BY DEF EvenParts
    <3> QED
      BY <1>2, <2>2, <3>1, <3>2 DEF EvenPart
  <2>3. CASE n # 1
    BY <1>3, <2>1, <2>3 DEF EvenParts
  <2> QED
    BY <2>2, <2>3
<1> QED
  <2>1. SplitPages(pages, max) = EvenParts(n, s)
    BY <1>7, <1>8 DEF SplitPages
  <2> QED
    BY <1>2, <1>3, <1>4, <2>1

-----------------------------------------------------------------------------
(* The plan.                                                               *)

(* Whether a page is in a range, whose end may be open. *)
InPart(p, part) == part.start <= p /\ (part.end = Unbounded \/ p < part.end)

(* Every page, also one that the table did not have yet when its pages were *)
(* counted, is in exactly one range.                                       *)
Partition(ranges) ==
  \A p \in Nat : \E i \in DOMAIN ranges :
    /\ InPart(p, ranges[i])
    /\ \A j \in DOMAIN ranges \ {i} : ~InPart(p, ranges[j])

(* Even ranges with an open end have every page in exactly one of them:    *)
(* the one that the division by the step gives, or the last.               *)
LEMMA EvenPartsPartition ==
  ASSUME NEW n \in Nat \ {0}, NEW step \in Nat \ {0}
  PROVE  Partition(EvenParts(n, step))
<1> SUFFICES ASSUME NEW p \in Nat
             PROVE  \E i \in 1 .. n : /\ InPart(p, EvenPart(i, n, step))
                                     /\ \A j \in 1 .. n \ {i} : ~InPart(p, EvenPart(j, n, step))
  BY DEF Partition, EvenParts
<1>1. ASSUME NEW j \in 1 .. n
      PROVE  /\ j * step \in Nat /\ (j - 1) * step \in Nat
             /\ InPart(p, EvenPart(j, n, step)) <=> (j - 1) * step <= p /\ (j = n \/ p < j * step)
  <2>1. j * step \in Nat /\ (j - 1) * step \in Nat
    BY TimesMonotonic
  <2>2. j * step # Unbounded
    BY <2>1, SplitAssumption
  <2> QED
    BY <2>1, <2>2 DEF InPart, EvenPart
<1>2. CASE (n - 1) * step <= p
  <2>1. ASSUME NEW j \in 1 .. n \ {n} PROVE ~InPart(p, EvenPart(j, n, step))
    <3>1. j * step <= (n - 1) * step
      BY TimesMonotonic
    <3> QED
      BY <1>1, <1>2, <3>1
  <2>2. InPart(p, EvenPart(n, n, step))
    BY <1>1, <1>2
  <2> QED
    BY <2>1, <2>2
<1>3. CASE ~((n - 1) * step <= p)
  <2> DEFINE q == p \div step
  <2>1. q \in Nat /\ q * step <= p /\ p < q * step + step
    BY DivBounds
  <2> HIDE DEF q
  <2>2. (q + 1) * step = q * step + step /\ q * step \in Int
    BY <2>1, Distributes
  <2>3. q + 1 < n
    <3> SUFFICES ASSUME n - 1 <= q PROVE FALSE
      BY <2>1
    <3>1. (n - 1) * step <= q * step /\ (n - 1) * step \in Nat
      BY <2>1, TimesMonotonic
    <3> QED
      BY <1>3, <2>1, <3>1
  <2>4. InPart(p, EvenPart(q + 1, n, step))
    <3>1. q + 1 \in 1 .. n /\ q + 1 - 1 = q
      BY <2>1, <2>3
    <3> QED
      BY <1>1, <2>1, <2>2, <3>1
  <2>5. ASSUME NEW j \in 1 .. n \ {q + 1} PROVE ~InPart(p, EvenPart(j, n, step))
    <3>1. CASE j <= q
      <4>1. j * step <= q * step
        BY <2>1, <3>1, TimesMonotonic
      <4> QED
        BY <1>1, <2>1, <2>2, <2>3, <3>1, <4>1
    <3>2. CASE j > q + 1
      <4>1. (q + 1) * step <= (j - 1) * step
        BY <2>1, <3>2, TimesMonotonic
      <4> QED
        BY <1>1, <2>1, <2>2, <4>1
    <3> QED
      BY <2>1, <3>1, <3>2
  <2> QED
    BY <2>1, <2>3, <2>4, <2>5
<1> QED
  BY <1>2, <1>3

(* What a plan is: nothing, or at most max ranges that partition the pages. *)
LEMMA SplitPagesExact ==
  ASSUME NEW pages \in Counts, NEW max \in 1 .. MaxParts
  PROVE  /\ SplitPages(pages, max) \in Seq(Part)
         /\ Len(SplitPages(pages, max)) <= MaxParts
         /\ SplitPages(pages, max) # <<>> => Partition(SplitPages(pages, max))
<1>1. CASE pages = 0
  BY <1>1, SplitAssumption DEF SplitPages
<1>2. CASE pages # 0
  <2>1. pages \in Nat \ {0} /\ pages <= MaxPages /\ max \in Nat \ {0} /\ max <= MaxParts
    BY <1>2, SplitAssumption DEF Counts
  <2>2. PICK n \in 1 .. max, step \in Nat \ {0} :
          SplitPages(pages, max) = EvenParts(n, step) /\ (n - 1) * step < pages
    BY <2>1, SplitPagesShape
  <2>3. ASSUME NEW k \in 1 .. n PROVE EvenPart(k, n, step) \in Part
    <3>1. (n - 1) * step \in Nat /\ (k - 1) * step \in Nat /\ (k - 1) * step <= (n - 1) * step
      BY TimesMonotonic
    <3>2. k # n => k * step \in Nat /\ k * step <= (n - 1) * step
      BY TimesMonotonic
    <3> QED
      BY <2>1, <2>2, <3>1, <3>2, SplitAssumption DEF EvenPart, Part, Counts
  <2>4. EvenParts(n, step) \in Seq(Part) /\ Len(EvenParts(n, step)) = n
    <3>1. EvenParts(n, step) \in [1 .. n -> Part]
      BY <2>3 DEF EvenParts
    <3> QED
      BY <3>1, <2>2
  <2> QED
    BY <2>1, <2>2, <2>4, EvenPartsPartition, SplitAssumption
<1> QED
  BY <1>1, <1>2

-----------------------------------------------------------------------------
(* The runs.                                                               *)

(* Only a plan changes the parts; together with the types this is what the  *)
(* plan promised of them.                                                  *)
PartsInv ==
  /\ parts \in Seq(Part)
  /\ pc \notin {"idle", "plan", "whole"} => Partition(parts)

(* A plan is made of typed ranges that partition the pages.                *)
LEMMA PlanStep ==
  ASSUME TypeOK, Plan
  PROVE  TypeOK' /\ PartsInv'
<1>1. PICK pages \in Counts, max \in 1 .. MaxParts :
        /\ parts' = (IF Selected(pages, size) THEN SplitPages(pages, max) ELSE <<>>)
        /\ worker' = [i \in DOMAIN parts' |-> "ready"]
        /\ pc' = IF parts' = <<>> THEN "whole" ELSE "preData"
  BY DEF Plan
<1>2. /\ parts' \in Seq(Part) /\ Len(parts') <= MaxParts
      /\ parts' # <<>> => Partition(parts')
  <2>1. <<>> \in Seq(Part) /\ Len(<<>>) = 0 /\ 0 <= MaxParts
    BY SplitAssumption
  <2> QED
    BY <1>1, <2>1, SplitPagesExact
<1>3. \A i \in DOMAIN parts' : parts'[i] \in Part
  BY <1>2
<1> QED
  BY <1>1, <1>2, <1>3 DEF Plan, TypeOK, PartsInv, runVars

(* A load of pages that may be there already counts at most two.           *)
LEMMA LoadType ==
  ASSUME TypeOK, NEW pages, Load(pages)
  PROVE  target' \in [Pages -> 0 .. 2]
BY DEF Load, TypeOK

(* A failed run leaves COPYs of its own ranges behind and keeps the plan.  *)
LEMMA FailType ==
  ASSUME TypeOK, Fail
  PROVE  TypeOK' /\ (PartsInv => PartsInv')
<1>1. \A i \in DOMAIN parts : Range(parts[i]) \subseteq Pages
  BY DEF Range
<1>2. late' \subseteq SUBSET Pages
  BY <1>1 DEF Fail, TypeOK
<1> QED
  BY <1>2 DEF Fail, TypeOK, PartsInv, runVars

(* Types, and the plan is a partition into at most split_max_parts ranges.  *)
THEOREM TypeCorrect == Spec => [](TypeOK /\ PartsInv)
<1>1. Init => TypeOK /\ PartsInv
  <2> SUFFICES ASSUME Init PROVE TypeOK /\ PartsInv
    OBVIOUS
  <2>1. parts \in Seq(Part) /\ Len(parts) = 0 /\ DOMAIN parts = {}
    BY DEF Init
  <2>2. worker \in [DOMAIN parts -> {"ready", "copying", "finishing", "done"}]
    BY <2>1 DEF Init
  <2>3. target \in [Pages -> 0 .. 2]
    BY DEF Init
  <2> QED
    BY <2>1, <2>2, <2>3, SplitAssumption DEF Init, TypeOK, PartsInv, Counts
<1>2. TypeOK /\ PartsInv /\ [Next]_vars => TypeOK' /\ PartsInv'
  <2> SUFFICES ASSUME TypeOK, PartsInv, [Next]_vars PROVE TypeOK' /\ PartsInv'
    OBVIOUS
  <2> USE SplitAssumption DEF runVars
  <2>0. [p \in Pages |-> 0] \in [Pages -> 0 .. 2]
    OBVIOUS
  <2>1. CASE Start
    BY <2>1 DEF Start, TypeOK, PartsInv
  <2>2. CASE Plan
    BY <2>2, PlanStep
  <2>3. CASE PreData
    <3>1. target' \in [Pages -> 0 .. 2] /\ foreign' \in BOOLEAN
      BY <2>0, <2>3 DEF PreData, TypeOK
    <3> QED
      BY <2>3, <3>1 DEF PreData, TypeOK, PartsInv
  <2>4. CASE Check
    <3>1. CASE Fail
      BY <3>1, FailType
    <3>2. CASE ~Fail
      BY <2>4, <3>2 DEF Check, TypeOK, PartsInv
    <3> QED
      BY <3>1, <3>2
  <2>5. CASE Truncate
    <3>1. target' \in [Pages -> 0 .. 2] /\ foreign' \in BOOLEAN
      BY <2>0, <2>5 DEF Truncate, Cleared
    <3> QED
      BY <2>5, <3>1 DEF Truncate, TypeOK, PartsInv
  <2>6. ASSUME NEW i \in DOMAIN worker, Connect(i) \/ Finish(i) \/ Commit(i)
        PROVE  TypeOK' /\ PartsInv'
    <3>1. target' \in [Pages -> 0 .. 2]
      BY <2>6, LoadType DEF Connect, Finish, Commit, TypeOK
    <3>2. PICK to \in {"copying", "finishing", "done"} :
            worker' = [worker EXCEPT ![i] = to] /\ UNCHANGED <<pc, runVars, parts, actual, late, foreign>>
      BY <2>6 DEF Connect, Finish, Commit, WorkerStep
    <3> QED
      BY <3>1, <3>2 DEF TypeOK, PartsInv
  <2>7. CASE Join
    BY <2>7 DEF Join, TypeOK, PartsInv
  <2>8. CASE Abandon
    BY <2>8, FailType DEF Abandon
  <2>9. CASE LateDecision
    <3>1. target' \in [Pages -> 0 .. 2]
      BY <2>9, LoadType DEF LateDecision, TypeOK
    <3> QED
      BY <2>9, <3>1 DEF LateDecision, TypeOK, PartsInv
  <2>10. CASE UNCHANGED vars
    BY <2>10 DEF vars, TypeOK, PartsInv
  <2> QED
    BY <2>1, <2>2, <2>3, <2>4, <2>5, <2>6, <2>7, <2>8, <2>9, <2>10 DEF Next
<1> QED
  BY <1>1, <1>2, PTL DEF Spec

(* Whatever the table did between the count of its pages and the snapshot,  *)
(* every page of the snapshot is copied by exactly one worker, also when    *)
(* the number of pages is no multiple of the number of parts (split_pages). *)
THEOREM PlansExactly == Spec => []PlanExact
<1>1. TypeOK /\ PartsInv => PlanExact
  <2> SUFFICES ASSUME TypeOK, PartsInv, pc \notin {"idle", "plan", "whole"}, NEW p \in 0 .. actual - 1
               PROVE  \E i \in DOMAIN parts : /\ p \in Range(parts[i])
                                              /\ \A j \in DOMAIN parts \ {i} : p \notin Range(parts[j])
    BY DEF PlanExact
  <2>1. p \in Pages /\ p < actual /\ p \in Nat
    BY SplitAssumption DEF TypeOK, Counts, Pages
  <2>2. \A i \in DOMAIN parts : p \in Range(parts[i]) <=> InPart(p, parts[i])
    BY <2>1 DEF Range, InPart
  <2> QED
    BY <2>1, <2>2 DEF PartsInv, Partition
<1> QED
  BY <1>1, TypeCorrect, PTL

(* Rows that no run put on the target are still there when the table is     *)
(* emptied only if the operator asked for it.                              *)
LooksFirst == pc = "truncate" /\ ~drop => ~foreign

(* Between the check and the TRUNCATE rows may be lost only that an earlier *)
(* run put there, or under --drop-target-first (run_split_copy).           *)
THEOREM KeepsForeignRows == Spec => ForeignKept
<1>1. Init => LooksFirst
  BY DEF Init, LooksFirst
<1>2. TypeOK /\ LooksFirst /\ [Next]_vars => LooksFirst' /\ (foreign /\ ~drop => foreign')
  <2> SUFFICES ASSUME TypeOK, LooksFirst, [Next]_vars PROVE LooksFirst' /\ (foreign /\ ~drop => foreign')
    OBVIOUS
  <2> USE DEF LooksFirst, runVars
  <2>1. CASE Start \/ Plan \/ PreData \/ Truncate \/ Join
    BY <2>1 DEF Start, Plan, PreData, Truncate, Join
  <2>2. CASE Check \/ Abandon
    BY <2>2 DEF Check, Abandon, Fail, Occupied
  <2>3. CASE (\E i \in DOMAIN worker : Connect(i) \/ Finish(i) \/ Commit(i)) \/ LateDecision
    BY <2>3 DEF Connect, Finish, Commit, WorkerStep, LateDecision
  <2>4. CASE UNCHANGED vars
    BY <2>4 DEF vars
  <2> QED
    BY <2>1, <2>2, <2>3, <2>4 DEF Next
<1>3. TypeOK /\ LooksFirst /\ [Next]_vars => [foreign /\ ~drop => foreign']_vars
  BY <1>2
<1> QED
  BY <1>1, <1>2, <1>3, TypeCorrect, PTL DEF Spec, ForeignKept

-----------------------------------------------------------------------------
(* The rows.                                                               *)

(* A worker of this run has committed the page. *)
Copied(p) == \E i \in DOMAIN parts : worker[i] = "done" /\ p \in Range(parts[i])

(* From the TRUNCATE on no COPY of an earlier run is left that could still  *)
(* commit, and the target holds just what this run's workers committed.    *)
CopyInv ==
  /\ pc \in {"preData", "check", "truncate"} => \A i \in DOMAIN parts : worker[i] = "ready"
  /\ pc \in {"copy", "complete"} =>
       late = {} /\ \A p \in Pages : target[p] = IF Copied(p) THEN 1 ELSE 0
  /\ pc = "complete" => AllDone

(* A worker's rows are those of no other worker, so its commit adds each    *)
(* for the first time.                                                     *)
LEMMA CommitStep ==
  ASSUME TypeOK, PartsInv, CopyInv, NEW i \in DOMAIN worker, Commit(i)
  PROVE  CopyInv'
<1>1. /\ pc = "copy" /\ pc' = "copy" /\ late' = late /\ late = {} /\ worker[i] = "finishing"
      /\ UNCHANGED <<parts, actual>> /\ worker' = [worker EXCEPT ![i] = "done"]
      /\ DOMAIN worker = DOMAIN parts /\ i \in DOMAIN parts
      /\ Load(Range(parts[i]))
  BY DEF Commit, WorkerStep, CopyInv, TypeOK
<1>2. /\ worker'[i] = "done"
      /\ \A j \in DOMAIN parts \ {i} : worker'[j] = worker[j]
  BY <1>1 DEF TypeOK
<1>3. \A part : Range(part)' = Range(part)
  BY <1>1 DEF Range
<1>4. ASSUME NEW p \in Pages
      PROVE  target'[p] = IF Copied(p)' THEN 1 ELSE 0
  <2>1. Copied(p)' <=> Copied(p) \/ p \in Range(parts[i])
    BY <1>1, <1>2, <1>3 DEF Copied
  <2>2. target[p] = IF Copied(p) THEN 1 ELSE 0
    BY <1>1 DEF CopyInv
  <2>3. target'[p] = IF p \in Range(parts[i]) /\ target[p] < 2 THEN target[p] + 1 ELSE target[p]
    BY <1>1 DEF Load
  <2>4. CASE p \in Range(parts[i])
    <3>1. p \in Nat /\ InPart(p, parts[i])
      BY <2>4, SplitAssumption DEF Range, InPart, Pages
    <3>2. \A j \in DOMAIN parts \ {i} : ~InPart(p, parts[j])
      BY <1>1, <3>1 DEF PartsInv, Partition
    <3>3. \A j \in DOMAIN parts : p \in Range(parts[j]) => InPart(p, parts[j])
      BY DEF Range, InPart
    <3>4. ~Copied(p)
      BY <1>1, <3>2, <3>3 DEF Copied
    <3> QED
      BY <2>1, <2>2, <2>3, <2>4, <3>4
  <2>5. CASE p \notin Range(parts[i])
    BY <2>1, <2>2, <2>3, <2>5
  <2> QED
    BY <2>4, <2>5
<1> QED
  BY <1>1, <1>4 DEF CopyInv

(* Every step keeps the invariant of the copy.                             *)
LEMMA CopyInvNext ==
  ASSUME TypeOK, PartsInv, CopyInv, [Next]_vars
  PROVE  CopyInv'
<1> USE DEF runVars
<1>1. CASE Start \/ Plan
  <2>1. CASE Start
    BY <2>1 DEF Start, CopyInv
  <2>2. CASE Plan
    BY <2>2 DEF Plan, CopyInv
  <2> QED
    BY <1>1, <2>1, <2>2
<1>2. CASE PreData
  BY <1>2 DEF PreData, CopyInv
<1>3. CASE Check
  BY <1>3 DEF Check, Fail, CopyInv
<1>4. CASE Truncate
  <2>1. /\ pc' = "copy" /\ late' = {} /\ UNCHANGED <<parts, actual, worker>>
        /\ target' = [p \in Pages |-> 0]
        /\ \A i \in DOMAIN parts : worker[i] = "ready"
    BY <1>4 DEF Truncate, Cleared, CopyInv
  <2>2. ASSUME NEW p \in Pages PROVE ~Copied(p)'
    BY <2>1 DEF Copied
  <2> QED
    BY <2>1, <2>2 DEF CopyInv
<1>5. ASSUME NEW i \in DOMAIN worker, Connect(i) \/ Finish(i)
      PROVE  CopyInv'
  <2>1. PICK to \in {"copying", "finishing"} :
          /\ worker[i] # "done" /\ worker' = [worker EXCEPT ![i] = to]
          /\ pc = "copy" /\ UNCHANGED <<pc, parts, actual, late, target>>
    BY <1>5 DEF Connect, Finish, WorkerStep
  <2>2. \A j \in DOMAIN parts : worker'[j] = "done" <=> worker[j] = "done"
    BY <2>1 DEF TypeOK
  <2>3. \A p \in Pages : Copied(p)' <=> Copied(p)
    BY <2>1, <2>2 DEF Copied, Range
  <2> QED
    BY <2>1, <2>3 DEF CopyInv
<1>6. ASSUME NEW i \in DOMAIN worker, Commit(i) PROVE CopyInv'
  BY <1>6, CommitStep
<1>7. CASE Join
  <2>1. \A p \in Pages : Copied(p)' <=> Copied(p)
    BY <1>7 DEF Join, Copied, Range
  <2> QED
    BY <1>7, <2>1 DEF Join, CopyInv, AllDone
<1>8. CASE Abandon
  BY <1>8 DEF Abandon, Fail, CopyInv
<1>9. CASE LateDecision
  BY <1>9 DEF LateDecision, CopyInv
<1>10. CASE UNCHANGED vars
  <2>1. \A p \in Pages : Copied(p)' <=> Copied(p)
    BY <1>10 DEF vars, Copied, Range
  <2> QED
    BY <1>10, <2>1 DEF vars, CopyInv, AllDone
<1> QED
  BY <1>1, <1>2, <1>3, <1>4, <1>5, <1>6, <1>7, <1>8, <1>9, <1>10 DEF Next

(* A copy that reports success has put every row of the snapshot on the     *)
(* target once and no other, for every number of pages, parts and runs,    *)
(* whenever the COPYs of runs that ended are decided (run_split_copy:      *)
(* TRUNCATE before the workers, try_join_all).                             *)
THEOREM CopiesExactly == Spec => []CopyExact
<1>1. Init => CopyInv
  BY DEF Init, CopyInv
<1>2. TypeOK /\ PartsInv /\ CopyInv /\ [Next]_vars => CopyInv'
  BY CopyInvNext
<1>3. TypeOK /\ PartsInv /\ CopyInv => CopyExact
  <2> SUFFICES ASSUME TypeOK, PartsInv, CopyInv, pc = "complete", NEW p \in Pages
               PROVE  target[p] = IF p < actual THEN 1 ELSE 0
    BY DEF CopyExact
  <2>1. \A i \in DOMAIN parts : worker[i] = "done"
    BY DEF CopyInv, AllDone, TypeOK
  <2>2. p \in Nat /\ \E i \in DOMAIN parts : InPart(p, parts[i])
    BY SplitAssumption DEF PartsInv, Partition, Pages
  <2>3. Copied(p) <=> p < actual
    BY <2>1, <2>2 DEF Copied, Range, InPart
  <2> QED
    BY <2>3 DEF CopyInv
<1> QED
  BY <1>1, <1>2, <1>3, TypeCorrect, PTL DEF Spec
=============================================================================
