---------------------------- MODULE GenOtaProofs ----------------------------
(***************************************************************************)
(* The ota.sh that gen_ota_zip.py writes, for any number of partitions and *)
(* any weights: its progress nodes rise, and it reports 100 only where all *)
(* partitions lie behind.  What the loops of the generator compute is      *)
(* proved by induction: if it failed for some number of turns, there would *)
(* be a least such number.                                                 *)
(***************************************************************************)
EXTENDS GenOta, WellFoundedInduction, SequenceTheorems, TLAPS

\* Every set of natural numbers has a least element.
LEMMA Least ==
  ASSUME NEW T \in SUBSET Nat, T # {} PROVE \E x \in T : \A y \in T : x <= y
<1>1. IsWellFoundedOn(OpToRel(<, Nat), Nat)
  BY NatLessThanWellFounded
<1>2. PICK x \in T : \A y \in T : ~ (<<y, x>> \in OpToRel(<, Nat))
  BY <1>1, WFMin
<1>3. \A y \in T : <<y, x>> \in OpToRel(<, Nat) <=> y < x
  BY DEF OpToRel
<1>4. \A y \in T : ~ (y < x)
  BY <1>2, <1>3, Zenon
<1> QED
  BY <1>4

\* Induction over the numbers up to n, for a set in place of a predicate.
LEMMA UpTo ==
  ASSUME NEW n \in Nat, NEW T, 0 \in T, \A k \in 0..(n - 1) : k \in T => k + 1 \in T
  PROVE  \A k \in 0..n : k \in T
<1> SUFFICES ASSUME NEW m \in 0..n, m \notin T PROVE FALSE
  OBVIOUS
<1> DEFINE Out == {k \in 0..n : k \notin T}
<1>1. Out \in SUBSET Nat /\ Out # {}
  OBVIOUS
<1>2. PICK x \in Out : \A y \in Out : x <= y
  BY <1>1, Least
<1>3. x \in Nat /\ x # 0 /\ x <= n /\ x - 1 \in 0..(n - 1) /\ (x - 1) + 1 = x
  BY <1>2
<1>4. x - 1 \in T
  BY <1>2, <1>3
<1> QED
  BY <1>2, <1>3, <1>4

\* The recursion that defines the sums is well founded.
LEMMA SumsDef ==
  ASSUME NEW w \in Seq(Nat)
  PROVE  /\ Sums(w) \in [0..Len(w) -> Nat] /\ Sums(w)[0] = 0
         /\ \A i \in 1..Len(w) : Sums(w)[i] = Sums(w)[i - 1] + w[i]
<1> DEFINE n == Len(w)
           Fits(f, k) == f[0] = 0 /\ \A i \in 1..k : f[i] = f[i - 1] + w[i]
           T == {k \in 0..n : \E f \in [0..k -> Nat] : Fits(f, k)}
<1>1. n \in Nat /\ \A i \in 1..n : w[i] \in Nat
  OBVIOUS
<1>2. 0 \in T
  <2> DEFINE z == [i \in 0..0 |-> 0]
  <2>1. z \in [0..0 -> Nat] /\ Fits(z, 0) /\ 0 \in 0..n
    BY <1>1
  <2> HIDE DEF z, Fits
  <2> QED
    BY <2>1
<1>3. ASSUME NEW k \in 0..(n - 1), k \in T PROVE k + 1 \in T
  <2>1. PICK f \in [0..k -> Nat] : Fits(f, k)
    BY <1>3
  <2> DEFINE g == [i \in 0..(k + 1) |-> IF i <= k THEN f[i] ELSE f[k] + w[k + 1]]
  <2>2. k \in Nat /\ k + 1 \in 1..n /\ w[k + 1] \in Nat /\ f[k] \in Nat
    BY <1>1
  <2>3. g \in [0..(k + 1) -> Nat]
    BY <2>2
  <2>4. Fits(g, k + 1)
    BY <2>1, <2>2
  <2> HIDE DEF g, Fits
  <2>5. k + 1 \in 0..n
    BY <2>2
  <2>6. \E f_1 \in [0..(k + 1) -> Nat] : Fits(f_1, k + 1)
    BY <2>3, <2>4
  <2> QED
    BY <2>5, <2>6
<1>4. PICK f \in [0..n -> Nat] : Fits(f, n)
  <2>1. n \in T
    <3> HIDE DEF T
    <3>1. \A k \in 0..(n - 1) : k \in T => k + 1 \in T
      BY <1>3
    <3> HIDE DEF n
    <3>2. \A k \in 0..n : k \in T
      BY <1>1, <1>2, <3>1, UpTo
    <3> QED
      BY <1>1, <3>2
  <2> HIDE DEF Fits
  <2> QED
    BY <2>1
<1>5. f = [i \in 0..n |-> IF i = 0 THEN 0 ELSE f[i - 1] + w[i]]
  BY <1>1, <1>4
<1>6. Sums(w) = [i \in 0..n |-> IF i = 0 THEN 0 ELSE Sums(w)[i - 1] + w[i]]
  BY <1>5 DEF Sums
<1> DEFINE Typed == {i \in 0..n : Sums(w)[i] \in Nat}
<1>7. 0 \in Typed
  BY <1>1, <1>6
<1>8. ASSUME NEW i \in 0..(n - 1), i \in Typed PROVE i + 1 \in Typed
  <2>1. /\ i + 1 \in 0..n /\ i + 1 # 0 /\ (i + 1) - 1 = i
        /\ w[i + 1] \in Nat
    BY <1>1
  <2>2. Sums(w)[i + 1] = Sums(w)[i] + w[i + 1]
    BY <1>6, <2>1
  <2> QED
    BY <1>8, <2>1, <2>2
<1>9. \A i \in 0..n : i \in Typed
  <2> HIDE DEF Typed, n
  <2> QED
    BY <1>1, <1>7, <1>8, UpTo
<1>10. \A i \in 0..n : Sums(w)[i] \in Nat
  BY <1>9
<1>11. \A i \in 1..n : i \in 0..n /\ i # 0
  BY <1>1
<1> HIDE DEF n
<1>12. \A i \in 1..n : Sums(w)[i] = Sums(w)[i - 1] + w[i]
  BY <1>6, <1>11
<1>13. Sums(w) \in [0..n -> Nat] /\ Sums(w)[0] = 0
  BY <1>1, <1>6, <1>10
<1> QED
  BY <1>12, <1>13 DEF n

\* They rise with every positive weight.
LEMMA SumsRise ==
  ASSUME NEW w \in Seq(Nat \ {0}), NEW i \in 0..Len(w), NEW j \in 0..Len(w), i < j
  PROVE  Sums(w)[i] < Sums(w)[j]
<1> DEFINE n == Len(w)
           T == {k \in 0..n : i < k => Sums(w)[i] < Sums(w)[k]}
<1>1. /\ n \in Nat /\ \A k \in 1..n : w[k] \in Nat \ {0}
      /\ \A k \in 0..n : Sums(w)[k] \in Nat
      /\ \A k \in 1..n : Sums(w)[k] = Sums(w)[k - 1] + w[k]
  <2>1. n \in Nat /\ \A k \in 1..n : w[k] \in Nat \ {0}
    OBVIOUS
  <2>2. w \in Seq(Nat)
    OBVIOUS
  <2>3. Sums(w) \in [0..n -> Nat] /\ \A k \in 1..n : Sums(w)[k] = Sums(w)[k - 1] + w[k]
    BY <2>2, SumsDef
  <2> QED
    BY <2>1, <2>3
<1>2. 0 \in T
  BY <1>1
<1>3. ASSUME NEW k \in 0..(n - 1), k \in T PROVE k + 1 \in T
  <2>1. /\ k + 1 \in 1..n /\ k + 1 \in 0..n /\ (k + 1) - 1 = k /\ k \in 0..n
        /\ i < k + 1 => i = k \/ i < k
    BY <1>1
  <2>2. Sums(w)[k + 1] = Sums(w)[k] + w[k + 1] /\ w[k + 1] \in Nat \ {0}
    BY <1>1, <2>1
  <2>3. Sums(w)[k] \in Nat /\ Sums(w)[i] \in Nat
    BY <1>1, <2>1
  <2>4. i < k + 1 => Sums(w)[i] <= Sums(w)[k]
    BY <1>3, <2>1, <2>3
  <2>5. i < k + 1 => Sums(w)[i] < Sums(w)[k + 1]
    BY <2>2, <2>3, <2>4
  <2> QED
    BY <2>1, <2>5
<1>4. j \in T
  <2>1. j \in 0..n
    OBVIOUS
  <2>2. \A k \in 0..(n - 1) : k \in T => k + 1 \in T
    BY <1>3
  <2> HIDE DEF T, n
  <2> QED
    BY <1>1, <1>2, <2>1, <2>2, UpTo
<1> QED
  BY <1>4

----------------------------------------------------------------------------
(* The progress nodes.                                                     *)

\* The quotient that rounds a node down.
LEMMA Quotients ==
  ASSUME NEW a \in Nat, NEW t \in Nat, t > 0
  PROVE  /\ a \div t \in Nat /\ t * (a \div t) <= a
         /\ a < t * (a \div t) + t
OBVIOUS

\* It rises with the dividend.
LEMMA QuotientsRise ==
  ASSUME NEW a \in Nat, NEW b \in Nat, NEW t \in Nat, t > 0, a <= b
  PROVE  a \div t <= b \div t
BY Quotients

\* A share of less than the whole is less than all.
LEMMA ShareBelow ==
  ASSUME NEW a \in Nat, NEW c \in Nat, NEW t \in Nat, t > 0, a < t
  PROVE  (a * c) \div t <= c /\ (c > 0 => (a * c) \div t < c)
BY Quotients

\* A product rises with its factor.
LEMMA ProductsRise ==
  ASSUME NEW a \in Nat, NEW b \in Nat, NEW c \in Nat, a <= b
  PROVE  a * c <= b * c /\ a * c \in Nat
OBVIOUS

\* The nodes of n partitions lie between the start and max and rise, and only the
\* last one may be 100.
NodesRise(nodes, n, max) ==
  /\ nodes \in Seq(Nat) /\ Len(nodes) = n
  /\ \A i \in 1..n : Start <= nodes[i] /\ nodes[i] <= max
  /\ \A i \in 1..n : i < n => nodes[i] < 100
  /\ \A i, j \in 1..n : i <= j => nodes[i] <= nodes[j]

\* ota_progress_list of gen_full_sh rises from the start to max, and its nodes before
\* the last are below 100.
THEOREM FullProgressRises ==
  ASSUME NEW w \in Seq(Nat \ {0}), Len(w) > 0, NEW max \in Start..100
  PROVE  NodesRise(full_progress(w, max), Len(w), max)
<1> DEFINE n == Len(w)
           nodes == full_progress(w, max)
           c == max - Start
           t == Total(w)
           share(i) == (Sum1(w, i) * c) \div t
<1>1. n \in Nat /\ n > 0 /\ DOMAIN w = 1..n /\ c \in Nat /\ Start = 30
  BY DEF Start
<1>2. /\ \A i \in 0..n : Sum1(w, i) \in Nat
      /\ \A i, j \in 0..n : i < j => Sum1(w, i) < Sum1(w, j)
      /\ t = Sum1(w, n)
  <2>1. w \in Seq(Nat)
    OBVIOUS
  <2> QED
    BY <2>1, SumsDef, SumsRise DEF Sum1, Total
<1> HIDE DEF n, c, t
<1>3. t \in Nat /\ t > 0
  BY <1>1, <1>2
<1>4. \A i \in 1..n : i < n => /\ share(i) \in Nat
                               /\ share(i) <= c /\ (c > 0 => share(i) < c)
  <2> SUFFICES ASSUME NEW i \in 1..n, i < n
               PROVE /\ share(i) \in Nat
                     /\ share(i) <= c /\ (c > 0 => share(i) < c)
    OBVIOUS
  <2>1. Sum1(w, i) \in Nat /\ Sum1(w, i) < t
    BY <1>1, <1>2
  <2>2. Sum1(w, i) * c \in Nat
    BY <2>1, <1>1
  <2> QED
    BY <1>1, <1>3, <2>1, <2>2, Quotients, ShareBelow
<1>5. \A i, j \in 1..n : i <= j /\ j < n => share(i) <= share(j)
  <2> SUFFICES ASSUME NEW i \in 1..n, NEW j \in 1..n, i <= j, j < n
               PROVE  share(i) <= share(j)
    OBVIOUS
  <2>1. Sum1(w, i) \in Nat /\ Sum1(w, j) \in Nat /\ Sum1(w, i) <= Sum1(w, j)
    <3>1. i \in 0..n /\ j \in 0..n /\ (i = j \/ i < j)
      BY <1>1
    <3> QED
      BY <1>2, <3>1
  <2>2. /\ Sum1(w, i) * c \in Nat /\ Sum1(w, j) * c \in Nat
        /\ Sum1(w, i) * c <= Sum1(w, j) * c
    BY <2>1, <1>1, ProductsRise
  <2> QED
    BY <1>3, <2>2, QuotientsRise
<1>6. nodes = [i \in 1..n |-> IF i = n THEN max ELSE 30 + share(i)]
  BY <1>1 DEF full_progress, n, t, c, Start
<1> HIDE DEF nodes, share
<1>7. max = 30 + c /\ max \in Nat /\ c \in Nat /\ c <= 70
  BY <1>1 DEF c
<1>8. \A i \in 1..n : /\ nodes[i] \in Nat /\ 30 <= nodes[i] /\ nodes[i] <= max
                      /\ i < n => nodes[i] < 100
  BY <1>1, <1>4, <1>6, <1>7
<1>9. \A i, j \in 1..n : i <= j => nodes[i] <= nodes[j]
  BY <1>1, <1>4, <1>5, <1>6, <1>7
<1>10. nodes \in Seq(Nat) /\ Len(nodes) = n
  BY <1>1, <1>6, <1>8
<1> QED
  BY <1>1, <1>8, <1>9, <1>10 DEF NodesRise, nodes, n

----------------------------------------------------------------------------
(* The lines for one partition after the other.                            *)

\* FlattenSeq appends the sequences one by one.
LEMMA FlattenSteps ==
  ASSUME NEW S, NEW seqs \in Seq(Seq(S)), Len(seqs) > 0
  PROVE  \E f \in [1..Len(seqs) -> Seq(S)] :
           /\ f[1] = seqs[1] /\ FlattenSeq(seqs) = f[Len(seqs)]
           /\ \A i \in 2..Len(seqs) : f[i] = f[i - 1] \o seqs[i]
<1> DEFINE n == Len(seqs)
           Add(s, i) == s \o seqs[i]
           Fits(f, k) == f[1] = seqs[1] /\ \A i \in 2..k : f[i] = Add(f[i - 1], i)
           T == {k \in 0..n : \E f \in [1..(k + 1) -> Seq(S)] : Fits(f, k + 1)}
<1>1. /\ n \in Nat /\ n > 0 /\ \A i \in 1..n : seqs[i] \in Seq(S)
      /\ \A i \in 1..n : \A s \in Seq(S) : Add(s, i) \in Seq(S)
  OBVIOUS
<1> HIDE DEF Add, n
<1>2. 0 \in T
  <2> DEFINE z == [i \in 1..1 |-> seqs[1]]
  <2>1. z \in [1..1 -> Seq(S)] /\ Fits(z, 1) /\ 0 \in 0..n
    BY <1>1
  <2> HIDE DEF z, Fits
  <2>2. \E f \in [1..(0 + 1) -> Seq(S)] : Fits(f, 0 + 1)
    BY <2>1
  <2> QED
    BY <2>1, <2>2
<1>3. ASSUME NEW k \in 0..((n - 1) - 1), k \in T PROVE k + 1 \in T
  <2>1. PICK f \in [1..(k + 1) -> Seq(S)] : Fits(f, k + 1)
    BY <1>3
  <2> DEFINE m == k + 1
             g == [i \in 1..(m + 1) |-> IF i <= m THEN f[i] ELSE Add(f[m], m + 1)]
  <2>2. m \in Nat /\ m > 0 /\ m + 1 \in 2..n /\ m \in 0..n
    BY <1>1
  <2> HIDE DEF m
  <2>3. f \in [1..m -> Seq(S)] /\ Fits(f, m)
    BY <2>1 DEF m
  <2>4. f[m] \in Seq(S) /\ Add(f[m], m + 1) \in Seq(S)
    BY <1>1, <2>2, <2>3
  <2>5. g \in [1..(m + 1) -> Seq(S)]
    BY <2>2, <2>3, <2>4
  <2>6. Fits(g, m + 1)
    <3>1. g[1] = seqs[1]
      BY <2>2, <2>3
    <3>2. ASSUME NEW i \in 2..(m + 1) PROVE g[i] = Add(g[i - 1], i)
      <4>1. CASE i = m + 1
        BY <2>2, <4>1
      <4>2. CASE i # m + 1
        BY <2>2, <2>3, <4>2
      <4> QED
        BY <4>1, <4>2
    <3> HIDE DEF g
    <3> QED
      BY <3>1, <3>2
  <2> HIDE DEF g, Fits
  <2>7. \E f_1 \in [1..(m + 1) -> Seq(S)] : Fits(f_1, m + 1)
    BY <2>5, <2>6
  <2> QED
    BY <2>2, <2>7 DEF m
<1>4. PICK f \in [1..n -> Seq(S)] : Fits(f, n)
  <2>1. n - 1 \in T
    <3> HIDE DEF T
    <3>1. \A k \in 0..((n - 1) - 1) : k \in T => k + 1 \in T
      BY <1>3
    <3>2. n - 1 \in Nat /\ n - 1 \in 0..(n - 1)
      BY <1>1
    <3> QED
      BY <1>2, <3>1, <3>2, UpTo
  <2>2. (n - 1) + 1 = n
    BY <1>1
  <2> HIDE DEF Fits
  <2> QED
    BY <2>1, <2>2
<1> DEFINE flatten[i \in 1..n] == IF i = 1 THEN seqs[i] ELSE Add(flatten[i - 1], i)
<1>5. f = [i \in 1..n |-> IF i = 1 THEN seqs[i] ELSE Add(f[i - 1], i)]
  BY <1>1, <1>4
<1>6. flatten = [i \in 1..n |-> IF i = 1 THEN seqs[i] ELSE Add(flatten[i - 1], i)]
  BY <1>5
<1>7. FlattenSeq(seqs) = flatten[n]
  BY <1>1 DEF FlattenSeq, Add, n
<1> HIDE DEF flatten
<1>8. flatten[1] = seqs[1] /\ \A i \in 2..n : flatten[i] = Add(flatten[i - 1], i)
  BY <1>1, <1>6
<1> DEFINE Typed == {k \in 0..n : flatten[k + 1] \in Seq(S)}
<1>9. \A k \in 0..(n - 1) : k \in Typed
  <2>1. 0 \in Typed
    BY <1>1, <1>8
  <2>2. \A k \in 0..((n - 1) - 1) : k \in Typed => k + 1 \in Typed
    <3> SUFFICES ASSUME NEW k \in 0..((n - 1) - 1), k \in Typed PROVE k + 1 \in Typed
      OBVIOUS
    <3>1. (k + 1) + 1 \in 2..n /\ ((k + 1) + 1) - 1 = k + 1 /\ k + 1 \in 0..n
      BY <1>1
    <3> QED
      BY <1>1, <1>8, <3>1
  <2>3. n - 1 \in Nat
    BY <1>1
  <2> HIDE DEF Typed
  <2> QED
    BY <2>1, <2>2, <2>3, UpTo
<1>10. flatten \in [1..n -> Seq(S)]
  <2>1. \A i \in 1..n : i - 1 \in 0..(n - 1) /\ (i - 1) + 1 = i
    BY <1>1
  <2>2. \A i \in 1..n : flatten[i] \in Seq(S)
    BY <1>9, <2>1
  <2> QED
    BY <1>6, <2>2
<1> QED
  BY <1>7, <1>8, <1>10 DEF Add, n

\* The instructions of ota.sh.
Op == {"current", "next", "version", "device", "dd", "verify", "ddelta", "unless", "user"}
Instruction == [op : Op, val : Nat]

\* What the lines for partition i are.
Lines(first, nodes, i) == <<first[i]>> \o Report(nodes, i)

\* The first lines of b are those for partitions 1 to i, three for each.
LinesUpTo(b, first, nodes, i) ==
  /\ b \in Seq(Instruction) /\ Len(b) = IF i < Len(nodes) THEN 3 * i ELSE 3 * i - 1
  /\ \A j \in 1..i : /\ b[3 * j - 2] = first[j]
                     /\ b[3 * j - 1] = SetCurrent(nodes[j])
                     /\ j < Len(nodes) => b[3 * j] = SetNext(nodes[j + 1])

\* l is what the loop writes for partition i.
IsLines(l, first, nodes, i) ==
  /\ l \in Seq(Instruction) /\ Len(l) = IF i < Len(nodes) THEN 3 ELSE 2
  /\ l[1] = first[i] /\ l[2] = SetCurrent(nodes[i])
  /\ i < Len(nodes) => l[3] = SetNext(nodes[i + 1])

\* Where the elements of a concatenation come from.
LEMMA ConcatParts ==
  ASSUME NEW S, NEW s \in Seq(S), NEW t \in Seq(S)
  PROVE  /\ s \o t \in Seq(S) /\ Len(s \o t) = Len(s) + Len(t)
         /\ \A i \in 1..Len(s) : (s \o t)[i] = s[i]
         /\ \A i \in 1..Len(t) : (s \o t)[Len(s) + i] = t[i]
<1>1. Len(s) \in Nat /\ Len(t) \in Nat
  OBVIOUS
<1>2. /\ s \o t \in Seq(S) /\ Len(s \o t) = Len(s) + Len(t)
      /\ \A i \in 1..(Len(s) + Len(t)) :
           (s \o t)[i] = IF i <= Len(s) THEN s[i] ELSE t[i - Len(s)]
  BY ConcatProperties
<1> DEFINE c == s \o t
<1>3. \A i \in 1..(Len(s) + Len(t)) : c[i] = IF i <= Len(s) THEN s[i] ELSE t[i - Len(s)]
  BY <1>2
<1> HIDE DEF c
<1>4. \A i \in 1..Len(s) : c[i] = s[i]
  BY <1>1, <1>3
<1>5. \A i \in 1..Len(t) : c[Len(s) + i] = t[i]
  <2> SUFFICES ASSUME NEW i \in 1..Len(t) PROVE c[Len(s) + i] = t[i]
    OBVIOUS
  <2>1. /\ Len(s) + i \in 1..(Len(s) + Len(t)) /\ ~ (Len(s) + i <= Len(s))
        /\ (Len(s) + i) - Len(s) = i
    BY <1>1
  <2> QED
    BY <1>3, <2>1
<1> QED
  BY <1>2, <1>4, <1>5 DEF c

\* One instruction.
LEMMA Single ==
  ASSUME NEW S, NEW x \in S
  PROVE  <<x>> \in Seq(S) /\ Len(<<x>>) = 1 /\ <<x>>[1] = x
OBVIOUS

\* Three instructions.
LEMMA Triple ==
  ASSUME NEW S, NEW x \in S, NEW y \in S, NEW z \in S
  PROVE  <<x, y, z>> \in Seq(S)
OBVIOUS

\* An instruction in front of others.
LEMMA InFront ==
  ASSUME NEW S, NEW x \in S, NEW s \in Seq(S)
  PROVE  /\ <<x>> \o s \in Seq(S) /\ Len(<<x>> \o s) = 1 + Len(s)
         /\ (<<x>> \o s)[1] = x
         /\ \A i \in 1..Len(s) : (<<x>> \o s)[1 + i] = s[i]
<1> DEFINE h == <<x>>
<1>1. h \in Seq(S) /\ Len(h) = 1 /\ h[1] = x
  BY Single
<1> HIDE DEF h
<1>2. /\ h \o s \in Seq(S) /\ Len(h \o s) = 1 + Len(s)
      /\ \A i \in 1..1 : (h \o s)[i] = h[i]
      /\ \A i \in 1..Len(s) : (h \o s)[1 + i] = s[i]
  BY <1>1, ConcatParts
<1>3. (h \o s)[1] = x
  BY <1>1, <1>2
<1> QED
  BY <1>2, <1>3 DEF h

\* No lines are the empty sequence.
LEMMA NoLines ==
  ASSUME NEW f, DOMAIN f = 1..0, f = [i \in DOMAIN f |-> f[i]] PROVE f = <<>>
<1>1. f \in [1..0 -> {}]
  OBVIOUS
<1>2. f \in Seq({}) /\ Len(f) = 0
  BY <1>1
<1> QED
  BY <1>2, EmptySeq

\* Two instructions in front of others, at once or one by one.
LEMMA TwoInFront ==
  ASSUME NEW S, NEW x \in S, NEW y \in S, NEW z \in Seq(S)
  PROVE  <<x, y>> \o z = <<x>> \o (<<y>> \o z)
<1> DEFINE h == <<x, y>>
           t == <<y>> \o z
<1>1. h \in Seq(S) /\ Len(h) = 2 /\ h[1] = x /\ h[2] = y
  OBVIOUS
<1>2. /\ t \in Seq(S) /\ Len(t) = 1 + Len(z) /\ t[1] = y
      /\ \A i \in 1..Len(z) : t[1 + i] = z[i]
  BY InFront
<1> HIDE DEF h, t
<1> DEFINE u == <<x>> \o t
           v == h \o z
<1>3. /\ u \in Seq(S) /\ Len(u) = 1 + Len(t) /\ u[1] = x
      /\ \A i \in 1..Len(t) : u[1 + i] = t[i]
  <2>1. t \in Seq(S)
    BY <1>2
  <2> QED
    BY <2>1, InFront
<1>4. /\ v \in Seq(S) /\ Len(v) = Len(h) + Len(z)
      /\ \A i \in 1..Len(h) : v[i] = h[i]
      /\ \A i \in 1..Len(z) : v[Len(h) + i] = z[i]
  <2>1. h \in Seq(S)
    BY <1>1
  <2> QED
    BY <2>1, ConcatParts
<1> HIDE DEF u, v
<1>5. Len(z) \in Nat /\ Len(u) = Len(v) /\ Len(u) = 2 + Len(z)
  BY <1>1, <1>2, <1>3, <1>4
<1>6. ASSUME NEW i \in 1..Len(u) PROVE u[i] = v[i]
  <2>1. CASE i = 1
    BY <1>1, <1>3, <1>4, <2>1
  <2>2. CASE i = 2
    <3>1. 1 \in 1..Len(t) /\ 1 + 1 = 2
      BY <1>2, <1>5
    <3>2. u[1 + 1] = t[1]
      BY <1>3, <3>1
    <3> QED
      BY <1>1, <1>2, <1>4, <2>2, <3>2
  <2>3. CASE i > 2
    <3>1. /\ i - 2 \in 1..Len(z) /\ i - 1 \in 1..Len(t) /\ 1 + (i - 1) = i
          /\ 1 + (i - 2) = i - 1 /\ Len(h) + (i - 2) = i
      BY <1>1, <1>2, <1>5, <2>3
    <3>2. u[1 + (i - 1)] = t[i - 1] /\ t[1 + (i - 2)] = z[i - 2]
      BY <1>2, <1>3, <3>1
    <3>3. v[Len(h) + (i - 2)] = z[i - 2]
      BY <1>4, <3>1
    <3> QED
      BY <3>1, <3>2, <3>3
  <2> QED
    BY <1>5, <2>1, <2>2, <2>3
<1>7. u = v
  BY <1>3, <1>4, <1>5, <1>6, SeqEqual
<1> QED
  BY <1>7 DEF u, v, h, t

\* The lines for one partition have that form.
LEMMA LinesForm ==
  ASSUME NEW n \in Nat, NEW first \in [1..n -> Instruction],
         NEW nodes \in Seq(Nat), Len(nodes) = n, NEW i \in 1..n
  PROVE  IsLines(Lines(first, nodes, i), first, nodes, i)
<1>1. /\ first[i] \in Instruction /\ SetCurrent(nodes[i]) \in Instruction
      /\ i < n => SetNext(nodes[i + 1]) \in Instruction
  <2>1. nodes[i] \in Nat /\ (i < n => nodes[i + 1] \in Nat)
    OBVIOUS
  <2>2. \A v \in Nat : SetCurrent(v) \in Instruction /\ SetNext(v) \in Instruction
    BY DEF SetCurrent, SetNext, Instruction, Op
  <2>3. first[i] \in Instruction
    OBVIOUS
  <2> QED
    BY <2>1, <2>2, <2>3
<1> DEFINE x == first[i]
           y == SetCurrent(nodes[i])
           z == IF i < n THEN <<SetNext(nodes[i + 1])>> ELSE <<>>
<1>2. Lines(first, nodes, i) = <<x>> \o (<<y>> \o z)
  BY DEF Lines, Report
<1>3. /\ z \in Seq(Instruction) /\ Len(z) = IF i < n THEN 1 ELSE 0
      /\ i < n => z[1] = SetNext(nodes[i + 1])
  BY <1>1
<1> HIDE DEF x, y, z
<1>4. x \in Instruction /\ y \in Instruction
  BY <1>1 DEF x, y
<1> DEFINE t == <<y>> \o z
<1>5. /\ t \in Seq(Instruction) /\ Len(t) = 1 + Len(z) /\ t[1] = y
      /\ \A k \in 1..Len(z) : t[1 + k] = z[k]
  <2>1. y \in Instruction /\ z \in Seq(Instruction)
    BY <1>3, <1>4
  <2> QED
    BY <2>1, InFront
<1> HIDE DEF t
<1> DEFINE l == <<x>> \o t
<1>6. /\ l \in Seq(Instruction) /\ Len(l) = 1 + Len(t) /\ l[1] = x
      /\ \A k \in 1..Len(t) : l[1 + k] = t[k]
  BY <1>4, <1>5, InFront
<1> HIDE DEF l
<1>7. Len(l) = (IF i < n THEN 3 ELSE 2) /\ l[2] = y
  <2>1. 1 \in 1..Len(t) /\ 1 + 1 = 2
    BY <1>3, <1>5
  <2>2. l[1 + 1] = y
    BY <1>5, <1>6, <2>1
  <2> QED
    BY <1>3, <1>5, <1>6, <2>2
<1>8. i < n => l[3] = SetNext(nodes[i + 1])
  <2> SUFFICES ASSUME i < n PROVE l[3] = SetNext(nodes[i + 1])
    OBVIOUS
  <2>1. 2 \in 1..Len(t) /\ 1 \in 1..Len(z) /\ 1 + 2 = 3 /\ 1 + 1 = 2
    BY <1>3, <1>5
  <2>2. l[1 + 2] = t[1 + 1] /\ t[1 + 1] = z[1]
    BY <1>5, <1>6, <2>1
  <2> QED
    BY <1>3, <2>2
<1> QED
  BY <1>2, <1>6, <1>7, <1>8 DEF l, t, x, y, IsLines

\* One turn of that loop.
LEMMA LoopTurn ==
  ASSUME NEW first, NEW nodes, NEW n \in Nat, Len(nodes) = n,
         NEW m \in Nat, m > 0, m < n, NEW b, NEW l,
         LinesUpTo(b, first, nodes, m), IsLines(l, first, nodes, m + 1)
  PROVE  LinesUpTo(b \o l, first, nodes, m + 1)
<1>1. /\ b \in Seq(Instruction) /\ Len(b) = 3 * m
      /\ l \in Seq(Instruction) /\ Len(l) = IF m + 1 < n THEN 3 ELSE 2
  BY DEF LinesUpTo, IsLines
<1> DEFINE c == b \o l
<1>2. /\ c \in Seq(Instruction) /\ Len(c) = Len(b) + Len(l)
      /\ \A i \in 1..(Len(b) + Len(l)) : c[i] = IF i <= Len(b) THEN b[i] ELSE l[i - Len(b)]
  BY <1>1, ConcatProperties
<1> HIDE DEF c
<1>3. Len(c) = IF m + 1 < n THEN 3 * (m + 1) ELSE 3 * (m + 1) - 1
  <2>1. Len(c) = 3 * m + (IF m + 1 < n THEN 3 ELSE 2)
    BY <1>1, <1>2
  <2> QED
    BY <2>1
<1>4. \A i \in 1..(3 * m) : c[i] = b[i]
  BY <1>1, <1>2
<1>5. /\ c[3 * m + 1] = l[1] /\ c[3 * m + 2] = l[2]
      /\ m + 1 < n => c[3 * m + 3] = l[3]
  <2>1. /\ 3 * m + 1 \in 1..(Len(b) + Len(l)) /\ 3 * m + 2 \in 1..(Len(b) + Len(l))
        /\ m + 1 < n => 3 * m + 3 \in 1..(Len(b) + Len(l))
    BY <1>1
  <2>2. \A d \in 1..3 : ~ (3 * m + d <= Len(b)) /\ (3 * m + d) - Len(b) = d
    BY <1>1
  <2> QED
    BY <1>2, <2>1, <2>2
<1>6. ASSUME NEW j \in 1..(m + 1)
      PROVE  /\ c[3 * j - 2] = first[j] /\ c[3 * j - 1] = SetCurrent(nodes[j])
             /\ j < n => c[3 * j] = SetNext(nodes[j + 1])
  <2>1. CASE j <= m
    <3>1. /\ 3 * j - 2 \in 1..(3 * m) /\ 3 * j - 1 \in 1..(3 * m) /\ 3 * j \in 1..(3 * m)
          /\ j \in 1..m
      BY <2>1
    <3>2. /\ b[3 * j - 2] = first[j] /\ b[3 * j - 1] = SetCurrent(nodes[j])
          /\ j < n => b[3 * j] = SetNext(nodes[j + 1])
      BY <3>1 DEF LinesUpTo
    <3> QED
      BY <1>4, <3>1, <3>2
  <2>2. CASE j = m + 1
    <3>1. 3 * j - 2 = 3 * m + 1 /\ 3 * j - 1 = 3 * m + 2 /\ 3 * j = 3 * m + 3
      BY <2>2
    <3>2. /\ l[1] = first[j] /\ l[2] = SetCurrent(nodes[j])
          /\ j < n => l[3] = SetNext(nodes[j + 1])
      BY <2>2 DEF IsLines
    <3> QED
      BY <1>5, <2>2, <3>1, <3>2
  <2> QED
    BY <2>1, <2>2
<1> QED
  BY <1>2, <1>3, <1>6 DEF LinesUpTo, c

\* The loop of both generators writes the lines for all partitions.
LEMMA LoopForm ==
  ASSUME NEW n \in Nat, n > 0, NEW first \in [1..n -> Instruction],
         NEW nodes \in Seq(Nat), Len(nodes) = n
  PROVE  LinesUpTo(FlattenSeq([i \in 1..n |-> Lines(first, nodes, i)]), first, nodes, n)
<1> DEFINE seqs == [i \in 1..n |-> Lines(first, nodes, i)]
<1>1. \A i \in 1..n : IsLines(seqs[i], first, nodes, i)
  BY LinesForm
<1>2. seqs \in Seq(Seq(Instruction)) /\ Len(seqs) = n
  <2>1. \A i \in 1..n : Lines(first, nodes, i) \in Seq(Instruction)
    BY LinesForm DEF IsLines
  <2> QED
    BY <2>1
<1> HIDE DEF seqs
<1>3. PICK f \in [1..n -> Seq(Instruction)] :
        /\ f[1] = seqs[1] /\ FlattenSeq(seqs) = f[n]
        /\ \A i \in 2..n : f[i] = f[i - 1] \o seqs[i]
  <2>1. Len(seqs) > 0
    BY <1>2
  <2>2. \E f \in [1..Len(seqs) -> Seq(Instruction)] :
          /\ f[1] = seqs[1] /\ FlattenSeq(seqs) = f[Len(seqs)]
          /\ \A i \in 2..Len(seqs) : f[i] = f[i - 1] \o seqs[i]
    BY <1>2, <2>1, FlattenSteps
  <2> QED
    BY <1>2, <2>2
<1> DEFINE T == {k \in 0..n : LinesUpTo(f[k + 1], first, nodes, k + 1)}
<1>4. 0 \in T
  <2>1. LinesUpTo(seqs[1], first, nodes, 1)
    <3>1. 1 \in 1..n /\ IsLines(seqs[1], first, nodes, 1)
      BY <1>1
    <3>2. \A j \in 1..1 : j = 1 /\ 3 * j - 2 = 1 /\ 3 * j - 1 = 2 /\ 3 * j = 3
      OBVIOUS
    <3> QED
      BY <3>1, <3>2 DEF LinesUpTo, IsLines
  <2> QED
    BY <1>3, <2>1
<1>5. ASSUME NEW k \in 0..((n - 1) - 1), k \in T PROVE k + 1 \in T
  <2>1. /\ k + 1 \in Nat /\ k + 1 > 0 /\ k + 1 < n /\ (k + 1) + 1 \in 2..n
        /\ (k + 1) + 1 \in 1..n /\ ((k + 1) + 1) - 1 = k + 1 /\ k + 1 \in 0..n
    OBVIOUS
  <2>2. f[(k + 1) + 1] = f[k + 1] \o seqs[(k + 1) + 1]
    BY <1>3, <2>1
  <2>3. LinesUpTo(f[k + 1], first, nodes, k + 1)
    BY <1>5
  <2>4. IsLines(seqs[(k + 1) + 1], first, nodes, (k + 1) + 1)
    BY <1>1, <2>1
  <2>5. LinesUpTo(f[(k + 1) + 1], first, nodes, (k + 1) + 1)
    BY <2>1, <2>2, <2>3, <2>4, LoopTurn
  <2> QED
    BY <2>1, <2>5
<1>6. n - 1 \in T
  <2>1. n - 1 \in Nat /\ n - 1 \in 0..(n - 1)
    OBVIOUS
  <2>2. \A k \in 0..((n - 1) - 1) : k \in T => k + 1 \in T
    BY <1>5
  <2> HIDE DEF T
  <2> QED
    BY <1>4, <2>1, <2>2, UpTo
<1>7. (n - 1) + 1 = n
  OBVIOUS
<1>8. LinesUpTo(f[n], first, nodes, n)
  BY <1>6, <1>7
<1> QED
  BY <1>3, <1>8 DEF seqs
----------------------------------------------------------------------------
(* The whole script.                                                       *)

\* The places of the instructions of a script of some kinds, and of those that write.
Instructions(s, ops) == {k \in DOMAIN s : s[k].op \in ops}
Writes(s) == Instructions(s, {"dd", "verify", "ddelta"})

\* Some guard of the script passes over instruction k on the way to m.
Skips(s, k, m) ==
  \E g \in Instructions(s, {"unless"}) :
    g < k /\ k <= g + s[g].val /\ g + s[g].val < m

\* Progress is at most 100, guards stay inside the script, partitions are written
\* once, and 100 is reported only where the writes of all of them lie behind.
Reports(s, partitions) ==
  /\ s \in Seq(Instruction)
  /\ \A k \in Instructions(s, {"current", "next"}) : s[k].val <= 100
  /\ \A g \in Instructions(s, {"unless"}) : g + s[g].val <= Len(s)
  /\ \A w \in Writes(s) : s[w].val \in partitions
  /\ \A v, w \in Writes(s) : s[v].val = s[w].val => v = w
  /\ \A k \in Instructions(s, {"current"}) : s[k].val = 100 =>
       /\ \A w \in Writes(s) : w < k /\ ~ Skips(s, w, k)
       /\ \A p \in partitions : \E w \in Writes(s) : s[w].val = p

\* Both properties rise, and where the script may report a failure the next node
\* is not below the current one.
Rises(s) ==
  /\ \A op \in {"current", "next"} : \A j, k \in Instructions(s, {op}) :
       j < k => s[j].val <= s[k].val
  /\ \A k \in Instructions(s, {"version", "device", "ddelta"}) :
       \A c \in Instructions(s, {"current"}) : c < k =>
         \E m \in Instructions(s, {"next"}) :
           m < k /\ s[c].val <= s[m].val /\ ~ Skips(s, m, k)

\* A script of n partitions: its head ends at q and announces the first node at c
\* and c + 1, three lines for each partition follow, and the user's script if end.
Layout(s, first, nodes, n, c, q, end) ==
  /\ n \in Nat /\ n > 0 /\ c \in Nat /\ c > 0 /\ q \in Nat /\ c + 1 <= q
  /\ end \in BOOLEAN /\ first \in [1..n -> Instruction]
  /\ \A j \in 1..n : first[j].op \in {"dd", "verify", "ddelta"} /\ first[j].val = j
  /\ s \in Seq(Instruction) /\ Len(s) = IF end THEN q + 3 * n + 2 ELSE q + 3 * n - 1
  /\ s[c] = SetCurrent(Start) /\ s[c + 1] = SetNext(nodes[1])
  /\ \A k \in 1..q : k \notin {c, c + 1} =>
       /\ s[k].op \in {"user", "version", "device", "unless"}
       /\ s[k].op = "unless" => k = q /\ s[k].val = 3 * n - 1 /\ ~ end
  /\ \A j \in 1..n : /\ s[q + (3 * j - 2)] = first[j]
                     /\ s[q + (3 * j - 1)] = SetCurrent(nodes[j])
                     /\ j < n => s[q + 3 * j] = SetNext(nodes[j + 1])
  /\ end => /\ s[q + 3 * n] = SetNext(100)
            /\ s[q + (3 * n + 1)] = UserScript
            /\ s[q + (3 * n + 2)] = SetCurrent(100)

\* Every line of such a script is one of these.
LEMMA LineKinds ==
  ASSUME NEW s, NEW first, NEW nodes, NEW n, NEW c, NEW q, NEW end,
         Layout(s, first, nodes, n, c, q, end),
         NEW k \in DOMAIN s
  PROVE  \/ k = c \/ k = c + 1
         \/ k \in 1..q /\ k \notin {c, c + 1}
         \/ \E j \in 1..n : k = q + (3 * j - 2)
         \/ \E j \in 1..n : k = q + (3 * j - 1)
         \/ \E j \in 1..n : j < n /\ k = q + 3 * j
         \/ end /\ k \in {q + 3 * n, q + (3 * n + 1), q + (3 * n + 2)}
<1>0. /\ n \in Nat /\ n > 0 /\ c \in Nat /\ c > 0 /\ q \in Nat /\ c + 1 <= q
      /\ end \in BOOLEAN
  BY Zenon DEF Layout
<1> USE <1>0
<1>1. k \in 1..Len(s) /\ Len(s) = IF end THEN q + 3 * n + 2 ELSE q + 3 * n - 1
  <2>1. s \in Seq(Instruction) /\ Len(s) = IF end THEN q + 3 * n + 2 ELSE q + 3 * n - 1
    BY Zenon DEF Layout
  <2> QED
    BY <2>1
<1>2. k \in Nat /\ k > 0 /\ k <= q + 3 * n + 2 /\ (end \/ k <= q + 3 * n - 1)
  BY <1>1
<1>3. CASE k <= q
  BY <1>2, <1>3
<1>4. CASE k > q /\ k <= q + 3 * n - 1
  <2> DEFINE j == (k - q + 2) \div 3
  <2>1. k - q + 2 \in Nat /\ k - q + 2 >= 3 /\ k - q + 2 <= 3 * n + 1
    BY <1>2, <1>4
  <2>2. /\ j \in 1..n
        /\ k = q + (3 * j - 2) \/ k = q + (3 * j - 1) \/ (j < n /\ k = q + 3 * j)
    BY <1>2, <1>4, <2>1
  <2> HIDE DEF j
  <2> QED
    BY <2>2
<1>5. CASE k > q + 3 * n - 1
  BY <1>2, <1>5
<1> QED
  BY <1>2, <1>3, <1>4, <1>5

\* The kinds of its lines.
LEMMA LayoutLines ==
  ASSUME NEW s, NEW first, NEW nodes, NEW n, NEW c, NEW q, NEW end,
         Layout(s, first, nodes, n, c, q, end),
         NEW k \in DOMAIN s
  PROVE  /\ k \in Writes(s) => \E j \in 1..n : k = q + (3 * j - 2) /\ s[k].val = j
         /\ s[k].op = "current" =>
              \/ k = c /\ s[k].val = Start
              \/ \E j \in 1..n : k = q + (3 * j - 1) /\ s[k].val = nodes[j]
              \/ end /\ k = q + (3 * n + 2) /\ s[k].val = 100
         /\ s[k].op = "next" =>
              \/ k = c + 1 /\ s[k].val = nodes[1]
              \/ \E j \in 1..n : j < n /\ k = q + 3 * j /\ s[k].val = nodes[j + 1]
              \/ end /\ k = q + 3 * n /\ s[k].val = 100
         /\ s[k].op = "unless" => k = q /\ s[k].val = 3 * n - 1 /\ ~ end
         /\ s[k].op \in {"version", "device"} => k \in 1..q
<1>0. /\ n \in Nat /\ n > 0 /\ c \in Nat /\ c > 0 /\ q \in Nat /\ c + 1 <= q
      /\ end \in BOOLEAN
  BY Zenon DEF Layout
<1> USE <1>0
<1> DEFINE Goal ==
         /\ k \in Writes(s) => \E j \in 1..n : k = q + (3 * j - 2) /\ s[k].val = j
         /\ s[k].op = "current" =>
              \/ k = c /\ s[k].val = Start
              \/ \E j \in 1..n : k = q + (3 * j - 1) /\ s[k].val = nodes[j]
              \/ end /\ k = q + (3 * n + 2) /\ s[k].val = 100
         /\ s[k].op = "next" =>
              \/ k = c + 1 /\ s[k].val = nodes[1]
              \/ \E j \in 1..n : j < n /\ k = q + 3 * j /\ s[k].val = nodes[j + 1]
              \/ end /\ k = q + 3 * n /\ s[k].val = 100
         /\ s[k].op = "unless" => k = q /\ s[k].val = 3 * n - 1 /\ ~ end
         /\ s[k].op \in {"version", "device"} => k \in 1..q
<1>1. k \in Writes(s) <=> s[k].op \in {"dd", "verify", "ddelta"}
  BY DEF Writes, Instructions
<1>2. CASE k = c \/ k = c + 1
  <2>1. s[c] = SetCurrent(Start) /\ s[c + 1] = SetNext(nodes[1])
    BY Zenon DEF Layout
  <2>2. CASE k = c
    <3>1. s[k].op = "current" /\ s[k].val = Start
      BY <2>1, <2>2 DEF SetCurrent
    <3> QED
      BY <1>1, <2>2, <3>1
  <2>3. CASE k = c + 1
    <3>1. s[k].op = "next" /\ s[k].val = nodes[1]
      BY <2>1, <2>3 DEF SetNext
    <3> QED
      BY <1>1, <2>3, <3>1
  <2> QED
    BY <1>2, <2>2, <2>3
<1>3. CASE k \in 1..q /\ k \notin {c, c + 1}
  <2>1. /\ s[k].op \in {"user", "version", "device", "unless"}
        /\ s[k].op = "unless" => k = q /\ s[k].val = 3 * n - 1 /\ ~ end
    BY <1>3, Zenon DEF Layout
  <2> QED
    BY <1>1, <1>3, <2>1
<1>4. ASSUME NEW j \in 1..n, k = q + (3 * j - 2) PROVE Goal
  <2>1. /\ s[k] = first[j]
        /\ first[j].op \in {"dd", "verify", "ddelta"} /\ first[j].val = j
    BY <1>4, Zenon DEF Layout
  <2>2. s[k].op \in {"dd", "verify", "ddelta"} /\ s[k].val = j
    BY <2>1
  <2> QED
    BY <1>1, <1>4, <2>2
<1>5. ASSUME NEW j \in 1..n, k = q + (3 * j - 1) PROVE Goal
  <2>1. s[k] = SetCurrent(nodes[j])
    BY <1>5, Zenon DEF Layout
  <2>2. s[k].op = "current" /\ s[k].val = nodes[j]
    BY <2>1 DEF SetCurrent
  <2> QED
    BY <1>1, <1>5, <2>2
<1>6. ASSUME NEW j \in 1..n, j < n, k = q + 3 * j PROVE Goal
  <2>1. s[k] = SetNext(nodes[j + 1])
    BY <1>6, Zenon DEF Layout
  <2>2. s[k].op = "next" /\ s[k].val = nodes[j + 1]
    BY <2>1 DEF SetNext
  <2> QED
    BY <1>1, <1>6, <2>2
<1>7. CASE end /\ k \in {q + 3 * n, q + (3 * n + 1), q + (3 * n + 2)}
  <2>1. /\ s[q + 3 * n] = SetNext(100)
        /\ s[q + (3 * n + 1)] = UserScript
        /\ s[q + (3 * n + 2)] = SetCurrent(100)
    BY <1>7, Zenon DEF Layout
  <2>2. CASE k = q + 3 * n
    <3>1. s[k].op = "next" /\ s[k].val = 100
      BY <2>1, <2>2 DEF SetNext
    <3> QED
      BY <1>1, <1>7, <2>2, <3>1
  <2>3. CASE k = q + (3 * n + 1)
    <3>1. s[k].op = "user"
      BY <2>1, <2>3 DEF UserScript
    <3> QED
      BY <1>1, <3>1
  <2>4. CASE k = q + (3 * n + 2)
    <3>1. s[k].op = "current" /\ s[k].val = 100
      BY <2>1, <2>4 DEF SetCurrent
    <3> QED
      BY <1>1, <1>7, <2>4, <3>1
  <2> QED
    BY <1>7, <2>2, <2>3, <2>4
<1> HIDE DEF Goal
<1>8. Goal
  BY <1>2, <1>3, <1>4, <1>5, <1>6, <1>7, LineKinds DEF Goal
<1> QED
  BY <1>8 DEF Goal

\* The lines that the loop surely writes.
LEMMA LayoutHas ==
  ASSUME NEW s, NEW first, NEW nodes, NEW n, NEW c, NEW q, NEW end,
         Layout(s, first, nodes, n, c, q, end)
  PROVE  /\ c + 1 \in Instructions(s, {"next"}) /\ s[c + 1].val = nodes[1]
         /\ \A j \in 1..n : /\ q + (3 * j - 2) \in Writes(s)
                            /\ s[q + (3 * j - 2)].val = j
         /\ \A j \in 1..n : j < n => /\ q + 3 * j \in Instructions(s, {"next"})
                                     /\ s[q + 3 * j].val = nodes[j + 1]
<1>0. /\ n \in Nat /\ n > 0 /\ c \in Nat /\ c > 0 /\ q \in Nat /\ c + 1 <= q
      /\ end \in BOOLEAN
  BY Zenon DEF Layout
<1> USE <1>0
<1>1. DOMAIN s = 1..Len(s) /\ Len(s) \in Nat /\ Len(s) >= q + 3 * n - 1
  <2>1. s \in Seq(Instruction) /\ Len(s) = IF end THEN q + 3 * n + 2 ELSE q + 3 * n - 1
    BY Zenon DEF Layout
  <2> QED
    BY <2>1
<1>2. c + 1 \in Instructions(s, {"next"}) /\ s[c + 1].val = nodes[1]
  <2>1. s[c + 1] = SetNext(nodes[1])
    BY Zenon DEF Layout
  <2>2. c + 1 \in DOMAIN s
    BY <1>1
  <2> QED
    BY <2>1, <2>2 DEF SetNext, Instructions
<1>3. ASSUME NEW j \in 1..n
      PROVE  /\ q + (3 * j - 2) \in Writes(s) /\ s[q + (3 * j - 2)].val = j
             /\ j < n => /\ q + 3 * j \in Instructions(s, {"next"})
                         /\ s[q + 3 * j].val = nodes[j + 1]
  <2>1. /\ s[q + (3 * j - 2)] = first[j] /\ (j < n => s[q + 3 * j] = SetNext(nodes[j + 1]))
        /\ first[j].op \in {"dd", "verify", "ddelta"} /\ first[j].val = j
    BY Zenon DEF Layout
  <2>2. q + (3 * j - 2) \in DOMAIN s /\ (j < n => q + 3 * j \in DOMAIN s)
    BY <1>1
  <2>3. q + (3 * j - 2) \in Writes(s) /\ s[q + (3 * j - 2)].val = j
    BY <2>1, <2>2 DEF Writes, Instructions
  <2>4. j < n => q + 3 * j \in Instructions(s, {"next"}) /\ s[q + 3 * j].val = nodes[j + 1]
    BY <2>1, <2>2 DEF SetNext, Instructions
  <2> QED
    BY <2>3, <2>4
<1> QED
  BY <1>2, <1>3
\* The same for the lines of each kind.
LEMMA LayoutKinds ==
  ASSUME NEW s, NEW first, NEW nodes, NEW n, NEW c, NEW q, NEW end,
         Layout(s, first, nodes, n, c, q, end)
  PROVE  /\ \A k \in Writes(s) : \E j \in 1..n : k = q + (3 * j - 2) /\ s[k].val = j
         /\ \A k \in Instructions(s, {"current"}) :
              \/ k = c /\ s[k].val = Start
              \/ \E j \in 1..n : k = q + (3 * j - 1) /\ s[k].val = nodes[j]
              \/ end /\ k = q + (3 * n + 2) /\ s[k].val = 100
         /\ \A k \in Instructions(s, {"next"}) :
              \/ k = c + 1 /\ s[k].val = nodes[1]
              \/ \E j \in 1..n : j < n /\ k = q + 3 * j /\ s[k].val = nodes[j + 1]
              \/ end /\ k = q + 3 * n /\ s[k].val = 100
         /\ \A g \in Instructions(s, {"unless"}) : g = q /\ s[g].val = 3 * n - 1 /\ ~ end
         /\ \A k \in Instructions(s, {"version", "device", "ddelta"}) :
              k \in 1..q \/ \E j \in 1..n : k = q + (3 * j - 2)
<1>0. /\ n \in Nat /\ n > 0 /\ c \in Nat /\ c > 0 /\ q \in Nat /\ c + 1 <= q
      /\ end \in BOOLEAN
  BY Zenon DEF Layout
<1> USE <1>0
<1>1. \A ops : \A k \in Instructions(s, ops) : k \in DOMAIN s /\ s[k].op \in ops
  BY DEF Instructions
<1>2. ASSUME NEW k \in Writes(s)
      PROVE  \E j \in 1..n : k = q + (3 * j - 2) /\ s[k].val = j
  <2>1. k \in DOMAIN s
    BY <1>1 DEF Writes
  <2> QED
    BY <2>1, LayoutLines
<1>3. ASSUME NEW k \in Instructions(s, {"current"})
      PROVE  \/ k = c /\ s[k].val = Start
             \/ \E j \in 1..n : k = q + (3 * j - 1) /\ s[k].val = nodes[j]
             \/ end /\ k = q + (3 * n + 2) /\ s[k].val = 100
  <2>1. k \in DOMAIN s /\ s[k].op = "current"
    BY <1>1
  <2> QED
    BY <2>1, LayoutLines
<1>4. ASSUME NEW k \in Instructions(s, {"next"})
      PROVE  \/ k = c + 1 /\ s[k].val = nodes[1]
             \/ \E j \in 1..n : j < n /\ k = q + 3 * j /\ s[k].val = nodes[j + 1]
             \/ end /\ k = q + 3 * n /\ s[k].val = 100
  <2>1. k \in DOMAIN s /\ s[k].op = "next"
    BY <1>1
  <2> QED
    BY <2>1, LayoutLines
<1>5. ASSUME NEW k \in Instructions(s, {"unless"})
      PROVE  k = q /\ s[k].val = 3 * n - 1 /\ ~ end
  <2>1. k \in DOMAIN s /\ s[k].op = "unless"
    BY <1>1
  <2> QED
    BY <2>1, LayoutLines
<1>6. ASSUME NEW k \in Instructions(s, {"version", "device", "ddelta"})
      PROVE  k \in 1..q \/ \E j \in 1..n : k = q + (3 * j - 2)
  <2>1. k \in DOMAIN s /\ s[k].op \in {"version", "device", "ddelta"}
    BY <1>1
  <2>2. CASE s[k].op = "ddelta"
    <3>1. k \in Writes(s)
      BY <2>1, <2>2 DEF Writes, Instructions
    <3> QED
      BY <1>2, <3>1
  <2>3. CASE s[k].op \in {"version", "device"}
    BY <2>1, <2>3, LayoutLines
  <2> QED
    BY <2>1, <2>2, <2>3
<1> QED
  BY <1>2, <1>3, <1>4, <1>5, <1>6

\* A script so laid out, with nodes that rise, reports as the proofs need it to.
LEMMA LayoutReports ==
  ASSUME NEW s, NEW first, NEW nodes, NEW n, NEW c, NEW q, NEW end,
         Layout(s, first, nodes, n, c, q, end),
         NEW max \in Start..100, NodesRise(nodes, n, max)
  PROVE  Reports(s, 1..n)
<1>0. /\ n \in Nat /\ n > 0 /\ c \in Nat /\ c > 0 /\ q \in Nat /\ c + 1 <= q
      /\ end \in BOOLEAN
  BY Zenon DEF Layout
<1> USE <1>0
<1>1. /\ s \in Seq(Instruction)
      /\ Len(s) = IF end THEN q + 3 * n + 2 ELSE q + 3 * n - 1
  BY Zenon DEF Layout
<1>2. /\ \A i \in 1..n : nodes[i] \in Nat /\ nodes[i] <= 100
      /\ \A i \in 1..n : i < n => nodes[i] < 100
      /\ max \in Nat /\ max <= 100
  <2>1. max \in Nat /\ max <= 100
    BY DEF Start
  <2> QED
    BY <2>1 DEF NodesRise
<1>4. \A k \in Writes(s) : \E j \in 1..n : k = q + (3 * j - 2) /\ s[k].val = j
  BY LayoutKinds
<1>5. \A k \in Instructions(s, {"current"}) :
        \/ k = c /\ s[k].val = Start
        \/ \E j \in 1..n : k = q + (3 * j - 1) /\ s[k].val = nodes[j]
        \/ end /\ k = q + (3 * n + 2) /\ s[k].val = 100
  BY LayoutKinds
<1>6. \A k \in Instructions(s, {"next"}) :
        \/ k = c + 1 /\ s[k].val = nodes[1]
        \/ \E j \in 1..n : j < n /\ k = q + 3 * j /\ s[k].val = nodes[j + 1]
        \/ end /\ k = q + 3 * n /\ s[k].val = 100
  BY LayoutKinds
<1>7. \A g \in Instructions(s, {"unless"}) : g = q /\ s[g].val = 3 * n - 1 /\ ~ end
  BY LayoutKinds
<1>8. ASSUME NEW k \in Instructions(s, {"current", "next"}) PROVE s[k].val <= 100
  <2>1. k \in Instructions(s, {"current"}) \/ k \in Instructions(s, {"next"})
    BY DEF Instructions
  <2>2. CASE k \in Instructions(s, {"current"})
    BY <1>2, <1>5, <2>2 DEF Start
  <2>3. CASE k \in Instructions(s, {"next"})
    <3>1. 1 \in 1..n /\ \A j \in 1..n : j < n => j + 1 \in 1..n
      OBVIOUS
    <3> QED
      BY <1>2, <1>6, <2>3, <3>1
  <2> QED
    BY <2>1, <2>2, <2>3
<1>9. \A g \in Instructions(s, {"unless"}) : g + s[g].val <= Len(s)
  BY <1>1, <1>7
<1>10. \A w \in Writes(s) : s[w].val \in 1..n
  BY <1>4
<1>11. \A v, w \in Writes(s) : s[v].val = s[w].val => v = w
  BY <1>4
<1>12. ASSUME NEW k \in Instructions(s, {"current"}), s[k].val = 100
       PROVE  /\ \A w \in Writes(s) : w < k /\ ~ Skips(s, w, k)
              /\ \A p \in 1..n : \E w \in Writes(s) : s[w].val = p
  <2>1. k = q + (3 * n - 1) \/ (end /\ k = q + (3 * n + 2))
    <3>1. Start # 100
      BY DEF Start
    <3>2. \A j \in 1..n : nodes[j] = 100 => j = n
      BY <1>2
    <3> QED
      BY <1>5, <1>12, <3>1, <3>2
  <2>2. \A w \in Writes(s) : w < k
    BY <1>4, <2>1
  <2>3. \A w : ~ Skips(s, w, k)
    <3> SUFFICES ASSUME NEW g \in Instructions(s, {"unless"}), g + s[g].val < k
                 PROVE  FALSE
      BY DEF Skips
    <3>1. g + s[g].val = q + (3 * n - 1) /\ ~ end
      BY <1>7
    <3> QED
      BY <2>1, <3>1
  <2>4. \A p \in 1..n : \E w \in Writes(s) : s[w].val = p
    BY LayoutHas
  <2> QED
    BY <2>2, <2>3, <2>4
<1> QED
  BY <1>1, <1>8, <1>9, <1>10, <1>11, <1>12 DEF Reports

\* And it rises.
LEMMA LayoutRises ==
  ASSUME NEW s, NEW first, NEW nodes, NEW n, NEW c, NEW q, NEW end,
         Layout(s, first, nodes, n, c, q, end),
         NEW max \in Start..100, NodesRise(nodes, n, max)
  PROVE  Rises(s)
<1>a. \A h \in 1..n : h < n => /\ q + 3 * h \in Instructions(s, {"next"})
                               /\ s[q + 3 * h].val = nodes[h + 1]
  BY LayoutHas
<1>0. /\ n \in Nat /\ n > 0 /\ c \in Nat /\ c > 0 /\ q \in Nat /\ c + 1 <= q
      /\ end \in BOOLEAN
  BY Zenon DEF Layout
<1> USE <1>0
<1>1. /\ \A i \in 1..n : nodes[i] \in Nat /\ Start <= nodes[i] /\ nodes[i] <= 100
      /\ \A i, j \in 1..n : i <= j => nodes[i] <= nodes[j]
  <2>1. max \in Nat /\ max <= 100
    BY DEF Start
  <2> QED
    BY <2>1 DEF NodesRise, Start
<1>2. \A k \in Instructions(s, {"current"}) :
        \/ k = c /\ s[k].val = Start
        \/ \E j \in 1..n : k = q + (3 * j - 1) /\ s[k].val = nodes[j]
        \/ end /\ k = q + (3 * n + 2) /\ s[k].val = 100
  BY LayoutKinds
<1>3. \A k \in Instructions(s, {"next"}) :
        \/ k = c + 1 /\ s[k].val = nodes[1]
        \/ \E j \in 1..n : j < n /\ k = q + 3 * j /\ s[k].val = nodes[j + 1]
        \/ end /\ k = q + 3 * n /\ s[k].val = 100
  BY LayoutKinds
<1>4. \A g \in Instructions(s, {"unless"}) : g = q /\ s[g].val = 3 * n - 1 /\ ~ end
  BY LayoutKinds
<1>5. ASSUME NEW j \in Instructions(s, {"current"}), NEW k \in Instructions(s, {"current"}),
             j < k
      PROVE  s[j].val <= s[k].val
  <2>1. CASE j = c /\ s[j].val = Start
    BY <1>1, <1>2, <1>5, <2>1 DEF Start
  <2>2. ASSUME NEW i \in 1..n, j = q + (3 * i - 1), s[j].val = nodes[i]
        PROVE  s[j].val <= s[k].val
    <3>1. CASE end /\ k = q + (3 * n + 2) /\ s[k].val = 100
      BY <1>1, <2>2, <3>1
    <3>2. ASSUME NEW h \in 1..n, k = q + (3 * h - 1), s[k].val = nodes[h]
          PROVE  s[j].val <= s[k].val
      <4>1. i <= h
        BY <1>5, <2>2, <3>2
      <4> QED
        BY <1>1, <2>2, <3>2, <4>1
    <3>3. k # c
      BY <1>5, <2>2
    <3> QED
      BY <1>2, <3>1, <3>2, <3>3
  <2>3. CASE end /\ j = q + (3 * n + 2) /\ s[j].val = 100
    <3>1. k = q + (3 * n + 2) \/ k <= q + (3 * n - 1)
      BY <1>2
    <3> QED
      BY <1>5, <2>3, <3>1
  <2> QED
    BY <1>2, <2>1, <2>2, <2>3
<1>6. ASSUME NEW j \in Instructions(s, {"next"}), NEW k \in Instructions(s, {"next"}),
             j < k
      PROVE  s[j].val <= s[k].val
  <2>0. 1 \in 1..n /\ \A i \in 1..n : i < n => i + 1 \in 1..n /\ 1 <= i + 1
    OBVIOUS
  <2>1. CASE j = c + 1 /\ s[j].val = nodes[1]
    BY <1>1, <1>3, <1>6, <2>0, <2>1
  <2>2. ASSUME NEW i \in 1..n, i < n, j = q + 3 * i, s[j].val = nodes[i + 1]
        PROVE  s[j].val <= s[k].val
    <3>1. CASE end /\ k = q + 3 * n /\ s[k].val = 100
      BY <1>1, <2>0, <2>2, <3>1
    <3>2. ASSUME NEW h \in 1..n, h < n, k = q + 3 * h, s[k].val = nodes[h + 1]
          PROVE  s[j].val <= s[k].val
      <4>1. i + 1 <= h + 1
        BY <1>6, <2>2, <3>2
      <4> QED
        BY <1>1, <2>0, <2>2, <3>2, <4>1
    <3>3. k # c + 1
      BY <1>6, <2>2
    <3> QED
      BY <1>3, <3>1, <3>2, <3>3
  <2>3. CASE end /\ j = q + 3 * n /\ s[j].val = 100
    <3>1. k <= q + 3 * n
      BY <1>3
    <3> QED
      BY <1>6, <2>3, <3>1
  <2> QED
    BY <1>3, <2>1, <2>2, <2>3
<1>7. ASSUME NEW k \in Instructions(s, {"version", "device", "ddelta"}),
             NEW d \in Instructions(s, {"current"}), d < k
      PROVE  \E m \in Instructions(s, {"next"}) :
               m < k /\ s[d].val <= s[m].val /\ ~ Skips(s, m, k)
  <2>1. \A g \in Instructions(s, {"unless"}) : g = q /\ g + s[g].val = q + (3 * n - 1)
    BY <1>4
  <2>2. c + 1 \in Instructions(s, {"next"}) /\ s[c + 1].val = nodes[1]
    BY LayoutHas
  <2>3. ~ Skips(s, c + 1, k)
    BY <2>1 DEF Skips
  <2>4. k \in 1..q \/ \E j \in 1..n : k = q + (3 * j - 2)
    BY LayoutKinds
  <2>5. k # c + 1
    BY <2>2 DEF Instructions
  <2>6. d = c /\ s[d].val = Start => c + 1 < k /\ s[d].val <= s[c + 1].val
    <3>1. Start <= nodes[1]
      BY <1>1
    <3>2. k \in Nat
      BY <2>4
    <3> QED
      BY <1>7, <2>2, <2>5, <3>1, <3>2
  <2>7. CASE d = c /\ s[d].val = Start
    BY <2>2, <2>3, <2>6, <2>7
  <2>8. ASSUME NEW i \in 1..n, d = q + (3 * i - 1), s[d].val = nodes[i]
        PROVE  \E m \in Instructions(s, {"next"}) :
                 m < k /\ s[d].val <= s[m].val /\ ~ Skips(s, m, k)
    <3>1. PICK j \in 1..n : k = q + (3 * j - 2)
      BY <1>7, <2>4, <2>8
    <3>2. PICK h \in 1..n : h < n /\ j = h + 1 /\ i <= j
      <4>1. i < j /\ j - 1 \in 1..n /\ j - 1 < n /\ j = (j - 1) + 1
        BY <1>7, <2>8, <3>1
      <4> QED
        BY <4>1
    <3> DEFINE m == q + 3 * h
    <3>3. m \in Instructions(s, {"next"}) /\ s[m].val = nodes[j]
      BY <1>a, <3>2
    <3>4. m < k /\ k <= q + (3 * n - 1)
      BY <3>1, <3>2
    <3>5. ~ Skips(s, m, k)
      <4> SUFFICES ASSUME NEW g \in Instructions(s, {"unless"}), g + s[g].val < k
                   PROVE  FALSE
        BY DEF Skips
      <4> QED
        BY <2>1, <3>1, <3>4
    <3>6. s[d].val <= s[m].val
      BY <1>1, <2>8, <3>2, <3>3
    <3> HIDE DEF m
    <3> QED
      BY <3>3, <3>4, <3>5, <3>6
  <2>9. d # q + (3 * n + 2)
    BY <1>7, <2>4
  <2> QED
    BY <1>2, <2>7, <2>8, <2>9
<1> QED
  BY <1>5, <1>6, <1>7 DEF Rises
\* The prologue reports at c and announces the first node after it.
IsPrologue(p, nodes, c) ==
  /\ p \in Seq(Instruction) /\ c \in Nat /\ c > 0 /\ c + 1 <= Len(p)
  /\ p[c] = SetCurrent(Start) /\ p[c + 1] = SetNext(nodes[1])
  /\ \A k \in 1..Len(p) : k \notin {c, c + 1} => p[k].op \in {"user", "version"}

\* What both generators write first is such a prologue.
LEMMA PrologueForm ==
  ASSUME NEW args, NEW nodes, nodes[1] \in Nat
  PROVE  \E c : IsPrologue(Prologue(args, nodes), nodes, c)
<1> DEFINE x == SetCurrent(Start)
           y == SetNext(nodes[1])
           u == UserScript
           v == CheckVersion
           p == Prologue(args, nodes)
<1>1. /\ x \in Instruction /\ y \in Instruction /\ u \in Instruction /\ v \in Instruction
      /\ u.op = "user" /\ v.op = "version"
  BY DEF SetCurrent, SetNext, UserScript, CheckVersion, Start, Instruction, Op
<1> HIDE DEF x, y, u, v
<1> DEFINE a == IF args.user_begin_script THEN <<u>> ELSE <<>>
           b == <<x, y>>
           d == IF args.skip_version_check THEN <<>> ELSE <<v>>
<1>2. p = (a \o b) \o d
  BY DEF Prologue, x, y, u, v
<1>3. /\ a \in Seq(Instruction) /\ Len(a) \in Nat
      /\ \A k \in 1..Len(a) : a[k].op = "user"
  <2>1. CASE args.user_begin_script
    <3>1. a = <<u>>
      BY <2>1
    <3> HIDE DEF a
    <3> QED
      BY <1>1, <3>1
  <2>2. CASE ~ args.user_begin_script
    <3>1. a = <<>>
      BY <2>2
    <3> HIDE DEF a
    <3> QED
      BY <3>1
  <2> QED
    BY <2>1, <2>2
<1>4. /\ d \in Seq(Instruction) /\ Len(d) \in Nat
      /\ \A k \in 1..Len(d) : d[k].op = "version"
  <2>1. CASE args.skip_version_check
    <3>1. d = <<>>
      BY <2>1
    <3> HIDE DEF d
    <3> QED
      BY <3>1
  <2>2. CASE ~ args.skip_version_check
    <3>1. d = <<v>>
      BY <2>2
    <3> HIDE DEF d
    <3> QED
      BY <1>1, <3>1
  <2> QED
    BY <2>1, <2>2
<1>5. b \in Seq(Instruction) /\ Len(b) = 2 /\ b[1] = x /\ b[2] = y
  BY <1>1
<1> HIDE DEF a, b, d, p
<1> DEFINE h == a \o b
<1>6. /\ h \in Seq(Instruction) /\ Len(h) = Len(a) + 2
      /\ \A k \in 1..Len(a) : h[k] = a[k]
      /\ \A k \in 1..2 : h[Len(a) + k] = b[k]
  <2>1. a \in Seq(Instruction) /\ b \in Seq(Instruction)
    BY <1>3, <1>5
  <2>2. /\ h \in Seq(Instruction) /\ Len(h) = Len(a) + Len(b)
        /\ \A k \in 1..Len(a) : h[k] = a[k]
        /\ \A k \in 1..Len(b) : h[Len(a) + k] = b[k]
    BY <2>1, ConcatParts
  <2> QED
    BY <1>5, <2>2
<1> HIDE DEF h
<1>7. /\ p \in Seq(Instruction) /\ Len(p) = Len(h) + Len(d)
      /\ \A k \in 1..Len(h) : p[k] = h[k]
      /\ \A k \in 1..Len(d) : p[Len(h) + k] = d[k]
  <2>1. h \in Seq(Instruction) /\ d \in Seq(Instruction) /\ p = h \o d
    BY <1>2, <1>4, <1>6 DEF h
  <2> QED
    BY <2>1, ConcatParts
<1> DEFINE c == Len(a) + 1
<1>8. c \in Nat /\ c > 0 /\ c + 1 = Len(a) + 2 /\ c + 1 <= Len(p)
  BY <1>3, <1>4, <1>6, <1>7
<1>9. p[c] = x /\ p[c + 1] = y
  <2>1. Len(a) + 1 \in 1..Len(h) /\ Len(a) + 2 \in 1..Len(h) /\ 1 \in 1..2 /\ 2 \in 1..2
    BY <1>3, <1>6
  <2>2. p[Len(a) + 1] = h[Len(a) + 1] /\ p[Len(a) + 2] = h[Len(a) + 2]
    BY <1>7, <2>1
  <2>3. h[Len(a) + 1] = b[1] /\ h[Len(a) + 2] = b[2]
    BY <1>6, <2>1
  <2> QED
    BY <1>5, <1>8, <2>2, <2>3
<1>10. ASSUME NEW k \in 1..Len(p), k \notin {c, c + 1} PROVE p[k].op \in {"user", "version"}
  <2>1. CASE k <= Len(a)
    <3>1. k \in 1..Len(a) /\ k \in 1..Len(h)
      BY <1>3, <1>6, <2>1
    <3> QED
      BY <1>3, <1>6, <1>7, <3>1
  <2>2. CASE k > Len(h)
    <3>1. k - Len(h) \in 1..Len(d) /\ Len(h) + (k - Len(h)) = k
      BY <1>3, <1>4, <1>6, <1>7, <2>2
    <3>2. p[Len(h) + (k - Len(h))] = d[k - Len(h)] /\ d[k - Len(h)].op = "version"
      BY <1>4, <1>7, <3>1
    <3> QED
      BY <3>1, <3>2
  <2>3. k <= Len(a) \/ k > Len(h)
    BY <1>3, <1>6, <1>10
  <2> QED
    BY <2>1, <2>2, <2>3
<1> HIDE DEF c
<1>11. IsPrologue(p, nodes, c)
  BY <1>7, <1>8, <1>9, <1>10 DEF IsPrologue, x, y
<1> QED
  BY <1>11 DEF p

\* The parts of a script: a prologue, checks or a guard, the lines of the loop, an end.
Parts(p, mid, b, e, first, nodes, n, c, end) ==
  /\ end \in BOOLEAN /\ n \in Nat /\ n > 0 /\ Len(nodes) = n
  /\ first \in [1..n -> Instruction]
  /\ \A j \in 1..n : first[j].op \in {"dd", "verify", "ddelta"} /\ first[j].val = j
  /\ IsPrologue(p, nodes, c) /\ mid \in Seq(Instruction)
  /\ \A k \in 1..Len(mid) :
       /\ mid[k].op \in {"device", "unless"}
       /\ mid[k].op = "unless" => k = Len(mid) /\ mid[k].val = 3 * n - 1 /\ ~ end
  /\ LinesUpTo(b, first, nodes, n) /\ e \in Seq(Instruction)
  /\ end => e = <<SetNext(100), UserScript, SetCurrent(100)>>
  /\ ~ end => e = <<>>

\* They make the layout.
LEMMA Assembled ==
  ASSUME NEW p, NEW mid, NEW b, NEW e, NEW first, NEW nodes, NEW n, NEW c, NEW end,
         Parts(p, mid, b, e, first, nodes, n, c, end)
  PROVE  Layout(((p \o mid) \o b) \o e, first, nodes, n, c, Len(p) + Len(mid), end)
<1>0. /\ end \in BOOLEAN /\ n \in Nat /\ n > 0 /\ Len(nodes) = n
      /\ first \in [1..n -> Instruction]
      /\ \A j \in 1..n : first[j].op \in {"dd", "verify", "ddelta"} /\ first[j].val = j
      /\ IsPrologue(p, nodes, c) /\ mid \in Seq(Instruction)
      /\ \A k \in 1..Len(mid) :
           /\ mid[k].op \in {"device", "unless"}
           /\ mid[k].op = "unless" => k = Len(mid) /\ mid[k].val = 3 * n - 1 /\ ~ end
      /\ LinesUpTo(b, first, nodes, n) /\ e \in Seq(Instruction)
      /\ end => e = <<SetNext(100), UserScript, SetCurrent(100)>>
      /\ ~ end => e = <<>>
  BY Zenon DEF Parts
<1> USE <1>0
<1> DEFINE q == Len(p) + Len(mid)
           h == p \o mid
           g == h \o b
           s == g \o e
<1>1. /\ p \in Seq(Instruction) /\ Len(p) \in Nat /\ c \in Nat /\ c > 0 /\ c + 1 <= Len(p)
      /\ p[c] = SetCurrent(Start) /\ p[c + 1] = SetNext(nodes[1])
      /\ \A k \in 1..Len(p) : k \notin {c, c + 1} => p[k].op \in {"user", "version"}
  BY DEF IsPrologue
<1>2. /\ h \in Seq(Instruction) /\ Len(h) = q
      /\ \A k \in 1..Len(p) : h[k] = p[k]
      /\ \A k \in 1..Len(mid) : h[Len(p) + k] = mid[k]
  BY <1>1, ConcatParts
<1>3. Len(mid) \in Nat /\ q \in Nat /\ c + 1 <= q
  BY <1>1
<1>4. /\ b \in Seq(Instruction) /\ Len(b) = 3 * n - 1
      /\ \A j \in 1..n : /\ b[3 * j - 2] = first[j]
                         /\ b[3 * j - 1] = SetCurrent(nodes[j])
                         /\ j < n => b[3 * j] = SetNext(nodes[j + 1])
  BY DEF LinesUpTo
<1> HIDE DEF h
<1>5. /\ g \in Seq(Instruction) /\ Len(g) = q + (3 * n - 1)
      /\ \A k \in 1..q : g[k] = h[k]
      /\ \A k \in 1..(3 * n - 1) : g[q + k] = b[k]
  <2>1. h \in Seq(Instruction) /\ b \in Seq(Instruction)
    BY <1>2, <1>4
  <2>2. /\ g \in Seq(Instruction) /\ Len(g) = Len(h) + Len(b)
        /\ \A k \in 1..Len(h) : g[k] = h[k]
        /\ \A k \in 1..Len(b) : g[Len(h) + k] = b[k]
    BY <2>1, ConcatParts
  <2> QED
    BY <1>2, <1>4, <2>2
<1> HIDE DEF g
<1>6. /\ s \in Seq(Instruction) /\ Len(s) = Len(g) + Len(e)
      /\ \A k \in 1..Len(g) : s[k] = g[k]
      /\ \A k \in 1..Len(e) : s[Len(g) + k] = e[k]
  <2>1. g \in Seq(Instruction)
    BY <1>5
  <2> QED
    BY <2>1, ConcatParts
<1> HIDE DEF s, q
<1>7. Len(s) = IF end THEN q + 3 * n + 2 ELSE q + 3 * n - 1
  <2>1. CASE end
    <3>1. Len(e) = 3
      BY <2>1
    <3> QED
      BY <1>3, <1>5, <1>6, <2>1, <3>1
  <2>2. CASE ~ end
    <3>1. Len(e) = 0
      BY <2>2
    <3> QED
      BY <1>3, <1>5, <1>6, <2>2, <3>1
  <2> QED
    BY <2>1, <2>2
<1>8. \A k \in 1..q : s[k] = h[k]
  <2>1. \A k \in 1..q : k \in 1..Len(g)
    BY <1>3, <1>5
  <2> QED
    BY <1>5, <1>6, <2>1
<1>9. s[c] = SetCurrent(Start) /\ s[c + 1] = SetNext(nodes[1])
  <2>1. c \in 1..q /\ c + 1 \in 1..q /\ c \in 1..Len(p) /\ c + 1 \in 1..Len(p)
    BY <1>1, <1>3
  <2> QED
    BY <1>1, <1>2, <1>8, <2>1
<1>10. ASSUME NEW k \in 1..q, k \notin {c, c + 1}
       PROVE  /\ s[k].op \in {"user", "version", "device", "unless"}
              /\ s[k].op = "unless" => k = q /\ s[k].val = 3 * n - 1 /\ ~ end
  <2>1. CASE k <= Len(p)
    <3>1. k \in 1..Len(p)
      BY <2>1
    <3>2. s[k] = p[k]
      BY <1>2, <1>8, <3>1
    <3>3. p[k].op \in {"user", "version"}
      BY <1>1, <1>10, <3>1, Zenon
    <3> QED
      BY <3>2, <3>3
  <2>2. CASE k > Len(p)
    <3>1. k - Len(p) \in 1..Len(mid) /\ Len(p) + (k - Len(p)) = k
      BY <1>1, <1>3, <2>2 DEF q
    <3>2. s[k] = mid[k - Len(p)]
      <4>1. h[Len(p) + (k - Len(p))] = mid[k - Len(p)]
        BY <1>2, <3>1
      <4> QED
        BY <1>8, <3>1, <4>1
    <3>3. k - Len(p) = Len(mid) => k = q
      BY <1>1, <1>3, <3>1 DEF q
    <3> QED
      BY <3>1, <3>2, <3>3
  <2> QED
    BY <1>1, <2>1, <2>2
<1>11. ASSUME NEW j \in 1..n
       PROVE  /\ s[q + (3 * j - 2)] = first[j]
              /\ s[q + (3 * j - 1)] = SetCurrent(nodes[j])
              /\ j < n => s[q + 3 * j] = SetNext(nodes[j + 1])
  <2>1. \A k \in 1..(3 * n - 1) : s[q + k] = b[k]
    <3>1. \A k \in 1..(3 * n - 1) : q + k \in 1..Len(g)
      BY <1>3, <1>5
    <3> QED
      BY <1>5, <1>6, <3>1
  <2>2. /\ 3 * j - 2 \in 1..(3 * n - 1) /\ 3 * j - 1 \in 1..(3 * n - 1)
        /\ j < n => 3 * j \in 1..(3 * n - 1)
    OBVIOUS
  <2> QED
    BY <1>4, <2>1, <2>2
<1>12. ASSUME end
       PROVE  /\ s[q + 3 * n] = SetNext(100)
              /\ s[q + (3 * n + 1)] = UserScript
              /\ s[q + (3 * n + 2)] = SetCurrent(100)
  <2>1. Len(e) = 3 /\ e[1] = SetNext(100) /\ e[2] = UserScript /\ e[3] = SetCurrent(100)
    BY <1>12
  <2>2. /\ Len(g) + 1 = q + 3 * n /\ Len(g) + 2 = q + (3 * n + 1)
        /\ Len(g) + 3 = q + (3 * n + 2)
    BY <1>3, <1>5
  <2>3. s[Len(g) + 1] = e[1] /\ s[Len(g) + 2] = e[2] /\ s[Len(g) + 3] = e[3]
    BY <1>6, <2>1
  <2> QED
    BY <2>1, <2>2, <2>3
<1>13. Layout(s, first, nodes, n, c, q, end)
  BY <1>1, <1>3, <1>6, <1>7, <1>9, <1>10, <1>11, <1>12, Zenon DEF Layout
<1> QED
  BY <1>13 DEF s, g, h, q
----------------------------------------------------------------------------
(* The packages.                                                           *)

\* A full package, and a differential one with patches alone and no user script
\* at its end.
FullPackage(args) ==
  /\ args.full /\ args.weights \in Seq(Nat \ {0}) /\ Len(args.weights) > 0
  /\ args.user_end_script \in BOOLEAN /\ args.user_end_script_progress \in 0..70

PatchPackage(args) ==
  /\ ~ args.full /\ args.weights \in Seq(Nat \ {0}) /\ Len(args.weights) > 0
  /\ args.new_weights = <<>>
  /\ ~ args.user_end_script /\ args.user_end_script_progress \in 0..70

\* gen_full_sh: the loop installs, checks of the devices come before it.
LEMMA FullScript ==
  ASSUME NEW args, FullPackage(args)
  PROVE  Reports(ota_sh(args), Partitions(args)) /\ Rises(ota_sh(args))
<1> DEFINE w == args.weights
           n == Len(w)
           max == max_progress(args)
           nodes == full_progress(w, max)
           step(i) == IF i \in args.upgrade_verify THEN VerifyInstall(i) ELSE Install(i)
           first == [i \in 1..n |-> step(i)]
           mid == [i \in 1..n |-> CheckDevice(i)]
           b == FlattenSeq([i \in 1..n |-> Lines(first, nodes, i)])
           e == Epilogue(args)
           p == Prologue(args, nodes)
           end == args.user_end_script
<1>1. /\ w \in Seq(Nat \ {0}) /\ n \in Nat /\ n > 0 /\ end \in BOOLEAN
      /\ max \in Start..100
  <2>1. /\ w \in Seq(Nat \ {0}) /\ n > 0 /\ end \in BOOLEAN
        /\ args.user_end_script_progress \in 0..70
    BY Zenon DEF FullPackage
  <2>2. max \in Start..100
    <3>1. \A v \in 0..70 : 100 - v \in 30..100
      OBVIOUS
    <3> QED
      BY <2>1, <3>1, Zenon DEF max_progress, Start
  <2>3. n \in Nat
    BY <2>1
  <2> QED
    BY <2>1, <2>2, <2>3, Zenon
<1> HIDE DEF max
<1>2. NodesRise(nodes, n, max)
  BY <1>1, FullProgressRises
<1> HIDE DEF nodes
<1>3. nodes \in Seq(Nat) /\ Len(nodes) = n /\ nodes[1] \in Nat
  <2>1. nodes \in Seq(Nat) /\ Len(nodes) = n
    BY <1>2 DEF NodesRise
  <2> QED
    BY <1>1, <2>1
<1>4. /\ first \in [1..n -> Instruction]
      /\ \A j \in 1..n : first[j].op \in {"dd", "verify", "ddelta"} /\ first[j].val = j
  <2>1. \A i \in 1..n : /\ step(i) \in Instruction
                        /\ step(i).op \in {"dd", "verify", "ddelta"} /\ step(i).val = i
    BY <1>1 DEF VerifyInstall, Install, Instruction, Op
  <2> HIDE DEF step
  <2> QED
    BY <2>1
<1>5. /\ mid \in Seq(Instruction) /\ Len(mid) = n
      /\ \A k \in 1..n : mid[k].op = "device"
  BY <1>1 DEF CheckDevice, Instruction, Op
<1> HIDE DEF mid, p, e, end, b
<1>6. ota_sh(args) = ((p \o mid) \o b) \o e
  <2>1. args.full
    BY DEF FullPackage
  <2>2. \A i \in 1..n : Lines(first, nodes, i) = <<step(i)>> \o Report(nodes, i)
    BY DEF Lines
  <2> DEFINE l1 == [i \in 1..n |-> Lines(first, nodes, i)]
             l2 == [i \in 1..n |-> <<step(i)>> \o Report(nodes, i)]
  <2>3. l1 = l2
    BY <2>2
  <2> HIDE DEF first
  <2>4. gen_full_sh(args) = ((p \o mid) \o FlattenSeq(l2)) \o e
    BY Zenon DEF gen_full_sh, p, mid, e, nodes, max
  <2> QED
    BY <2>1, <2>3, <2>4, Zenon DEF ota_sh, b
<1> HIDE DEF first
<1>7. PICK c : IsPrologue(p, nodes, c)
  BY <1>3, PrologueForm DEF p
<1>8. LinesUpTo(b, first, nodes, n)
  BY <1>1, <1>3, <1>4, LoopForm DEF b
<1>9. /\ e \in Seq(Instruction)
      /\ end => e = <<SetNext(100), UserScript, SetCurrent(100)>>
      /\ ~ end => e = <<>>
  <2>1. /\ SetNext(100) \in Instruction /\ UserScript \in Instruction
        /\ SetCurrent(100) \in Instruction
    BY DEF SetNext, UserScript, SetCurrent, Instruction, Op
  <2>2. /\ end => e = <<SetNext(100), UserScript, SetCurrent(100)>>
        /\ ~ end => e = <<>>
    BY DEF Epilogue, e, end
  <2>3. e = <<>> \/ e = <<SetNext(100), UserScript, SetCurrent(100)>>
    BY <1>1, <2>2, Zenon
  <2>4. e \in Seq(Instruction)
    <3>1. <<>> \in Seq(Instruction)
      OBVIOUS
    <3>2. <<SetNext(100), UserScript, SetCurrent(100)>> \in Seq(Instruction)
      BY <2>1, Triple, Zenon
    <3> QED
      BY <2>3, <3>1, <3>2, Zenon
  <2> QED
    BY <2>2, <2>4, Zenon
<1>10. Parts(p, mid, b, e, first, nodes, n, c, end)
  <2>1. \A k \in 1..Len(mid) :
          /\ mid[k].op \in {"device", "unless"}
          /\ mid[k].op = "unless" => k = Len(mid) /\ mid[k].val = 3 * n - 1 /\ ~ end
    BY <1>5
  <2> HIDE DEF n
  <2> QED
    BY <1>1, <1>3, <1>4, <1>5, <1>7, <1>8, <1>9, <2>1, Zenon DEF Parts
<1>11. Partitions(args) = 1..n
  BY <1>1 DEF Partitions, FullPackage
<1> HIDE DEF n
<1>12. Layout(((p \o mid) \o b) \o e, first, nodes, n, c, Len(p) + Len(mid), end)
  BY <1>10, Assembled, Zenon
<1> QED
  BY <1>1, <1>2, <1>6, <1>11, <1>12, LayoutReports, LayoutRises, Zenon
\* gen_diff_ota_sh without new partitions: a guard stands before the loop of patches.
LEMMA PatchScript ==
  ASSUME NEW args, PatchPackage(args)
  PROVE  Reports(ota_sh(args), Partitions(args)) /\ Rises(ota_sh(args))
<1> DEFINE w == args.weights
           n == Len(w)
           max == max_progress(args)
           nodes == diff_progress(args)
           first == [i \in 1..n |-> Apply(i)]
           b == FlattenSeq([i \in 1..n |-> Lines(first, nodes, i)])
           mid == <<UnlessPresent(Len(b))>>
           e == Epilogue(args)
           p == Prologue(args, nodes)
<1>1. /\ w \in Seq(Nat \ {0}) /\ n \in Nat /\ n > 0 /\ max \in Start..100
      /\ args.new_weights = <<>> /\ ~ args.user_end_script /\ ~ args.full
  <2>1. /\ w \in Seq(Nat \ {0}) /\ n > 0 /\ args.user_end_script_progress \in 0..70
        /\ args.new_weights = <<>> /\ ~ args.user_end_script /\ ~ args.full
    BY Zenon DEF PatchPackage
  <2>2. max \in Start..100
    <3>1. \A v \in 0..70 : 100 - v \in 30..100
      OBVIOUS
    <3> QED
      BY <2>1, <3>1, Zenon DEF max_progress, Start
  <2>3. n \in Nat
    BY <2>1
  <2> QED
    BY <2>1, <2>2, <2>3, Zenon
<1> HIDE DEF max
<1>2. nodes = full_progress(w, max)
  <2>1. Len(args.new_weights) = 0 /\ n + 0 = n /\ DOMAIN w = 1..n
    BY <1>1
  <2> DEFINE f(i) == IF i = n THEN max
                     ELSE Start + (Sum1(w, i) * (max - Start)) \div Total(w)
  <2>2. full_progress(w, max) = [i \in 1..n |-> f(i)]
    BY <2>1 DEF full_progress
  <2>3. nodes = [i \in 1..n |-> f(i)]
    <3> DEFINE m == Len(args.new_weights)
               bins == args.bin_weights \o args.new_weights
               node(i) == IF i <= n
                 THEN Start + (Sum1(w, i) * (max - Start)) \div Total(w)
                 ELSE max + (Sum1(args.new_weights, i - n) * (max - 70)) \div Total(bins)
    <3>1. nodes = [i \in 1..(n + m) |-> IF i = n + m THEN max ELSE node(i)]
      BY Zenon DEF diff_progress, max
    <3>2. n + m = n
      BY <1>1, <2>1
    <3>3. \A i \in 1..n : i <= n
      BY <1>1
    <3>4. \A i \in 1..n : (IF i = n THEN max ELSE node(i)) = f(i)
      BY <3>3, Zenon
    <3>5. nodes = [i \in 1..n |-> IF i = n THEN max ELSE node(i)]
      BY <3>1, <3>2
    <3> QED
      BY <3>4, <3>5, Zenon
  <2> QED
    BY <2>2, <2>3
<1> HIDE DEF nodes
<1>3. NodesRise(nodes, n, max)
  BY <1>1, <1>2, FullProgressRises
<1>4. nodes \in Seq(Nat) /\ Len(nodes) = n /\ nodes[1] \in Nat
  <2>1. nodes \in Seq(Nat) /\ Len(nodes) = n
    BY <1>3 DEF NodesRise
  <2> QED
    BY <1>1, <2>1
<1>5. /\ first \in [1..n -> Instruction]
      /\ \A j \in 1..n : first[j].op \in {"dd", "verify", "ddelta"} /\ first[j].val = j
  BY <1>1 DEF Apply, Instruction, Op
<1>6. LinesUpTo(b, first, nodes, n)
  <2> HIDE DEF first
  <2> QED
    BY <1>1, <1>4, <1>5, LoopForm DEF b
<1>7. Len(b) = 3 * n - 1
  <2> HIDE DEF b
  <2> QED
    BY <1>1, <1>4, <1>6 DEF LinesUpTo
<1>9. /\ mid \in Seq(Instruction) /\ Len(mid) = 1
      /\ mid[1].op = "unless" /\ mid[1].val = 3 * n - 1
  <2> DEFINE g == UnlessPresent(Len(b))
  <2>1. g \in Instruction /\ g.op = "unless" /\ g.val = 3 * n - 1
    <3> HIDE DEF b
    <3>1. Len(b) \in Nat
      BY <1>1, <1>7
    <3> QED
      BY <1>7, <3>1 DEF UnlessPresent, Instruction, Op
  <2> HIDE DEF g
  <2> QED
    BY <2>1 DEF mid, g
<1>8. ota_sh(args) = ((p \o mid) \o b) \o e
  <2> DEFINE patch(i) == <<Apply(i), SetCurrent(nodes[i])>>
                         \o (IF i < n THEN <<SetNext(nodes[i + 1])>> ELSE <<>>)
             patches == FlattenSeq([i \in 1..n |-> patch(i)])
             m == Len(args.new_weights)
             lines == [j \in 1..m |-> <<Install(n + j)>> \o Report(nodes, n + j)]
             news == FlattenSeq(lines)
             h == p \o <<UnlessPresent(Len(patches))>> \o patches
  <2>1. ASSUME NEW i \in 1..n PROVE patch(i) = Lines(first, nodes, i)
    <3> DEFINE x == Apply(i)
               y == SetCurrent(nodes[i])
               z == IF i < n THEN <<SetNext(nodes[i + 1])>> ELSE <<>>
    <3>1. nodes[i] \in Nat /\ (i < n => nodes[i + 1] \in Nat) /\ i \in Nat
      <4>1. \A j \in 1..n : nodes[j] \in Nat
        BY <1>4
      <4>2. i \in Nat /\ (i < n => i + 1 \in 1..n)
        BY <1>1
      <4> QED
        BY <4>1, <4>2
    <3>2. \A v \in Nat : /\ Apply(v) \in Instruction /\ SetCurrent(v) \in Instruction
                         /\ SetNext(v) \in Instruction
      BY DEF Apply, SetCurrent, SetNext, Instruction, Op
    <3>3. z \in Seq(Instruction)
      <4>1. <<>> \in Seq(Instruction)
        OBVIOUS
      <4>2. i < n => <<SetNext(nodes[i + 1])>> \in Seq(Instruction)
        BY <3>1, <3>2, Single
      <4> QED
        BY <4>1, <4>2, Zenon
    <3>4. x \in Instruction /\ y \in Instruction
      BY <3>1, <3>2, Zenon
    <3>5. Lines(first, nodes, i) = <<x>> \o (<<y>> \o z)
      <4>1. first[i] = x
        OBVIOUS
      <4> HIDE DEF first
      <4> QED
        BY <1>4, <4>1, Zenon DEF Lines, Report
    <3>6. <<x, y>> \o z = <<x>> \o (<<y>> \o z)
      <4> HIDE DEF x, y, z
      <4> QED
        BY <3>3, <3>4, TwoInFront
    <3> QED
      BY <3>5, <3>6, Zenon
  <2>2. patches = b
    <3>1. [i \in 1..n |-> patch(i)] = [i \in 1..n |-> Lines(first, nodes, i)]
      <4> HIDE DEF patch, first
      <4> QED
        BY <2>1
    <3> QED
      BY <3>1, Zenon
  <2>3. news = <<>>
    <3>1. m = 0
      BY <1>1
    <3>2. DOMAIN lines = 1..0 /\ lines = [j \in DOMAIN lines |-> lines[j]]
      BY <3>1
    <3> HIDE DEF lines
    <3>3. lines = <<>>
      BY <3>2, NoLines
    <3> QED
      <4>1. FlattenSeq(<<>>) = <<>>
        BY DEF FlattenSeq
      <4> QED
        BY <3>3, <4>1, Zenon
  <2>4. h \o news = h
    <3>1. h \in Seq(Instruction)
      <4>1. PICK c : IsPrologue(p, nodes, c)
        BY <1>4, PrologueForm
      <4>2. p \in Seq(Instruction)
        BY <4>1 DEF IsPrologue
      <4>3. mid \in Seq(Instruction)
        BY <1>9
      <4>4. b \in Seq(Instruction)
        BY <1>6 DEF LinesUpTo
      <4> HIDE DEF p, b, mid
      <4>5. p \o mid \in Seq(Instruction)
        BY <4>2, <4>3, ConcatParts
      <4>6. (p \o mid) \o b \in Seq(Instruction)
        BY <4>4, <4>5, ConcatParts
      <4>7. h = (p \o mid) \o b
        BY <2>2, Zenon DEF mid
      <4> QED
        BY <4>6, <4>7
    <3> QED
      BY <2>3, <3>1, ConcatEmptySeq
  <2>5. gen_diff_ota_sh(args) = (h \o news) \o e
    BY Zenon DEF gen_diff_ota_sh, nodes
  <2> QED
    BY <1>1, <2>2, <2>4, <2>5, Zenon DEF ota_sh
<1> HIDE DEF mid, p, e, b, first
<1>10. PICK c : IsPrologue(p, nodes, c)
  BY <1>4, PrologueForm DEF p
<1>11. e = <<>> /\ e \in Seq(Instruction)
  BY <1>1 DEF Epilogue, e
<1>12. Parts(p, mid, b, e, first, nodes, n, c, FALSE)
  <2>1. \A k \in 1..Len(mid) :
          /\ mid[k].op \in {"device", "unless"}
          /\ mid[k].op = "unless" => k = Len(mid) /\ mid[k].val = 3 * n - 1 /\ ~ FALSE
    BY <1>9
  <2> HIDE DEF n
  <2> QED
    BY <1>1, <1>4, <1>5, <1>6, <1>9, <1>10, <1>11, <2>1, Zenon DEF Parts
<1>13. Partitions(args) = 1..n
  BY <1>1 DEF Partitions
<1> HIDE DEF n
<1>14. Layout(((p \o mid) \o b) \o e, first, nodes, n, c, Len(p) + Len(mid), FALSE)
  BY <1>12, Assembled, Zenon
<1> QED
  BY <1>1, <1>3, <1>8, <1>13, <1>14, LayoutReports, LayoutRises, Zenon
\* ota.sh of every such package reports 100 only behind the writes of all partitions,
\* writes each once, and its progress properties rise, whatever the weights (gen_full_sh,
\* gen_diff_ota_sh).
THEOREM ScriptsReport ==
  ASSUME NEW args, FullPackage(args) \/ PatchPackage(args)
  PROVE  Reports(ota_sh(args), Partitions(args)) /\ Rises(ota_sh(args))
BY FullScript, PatchScript
=============================================================================
