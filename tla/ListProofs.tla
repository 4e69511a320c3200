----------------------------- MODULE ListProofs -----------------------------
(* What the proofs about several components need of numbers and lists.     *)
EXTENDS Lists, WellFoundedInduction, TLAPS

LEMMA NatMin ==
  ASSUME NEW T \in SUBSET Nat, T # {}
  PROVE  \E m \in T : \A k \in T : m <= k
<1>1. IsWellFoundedOn(OpToRel(<, Nat), Nat)
  BY NatLessThanWellFounded
<1>2. PICK m \in T : \A k \in T : ~(<<k, m>> \in OpToRel(<, Nat))
  BY <1>1, WFMin
<1>3. \A k \in T : ~(k < m)
  BY <1>2 DEF OpToRel
<1> QED BY <1>3

ListElements(s) == {s[i] : i \in 1..Len(s)}
Distinct(s)     == \A i, j \in 1..Len(s) : s[i] = s[j] => i = j

LEMMA EmptyElements == ListElements(<<>>) = {} /\ Distinct(<<>>)
BY DEF ListElements, Distinct

LEMMA AppendedElements ==
  ASSUME NEW T, NEW s \in Seq(T), NEW x \in T
  PROVE  /\ Append(s, x) \in Seq(T)
         /\ ListElements(Append(s, x)) = ListElements(s) \cup {x}
         /\ Distinct(s) /\ x \notin ListElements(s) => Distinct(Append(s, x))
<1> DEFINE n == Len(s)
           a == Append(s, x)
<1>1. /\ n \in Nat /\ a \in Seq(T) /\ Len(a) = n + 1 /\ a[n + 1] = x
      /\ \A i \in 1..n : a[i] = s[i]
  OBVIOUS
<1> HIDE DEF a, n
<1>2. 1..(n + 1) = 1..n \cup {n + 1}
  BY <1>1
<1>3. ListElements(a) = ListElements(s) \cup {x}
  BY <1>1, <1>2 DEF ListElements, n
<1>4. ASSUME Distinct(s), x \notin ListElements(s) PROVE Distinct(a)
  <2>1. \A i \in 1..n : s[i] # x
    BY <1>4 DEF ListElements, n
  <2>2. \A i, j \in 1..n : s[i] = s[j] => i = j
    BY <1>4 DEF Distinct, n
  <2>3. \A i \in 1..(n + 1) : i # n + 1 => i \in 1..n
    BY <1>2
  <2>4. ASSUME NEW i \in 1..(n + 1), NEW j \in 1..(n + 1), a[i] = a[j] PROVE i = j
    BY <1>1, <2>1, <2>2, <2>3, <2>4, Zenon
  <2> QED BY <1>1, <2>4 DEF Distinct
<1> QED BY <1>1, <1>3, <1>4 DEF a

LEMMA TailElements ==
  ASSUME NEW T, NEW s \in Seq(T), s # <<>>, Distinct(s)
  PROVE  /\ Head(s) \in T /\ Head(s) \in ListElements(s)
         /\ Tail(s) \in Seq(T) /\ Distinct(Tail(s))
         /\ ListElements(Tail(s)) = ListElements(s) \ {Head(s)}
<1> DEFINE r == Tail(s)
           n == Len(s)
<1>1. /\ n \in Nat \ {0} /\ Head(s) = s[1] /\ r \in Seq(T) /\ Len(r) = n - 1
      /\ (\A i \in 1..(n - 1) : r[i] = s[i + 1]) /\ \A i \in 1..n : s[i] \in T
  OBVIOUS
<1> HIDE DEF r, n
<1>2. \A i, j \in 1..n : s[i] = s[j] => i = j
  BY DEF Distinct, n
<1>3. Distinct(r)
  <2>1. \A i \in 1..(n - 1) : i + 1 \in 1..n
    BY <1>1
  <2>2. \A i, j \in 1..(n - 1) : s[i + 1] = s[j + 1] => i = j
    BY <1>1, <1>2, <2>1
  <2> QED BY <1>1, <2>2 DEF Distinct
<1>4. ListElements(s) = {s[i] : i \in 1..n} /\ ListElements(r) = {r[i] : i \in 1..(n - 1)}
  BY <1>1 DEF ListElements, n
<1>5. ListElements(r) = ListElements(s) \ {s[1]}
  <2>1. ASSUME NEW x \in ListElements(r) PROVE x \in ListElements(s) \ {s[1]}
    <3>1. PICK i \in 1..(n - 1) : x = r[i]
      BY <1>4, <2>1
    <3>2. x = s[i + 1] /\ i + 1 \in 1..n /\ i + 1 # 1 /\ 1 \in 1..n
      BY <1>1, <3>1
    <3> QED BY <1>2, <1>4, <3>2
  <2>2. ASSUME NEW x \in ListElements(s) \ {s[1]} PROVE x \in ListElements(r)
    <3>1. PICK i \in 1..n : x = s[i]
      BY <1>4, <2>2
    <3>2. i # 1
      BY <2>2, <3>1
    <3>3. i - 1 \in 1..(n - 1) /\ r[i - 1] = s[(i - 1) + 1] /\ (i - 1) + 1 = i
      BY <1>1, <3>1, <3>2
    <3> QED BY <1>4, <3>1, <3>3
  <2> QED BY <2>1, <2>2
<1>6. s[1] \in ListElements(s)
  BY <1>1, <1>4
<1> QED BY <1>1, <1>3, <1>5, <1>6 DEF r

(* Kept up to the i-th element, from what is kept before it.               *)
KeepStep(keep, s, S, i) ==
  IF i = 0 THEN <<>>
  ELSE IF s[i] \in S THEN Append(keep[i - 1], s[i]) ELSE keep[i - 1]

Keeps(keep, s, S, n) == keep = [i \in 0..n |-> KeepStep(keep, s, S, i)]

(* The recursion has a solution.                                           *)
LEMMA KeepExists ==
  ASSUME NEW s, NEW S, NEW n \in Nat
  PROVE  \E keep : Keeps(keep, s, S, n)
<1> DEFINE Bad == {m \in Nat : ~\E keep : Keeps(keep, s, S, m)}
<1>1. SUFFICES ASSUME Bad # {} PROVE FALSE
  OBVIOUS
<1>2. PICK m \in Bad : \A k \in Bad : m <= k
  <2>1. Bad \in SUBSET Nat
    OBVIOUS
  <2> HIDE DEF Bad
  <2> QED BY <1>1, <2>1, NatMin
<1>3. m # 0
  <2>1. SUFFICES ASSUME m = 0 PROVE FALSE
    OBVIOUS
  <2> DEFINE none == [i \in 0..0 |-> <<>>]
  <2>2. \A i \in 0..0 : KeepStep(none, s, S, i) = <<>>
    BY DEF KeepStep
  <2>3. none = [i \in 0..0 |-> KeepStep(none, s, S, i)]
    BY <2>2
  <2>4. Keeps(none, s, S, m)
    BY <2>1, <2>3 DEF Keeps
  <2> QED BY <2>4
<1>4. m \in Nat /\ m - 1 \in Nat /\ m - 1 \notin Bad
  BY <1>2, <1>3
<1>5. PICK keep : Keeps(keep, s, S, m - 1)
  BY <1>4
<1> DEFINE more == [i \in 0..m |-> IF i = m THEN KeepStep(keep, s, S, m) ELSE keep[i]]
<1>6. ASSUME NEW i \in 0..m PROVE more[i] = KeepStep(more, s, S, i)
  <2>1. i # 0 => i - 1 \in 0..(m - 1) /\ i - 1 \in 0..m /\ i - 1 # m
    BY <1>4
  <2>2. i # 0 => more[i - 1] = keep[i - 1]
    BY <2>1
  <2>3. KeepStep(more, s, S, i) = KeepStep(keep, s, S, i)
    BY <2>2 DEF KeepStep
  <2>4. CASE i = m
    BY <2>3, <2>4
  <2>5. CASE i # m
    <3>1. i \in 0..(m - 1)
      BY <1>4, <2>5
    <3>2. keep[i] = KeepStep(keep, s, S, i)
      BY <1>5, <3>1 DEF Keeps
    <3> QED BY <2>3, <2>5, <3>2
  <2> QED BY <2>4, <2>5
<1>7. Keeps(more, s, S, m)
  BY <1>6 DEF Keeps
<1> QED BY <1>2, <1>7

(* What is kept: the elements in S, no more often than before.             *)
LEMMA KeptElements ==
  ASSUME NEW T, NEW s \in Seq(T), NEW S
  PROVE  /\ Kept(s, S) \in Seq(T)
         /\ ListElements(Kept(s, S)) = ListElements(s) \cap S
         /\ Distinct(s) => Distinct(Kept(s, S))
<1> DEFINE n == Len(s)
           keep == CHOOSE k : Keeps(k, s, S, n)
<1>1. n \in Nat /\ \A i \in 1..n : s[i] \in T
  OBVIOUS
<1>2. Kept(s, S) = keep[n]
  BY DEF Kept, KeepStep, Keeps
<1>3. keep = [i \in 0..n |-> KeepStep(keep, s, S, i)]
  <2>1. Keeps(keep, s, S, n)
    BY <1>1, KeepExists
  <2> QED BY <2>1 DEF Keeps
<1> HIDE DEF keep
<1>4. \A i \in 0..n : keep[i] = KeepStep(keep, s, S, i)
  BY <1>3
<1> DEFINE Good(i) == /\ keep[i] \in Seq(T)
                      /\ ListElements(keep[i]) = {s[j] : j \in 1..i} \cap S
                      /\ Distinct(s) => Distinct(keep[i])
           Bad == {i \in 0..n : ~Good(i)}
<1>5. Good(0)
  <2>1. keep[0] = <<>>
    BY <1>1, <1>4 DEF KeepStep
  <2> QED BY <2>1 DEF ListElements, Distinct
<1>6. ASSUME NEW i \in 1..n, Good(i - 1) PROVE Good(i)
  <2> DEFINE k == keep[i - 1]
             l == Len(k)
  <2>1. i \in 0..n /\ i # 0 /\ i - 1 \in 0..n /\ 1..i = 1..(i - 1) \cup {i} /\ s[i] \in T
    BY <1>1
  <2>2. /\ k \in Seq(T) /\ l \in Nat /\ ListElements(k) = {s[j] : j \in 1..(i - 1)} \cap S
        /\ Distinct(s) => Distinct(k)
    BY <1>6
  <2>3. {s[j] : j \in 1..i} = {s[j] : j \in 1..(i - 1)} \cup {s[i]}
    BY <2>1
  <2>4. keep[i] = IF s[i] \in S THEN Append(k, s[i]) ELSE k
    BY <1>4, <2>1 DEF KeepStep
  <2> HIDE DEF k
  <2>5. CASE s[i] \notin S
    BY <2>2, <2>3, <2>4, <2>5
  <2>6. CASE s[i] \in S
    <3> DEFINE a == Append(k, s[i])
    <3>1. /\ a \in Seq(T) /\ Len(a) = l + 1 /\ a[l + 1] = s[i]
          /\ \A j \in 1..l : a[j] = k[j]
      BY <2>1, <2>2
    <3> HIDE DEF a
    <3>2. 1..(l + 1) = 1..l \cup {l + 1}
      BY <2>2
    <3>3. ListElements(a) = ListElements(k) \cup {s[i]}
      BY <3>1, <3>2 DEF ListElements
    <3>4. ASSUME Distinct(s) PROVE Distinct(a)
      <4>1. \A j \in 1..l : k[j] # s[i]
        <5>1. SUFFICES ASSUME NEW j \in 1..l, k[j] = s[i] PROVE FALSE
          OBVIOUS
        <5>2. s[i] \in ListElements(k)
          BY <5>1 DEF ListElements
        <5>3. PICK m \in 1..(i - 1) : s[m] = s[i]
          BY <2>2, <5>2
        <5> QED BY <1>1, <3>4, <5>3 DEF Distinct
      <4>2. Distinct(k)
        BY <2>2, <3>4
      <4>3. \A x, y \in 1..l : k[x] = k[y] => x = y
        BY <4>2 DEF Distinct
      <4>4. \A x \in 1..(l + 1) : x # l + 1 => x \in 1..l
        BY <3>2
      <4>5. ASSUME NEW x \in 1..(l + 1), NEW y \in 1..(l + 1), a[x] = a[y] PROVE x = y
        BY <3>1, <4>1, <4>3, <4>4, <4>5, Zenon
      <4> QED BY <3>1, <4>5 DEF Distinct
    <3>5. keep[i] = a
      BY <2>4, <2>6 DEF a
    <3>6. ListElements(a) = {s[j] : j \in 1..i} \cap S
      BY <2>2, <2>3, <2>6, <3>3
    <3> QED BY <3>1, <3>4, <3>5, <3>6, Zenon
  <2> QED BY <2>5, <2>6
<1> HIDE DEF Good
<1>7. Bad = {}
  <2>1. SUFFICES ASSUME Bad # {} PROVE FALSE
    OBVIOUS
  <2>2. Bad \in SUBSET Nat
    BY <1>1
  <2>3. PICK i \in Bad : \A k \in Bad : i <= k
    <3> HIDE DEF Bad
    <3> QED BY <2>1, <2>2, NatMin
  <2>4. i \in 1..n
    BY <1>1, <1>5, <2>3
  <2>5. i - 1 \in 0..n /\ i - 1 \notin Bad
    <3>1. i \in Int /\ ~(i <= i - 1) /\ i - 1 \in 0..n
      BY <1>1, <2>4
    <3> HIDE DEF Bad
    <3> QED BY <2>3, <3>1
  <2> QED BY <1>6, <2>3, <2>4, <2>5
<1>8. Good(n)
  <2>1. n \in 0..n
    BY <1>1
  <2> QED BY <1>7, <2>1
<1>9. ListElements(s) = {s[j] : j \in 1..n}
  BY DEF ListElements
<1> QED BY <1>2, <1>8, <1>9 DEF Good
=============================================================================
