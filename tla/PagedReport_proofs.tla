-------------------------- MODULE PagedReport_proofs --------------------------
(***************************************************************************)
(* Proofs about the answers of the paged tools, for collections of any     *)
(* length, items of any size, any page and any byte limit.                 *)
(***************************************************************************)
EXTENDS PagedReport, LeastNumber, SequenceTheorems

-----------------------------------------------------------------------------
(* The binary search                                                        *)

Bounds(top) == (0 .. top) \X (0 .. top)

\* Bounds that are no more than k apart.
Within(top, k) == {b \in Bounds(top) : b[2] <= b[1] + k}

\* Narrowed bounds are nearer to each other.
LEMMA NarrowNearer ==
    ASSUME NEW top \in Nat, NEW fits, NEW b \in Bounds(top), b[1] < b[2]
    PROVE  /\ Narrow(fits, b) \in Bounds(top)
           /\ b[1] <= Narrow(fits, b)[1] /\ Narrow(fits, b)[2] <= b[2]
           /\ Narrow(fits, b)[1] <= Narrow(fits, b)[2]
           /\ Narrow(fits, b)[2] - Narrow(fits, b)[1] < b[2] - b[1]
<1> DEFINE mid == b[1] + (b[2] - b[1] + 1) \div 2
<1>1. b[1] \in 0 .. top /\ b[2] \in 0 .. top
  BY DEF Bounds
<1>2. mid \in b[1] + 1 .. b[2]
  BY <1>1
<1>3. Narrow(fits, b) = IF mid \in fits THEN <<mid, b[2]>> ELSE <<b[1], mid - 1>>
  BY DEF Narrow
<1> HIDE DEF mid
<1>4. CASE mid \in fits
  BY <1>1, <1>2, <1>3, <1>4 DEF Bounds
<1>5. CASE mid \notin fits
  BY <1>1, <1>2, <1>3, <1>5 DEF Bounds
<1> QED
  BY <1>4, <1>5

\* The search is well defined: it comes to an end from bounds k apart, for every k.
LEMMA SearchExists ==
    ASSUME NEW top \in Nat, NEW fits
    PROVE  \E f : f = [b \in Bounds(top) |->
                         IF b[1] >= b[2] THEN b[1] ELSE f[Narrow(fits, b)]]
<1> DEFINE IsSearch(f, k) ==
             f = [b \in Within(top, k) |-> IF b[1] >= b[2] THEN b[1] ELSE f[Narrow(fits, b)]]
           T == {k \in Nat : ~ \E f : IsSearch(f, k)}
<1>1. T \subseteq Nat /\ \A k \in Nat : k \notin T <=> \E f : IsSearch(f, k)
  OBVIOUS
<1>2. Within(top, top) = Bounds(top)
  BY DEF Within, Bounds
<1>3. SUFFICES ASSUME T # {} PROVE FALSE
  BY <1>1, <1>2
<1> HIDE DEF T
<1>4. PICK k \in T : \A j \in T : k <= j
  BY <1>1, <1>3, LeastNatural
<1>5. k \in Nat
  BY <1>1
<1>6. CASE k = 0
  <2> DEFINE f == [b \in Within(top, k) |-> b[1]]
  <2>1. \A b \in Within(top, k) : b[1] >= b[2]
    BY <1>6 DEF Within, Bounds
  <2>2. f = [b \in Within(top, k) |-> IF b[1] >= b[2] THEN b[1] ELSE f[Narrow(fits, b)]]
    BY <2>1
  <2> QED
    BY <1>1, <1>5, <2>2
<1>7. CASE k # 0
  <2>1. k - 1 \in Nat /\ k - 1 \notin T
    BY <1>4, <1>5, <1>7
  <2>2. PICK g : IsSearch(g, k - 1)
    BY <1>1, <2>1
  <2> DEFINE f == [b \in Within(top, k) |->
                     IF b \in Within(top, k - 1) THEN g[b] ELSE g[Narrow(fits, b)]]
  <2>3. ASSUME NEW b \in Within(top, k), b[1] < b[2]
        PROVE  Narrow(fits, b) \in Within(top, k - 1) /\ Narrow(fits, b) \in Within(top, k)
    <3>1. b \in Bounds(top) /\ b[1] \in Nat /\ b[2] \in Nat /\ b[2] <= b[1] + k
      BY DEF Within, Bounds
    <3>2. /\ Narrow(fits, b) \in Bounds(top)
          /\ Narrow(fits, b)[2] - Narrow(fits, b)[1] < b[2] - b[1]
      BY <2>3, <3>1, NarrowNearer
    <3>3. Narrow(fits, b)[1] \in Nat /\ Narrow(fits, b)[2] \in Nat
      BY <3>2 DEF Bounds
    <3> QED
      BY <1>5, <3>1, <3>2, <3>3 DEF Within
  <2>4. ASSUME NEW b \in Within(top, k)
        PROVE  f[b] = IF b[1] >= b[2] THEN b[1] ELSE f[Narrow(fits, b)]
    <3>1. b[1] \in Nat /\ b[2] \in Nat /\ b \in Bounds(top)
      BY DEF Within, Bounds
    <3>2. \A c \in Within(top, k - 1) : c \in Within(top, k) /\ f[c] = g[c]
      BY <1>5 DEF Within, Bounds
    <3>3. \A c \in Within(top, k - 1) : g[c] = IF c[1] >= c[2] THEN c[1] ELSE g[Narrow(fits, c)]
      BY <2>2
    <3>4. CASE b \in Within(top, k - 1)
      <4>1. f[b] = IF b[1] >= b[2] THEN b[1] ELSE g[Narrow(fits, b)]
        BY <3>2, <3>3, <3>4
      <4>2. b[1] < b[2] => g[Narrow(fits, b)] = f[Narrow(fits, b)]
        BY <2>3, <3>2
      <4> HIDE DEF f
      <4> QED
        BY <3>1, <4>1, <4>2
    <3>5. CASE b \notin Within(top, k - 1)
      <4>1. f[b] = g[Narrow(fits, b)]
        BY <3>5
      <4>2. b[1] < b[2]
        BY <1>5, <1>7, <3>1, <3>5 DEF Within
      <4>3. g[Narrow(fits, b)] = f[Narrow(fits, b)]
        BY <2>3, <3>2, <4>2
      <4> HIDE DEF f
      <4> QED
        BY <3>1, <4>1, <4>2, <4>3
    <3> QED
      BY <3>4, <3>5
  <2>5. f = [b \in Within(top, k) |-> f[b]]
    OBVIOUS
  <2>6. IsSearch(f, k)
    <3> HIDE DEF f
    <3> QED
      BY <2>4, <2>5
  <2> QED
    BY <1>1, <1>5, <2>6
<1> QED
  BY <1>6, <1>7

\* It is what its definition says.
LEMMA SearchDef ==
    ASSUME NEW top \in Nat, NEW fits, NEW b \in Bounds(top)
    PROVE  Search(fits, top)[b]
             = IF b[1] >= b[2] THEN b[1] ELSE Search(fits, top)[Narrow(fits, b)]
<1> DEFINE G == Search(fits, top)
<1>1. G = [c \in Bounds(top) |-> IF c[1] >= c[2] THEN c[1] ELSE G[Narrow(fits, c)]]
  BY SearchExists DEF Search, Bounds
<1> HIDE DEF G
<1>2. G[b] = IF b[1] >= b[2] THEN b[1] ELSE G[Narrow(fits, b)]
  BY <1>1
<1> QED
  BY <1>2 DEF G

\* When whatever is below something that fits fits too, the search finds the
\* greatest between its bounds that fits, or the lower bound: induction on how far
\* apart they are.
LEMMA SearchFinds ==
    ASSUME NEW top \in Nat, NEW fits,
           \A m \in 0 .. top, n \in 0 .. top : n <= m /\ m \in fits => n \in fits,
           NEW b \in Bounds(top), b[1] <= b[2]
    PROVE  /\ Search(fits, top)[b] \in b[1] .. b[2]
           /\ Search(fits, top)[b] \in fits \/ Search(fits, top)[b] = b[1]
           /\ \A n \in Search(fits, top)[b] + 1 .. b[2] : n \notin fits
<1> DEFINE G == Search(fits, top)
           Right(c) == /\ G[c] \in c[1] .. c[2]
                       /\ G[c] \in fits \/ G[c] = c[1]
                       /\ \A n \in G[c] + 1 .. c[2] : n \notin fits
           T == {k \in Nat : \E c \in Bounds(top) : c[1] <= c[2] /\ k = c[2] - c[1] /\ ~Right(c)}
<1> HIDE DEF G
<1>1. \A c \in Bounds(top) : c[1] \in 0 .. top /\ c[2] \in 0 .. top
  BY DEF Bounds
<1>0. SUFFICES ASSUME ~Right(b) PROVE FALSE
  BY DEF G
<1>2. T # {}
  <2>1. b[2] - b[1] \in Nat
    BY <1>1
  <2> HIDE DEF Right
  <2> QED
    BY <1>0, <2>1
<1>3. PICK k \in T : \A j \in T : k <= j
  BY <1>2, LeastNatural
<1>4. PICK c \in Bounds(top) : c[1] <= c[2] /\ k = c[2] - c[1] /\ ~Right(c)
  BY <1>3
<1>5. G[c] = IF c[1] >= c[2] THEN c[1] ELSE G[Narrow(fits, c)]
  BY SearchDef DEF G
<1>6. c[1] < c[2]
  BY <1>1, <1>4, <1>5
<1> DEFINE d == Narrow(fits, c)
           mid == c[1] + (c[2] - c[1] + 1) \div 2
<1>7. d \in Bounds(top) /\ d[1] <= d[2] /\ d[2] - d[1] < k /\ d[2] - d[1] \in Nat
      /\ c[1] <= d[1] /\ d[2] <= c[2]
  BY <1>1, <1>4, <1>6, NarrowNearer
<1>8. d = IF mid \in fits THEN <<mid, c[2]>> ELSE <<c[1], mid - 1>>
  BY DEF Narrow
<1>9. Right(d)
  <2>1. d[2] - d[1] \notin T
    BY <1>1, <1>3, <1>7
  <2> QED
    BY <1>7, <2>1
<1>10. G[c] = G[d]
  BY <1>1, <1>5, <1>6
<1>11. mid \in 0 .. top
  BY <1>1, <1>6
<1> HIDE DEF d, mid
<1>12. CASE mid \in fits
  <2>1. d[1] = mid /\ d[2] = c[2]
    BY <1>8, <1>12
  <2> QED
    BY <1>1, <1>4, <1>7, <1>9, <1>10, <1>12, <2>1
<1>13. CASE mid \notin fits
  <2>1. d[1] = c[1] /\ d[2] = mid - 1
    BY <1>8, <1>13
  <2>2. \A n \in mid .. c[2] : n \notin fits
    BY <1>1, <1>11, <1>13
  <2>3. \A n \in G[c] + 1 .. c[2] : n \notin fits
    BY <1>1, <1>7, <1>9, <1>10, <1>11, <2>1, <2>2
  <2> QED
    BY <1>1, <1>4, <1>7, <1>9, <1>10, <2>1, <2>3
<1> QED
  BY <1>12, <1>13

-----------------------------------------------------------------------------
(* Sizes                                                                    *)

\* The sums of a sequence are well defined.
LEMMA SumsExists ==
    ASSUME NEW s \in Seq(Nat)
    PROVE  \E f : f = [m \in 0 .. Len(s) |-> IF m = 0 THEN 0 ELSE f[m - 1] + s[m]]
<1> DEFINE IsSums(f, k) == f = [m \in 0 .. k |-> IF m = 0 THEN 0 ELSE f[m - 1] + s[m]]
           T == {k \in Nat : ~ \E f : IsSums(f, k)}
<1>1. T \subseteq Nat /\ \A k \in Nat : k \notin T <=> \E f : IsSums(f, k)
  OBVIOUS
<1>2. SUFFICES ASSUME T # {} PROVE FALSE
  BY <1>1
<1> HIDE DEF T
<1>3. PICK k \in T : \A j \in T : k <= j
  BY <1>1, <1>2, LeastNatural
<1>4. k \in Nat
  BY <1>1
<1>5. CASE k = 0
  <2> DEFINE f == [m \in 0 .. k |-> 0]
  <2>1. \A m \in 0 .. k : m = 0
    BY <1>5
  <2>2. f = [m \in 0 .. k |-> IF m = 0 THEN 0 ELSE f[m - 1] + s[m]]
    BY <2>1
  <2> QED
    BY <1>1, <1>4, <2>2
<1>6. CASE k # 0
  <2>1. k - 1 \in Nat /\ k - 1 \notin T
    BY <1>3, <1>4, <1>6
  <2>2. PICK g : IsSums(g, k - 1)
    BY <1>1, <2>1
  <2> DEFINE f == [m \in 0 .. k |-> IF m = k THEN g[k - 1] + s[k] ELSE g[m]]
  <2>3. ASSUME NEW m \in 0 .. k
        PROVE  f[m] = IF m = 0 THEN 0 ELSE f[m - 1] + s[m]
    <3>1. \A j \in 0 .. k - 1 : f[j] = g[j]
      BY <1>4
    <3>2. CASE m = k
      <4>1. f[m] = g[k - 1] + s[k] /\ k - 1 \in 0 .. k - 1
        BY <1>4, <1>6, <3>2
      <4> HIDE DEF f
      <4> QED
        BY <1>6, <3>1, <3>2, <4>1
    <3>3. CASE m # k
      <4>1. m \in 0 .. k - 1 /\ (m # 0 => m - 1 \in 0 .. k - 1)
        BY <1>4, <3>3
      <4>2. g[m] = IF m = 0 THEN 0 ELSE g[m - 1] + s[m]
        BY <2>2, <4>1
      <4> HIDE DEF f
      <4> QED
        BY <3>1, <4>1, <4>2
    <3> QED
      BY <3>2, <3>3
  <2>4. f = [m \in 0 .. k |-> f[m]]
    OBVIOUS
  <2>5. IsSums(f, k)
    <3> HIDE DEF f
    <3> QED
      BY <2>3, <2>4
  <2> QED
    BY <1>1, <1>4, <2>5
<1> QED
  BY <1>5, <1>6

\* They are what their definition says.
LEMMA SumsDef ==
    ASSUME NEW s \in Seq(Nat)
    PROVE  /\ Sums(s)[0] = 0
           /\ \A m \in 1 .. Len(s) : Sums(s)[m] = Sums(s)[m - 1] + s[m]
<1> DEFINE G == Sums(s)
<1>1. G = [m \in 0 .. Len(s) |-> IF m = 0 THEN 0 ELSE G[m - 1] + s[m]]
  BY SumsExists DEF Sums
<1>2. Len(s) \in Nat
  OBVIOUS
<1> HIDE DEF G
<1>3. G[0] = 0 /\ \A m \in 1 .. Len(s) : G[m] = G[m - 1] + s[m]
  BY <1>1, <1>2
<1> QED
  BY <1>3 DEF G

\* Sums are naturals, and those of a sequence with smaller members are smaller:
\* induction on the number of members.
LEMMA SumsLess ==
    ASSUME NEW s \in Seq(Nat), NEW t \in Seq(Nat), Len(s) <= Len(t),
           \A m \in 1 .. Len(s) : s[m] <= t[m]
    PROVE  \A m \in 0 .. Len(s) : Sums(s)[m] \in Nat /\ Sums(t)[m] \in Nat /\ Sums(s)[m] <= Sums(t)[m]
<1>1. Len(s) \in Nat /\ Len(t) \in Nat
  OBVIOUS
<1>2. PICK a : a = Sums(s)
  OBVIOUS
<1>3. PICK b : b = Sums(t)
  OBVIOUS
<1>4. a[0] = 0 /\ b[0] = 0
      /\ \A m \in 1 .. Len(s) : a[m] = a[m - 1] + s[m] /\ b[m] = b[m - 1] + t[m]
  <2>1. a[0] = 0 /\ \A m \in 1 .. Len(s) : a[m] = a[m - 1] + s[m]
    BY <1>2, SumsDef
  <2>2. b[0] = 0 /\ \A m \in 1 .. Len(t) : b[m] = b[m - 1] + t[m]
    BY <1>3, SumsDef
  <2>3. \A m \in 1 .. Len(s) : m \in 1 .. Len(t)
    BY <1>1
  <2> QED
    BY <2>1, <2>2, <2>3
<1> DEFINE Good(j) == a[j] \in Nat /\ b[j] \in Nat /\ a[j] <= b[j]
           T == {j \in 0 .. Len(s) : ~Good(j)}
<1> HIDE DEF Good
<1>5. SUFFICES ASSUME T # {} PROVE FALSE
  BY <1>2, <1>3 DEF Good
<1>6. PICK m \in T : \A k \in T : m <= k
  <2>1. T \subseteq Nat
    OBVIOUS
  <2> HIDE DEF T
  <2> QED
    BY <1>5, <2>1, LeastNatural
<1>7. m \in 1 .. Len(s) /\ m - 1 \in 0 .. Len(s) /\ m - 1 \notin T
  <2>1. Good(0)
    BY <1>4 DEF Good
  <2> QED
    BY <1>1, <1>6, <2>1
<1>8. Good(m - 1) /\ ~Good(m)
  BY <1>6, <1>7
<1>9. s[m] \in Nat /\ t[m] \in Nat /\ s[m] <= t[m]
  <2>1. \A k \in 1 .. Len(s) : s[k] \in Nat /\ t[k] \in Nat /\ s[k] <= t[k]
    BY <1>1
  <2> QED
    BY <1>7, <2>1
<1>10. a[m] = a[m - 1] + s[m] /\ b[m] = b[m - 1] + t[m]
  BY <1>4, <1>7
<1>11. \A w \in Nat, x \in Nat, y \in Nat, z \in Nat :
         w <= x /\ y <= z => w + y \in Nat /\ x + z \in Nat /\ w + y <= x + z
  OBVIOUS
<1>12. Good(m)
  <2>1. a[m - 1] \in Nat /\ b[m - 1] \in Nat /\ a[m - 1] <= b[m - 1]
    BY <1>8 DEF Good
  <2>2. /\ a[m - 1] + s[m] \in Nat /\ b[m - 1] + t[m] \in Nat
        /\ a[m - 1] + s[m] <= b[m - 1] + t[m]
    BY <1>9, <1>11, <2>1
  <2>3. a[m] \in Nat /\ b[m] \in Nat /\ a[m] <= b[m]
    BY <1>10, <2>2
  <2> QED
    BY <2>3 DEF Good
<1> QED
  BY <1>8, <1>12

\* Sums grow with the number of members.
LEMMA SumsGrow ==
    ASSUME NEW s \in Seq(Nat), NEW n \in 0 .. Len(s), NEW k \in n .. Len(s)
    PROVE  Sums(s)[n] <= Sums(s)[k]
<1> DEFINE a == Sums(s)
           T == {m \in n .. Len(s) : ~(a[n] <= a[m])}
<1>1. Len(s) \in Nat /\ T \subseteq Nat
  OBVIOUS
<1>2. \A m \in 0 .. Len(s) : a[m] \in Nat
  <2>1. \A m \in 1 .. Len(s) : s[m] <= s[m]
    OBVIOUS
  <2> QED
    BY <1>1, <2>1, SumsLess
<1>3. SUFFICES ASSUME T # {} PROVE FALSE
  OBVIOUS
<1>4. PICK m \in T : \A j \in T : m <= j
  BY <1>1, <1>3, LeastNatural
<1>5. m # n
  BY <1>2, <1>4
<1>6. m \in 1 .. Len(s) /\ m - 1 \in 0 .. Len(s) /\ m - 1 \in n .. Len(s) /\ m - 1 \notin T
  BY <1>1, <1>4, <1>5
<1>7. a[m] = a[m - 1] + s[m] /\ s[m] \in Nat
  BY <1>6, SumsDef
<1> HIDE DEF a
<1>8. a[n] <= a[m - 1] /\ a[n] \in Nat /\ a[m - 1] \in Nat
  BY <1>2, <1>6
<1>9. a[n] <= a[m]
  BY <1>7, <1>8
<1> QED
  BY <1>4, <1>9

\* A longer prefix is larger.
LEMMA PrefixLess ==
    ASSUME NEW s \in Seq(Nat), NEW k \in 0 .. Len(s), NEW n \in 0 .. k
    PROVE  /\ Sum(SubSeq(s, 1, n)) \in Nat /\ Sum(SubSeq(s, 1, k)) \in Nat
           /\ Sum(SubSeq(s, 1, n)) <= Sum(SubSeq(s, 1, k))
<1> DEFINE a == SubSeq(s, 1, n)
           b == SubSeq(s, 1, k)
<1>1. /\ a \in Seq(Nat) /\ Len(a) = n /\ \A m \in 1 .. n : a[m] = s[m]
      /\ b \in Seq(Nat) /\ Len(b) = k /\ \A m \in 1 .. k : b[m] = s[m]
  OBVIOUS
<1>2. /\ n \in Nat /\ k \in Nat /\ n <= k
      /\ \A m \in 1 .. k : s[m] \in Nat /\ s[m] <= s[m]
      /\ \A m \in 1 .. n : m \in 1 .. k
  OBVIOUS
<1> HIDE DEF a, b
<1>3. Sums(a)[n] \in Nat /\ Sums(a)[n] <= Sums(b)[n]
  <2>1. Len(a) <= Len(b) /\ n \in 0 .. Len(a)
    BY <1>1, <1>2
  <2>2. ASSUME NEW m \in 1 .. Len(a) PROVE a[m] <= b[m]
    <3>1. a[m] = s[m] /\ b[m] = s[m] /\ s[m] <= s[m]
      BY <1>1, <1>2
    <3> QED
      BY <3>1
  <2> QED
    BY <1>1, <2>1, <2>2, SumsLess
<1>4. Sums(b)[k] \in Nat /\ Sums(b)[n] \in Nat
  <2>1. Len(b) <= Len(b) /\ {k, n} \subseteq 0 .. Len(b) /\ \A m \in 1 .. Len(b) : b[m] <= b[m]
    BY <1>1, <1>2
  <2> QED
    BY <1>1, <2>1, SumsLess
<1>5. Sums(b)[n] <= Sums(b)[k]
  <2>1. n \in 0 .. Len(b) /\ k \in n .. Len(b)
    BY <1>1, <1>2
  <2> QED
    BY <1>1, <2>1, SumsGrow
<1>6. Sum(a) = Sums(a)[n] /\ Sum(b) = Sums(b)[k]
  BY <1>1 DEF Sum
<1> QED
  BY <1>3, <1>4, <1>5, <1>6 DEF a, b

\* So is a sequence of as many members none of which is smaller.
LEMMA SumLess ==
    ASSUME NEW s \in Seq(Nat), NEW t \in Seq(Nat), Len(s) = Len(t),
           \A m \in 1 .. Len(s) : s[m] <= t[m]
    PROVE  Sum(s) \in Nat /\ Sum(t) \in Nat /\ Sum(s) <= Sum(t)
<1>1. Len(s) \in 0 .. Len(s) /\ Len(s) <= Len(t)
  OBVIOUS
<1> QED
  BY <1>1, SumsLess DEF Sum

-----------------------------------------------------------------------------
(* Answers                                                                  *)

\* An answer with k arrays.
Answers(k) ==
    [arrays : [1 .. k -> Seq(Nat)], offset : Nat, total : Nat, cut : Nat, next : Nat]

\* What an answer renders to is a size.
LEMMA RenderedSize ==
    ASSUME NEW k \in Nat, NEW r \in Answers(k)
    PROVE  /\ Rendered(r) \in Nat
           /\ [j \in DOMAIN r.arrays |-> Sum(r.arrays[j])] \in Seq(Nat)
           /\ Len([j \in DOMAIN r.arrays |-> Sum(r.arrays[j])]) = k
<1>1. DOMAIN r.arrays = 1 .. k /\ \A j \in 1 .. k : r.arrays[j] \in Seq(Nat)
  BY DEF Answers
<1>2. \A j \in 1 .. k : Sum(r.arrays[j]) \in Nat
  <2> TAKE j \in 1 .. k
  <2>1. \A s \in Seq(Nat) : \A m \in 1 .. Len(s) : s[m] <= s[m]
    OBVIOUS
  <2> QED
    BY <1>1, <2>1, SumLess
<1> DEFINE sizes == [j \in DOMAIN r.arrays |-> Sum(r.arrays[j])]
<1>3. sizes \in Seq(Nat) /\ Len(sizes) = k
  BY <1>1, <1>2
<1> HIDE DEF sizes
<1>4. Sum(sizes) \in Nat
  <2>1. \A m \in 1 .. Len(sizes) : sizes[m] <= sizes[m]
    BY <1>3
  <2> QED
    BY <1>3, <2>1, SumLess
<1>5. Frame \in Nat /\ Marker \in Nat
  BY PagedAssumption
<1> QED
  BY <1>3, <1>4, <1>5 DEF Rendered, sizes

\* The answer a with n items of its array i, marked as cut, is b.
CutTo(k, a, i, n, b) ==
    /\ b \in Answers(k)
    /\ b.arrays = [a.arrays EXCEPT ![i] = SubSeq(a.arrays[i], 1, n)]
    /\ b.cut = i /\ b.next = a.offset + n
    /\ b.offset = a.offset /\ b.total = a.total
    /\ Len(b.arrays[i]) = n

\* What building a cut answer does.
LEMMA BuildFacts ==
    ASSUME NEW k \in Nat, NEW r \in Answers(k), NEW i \in 1 .. k,
           NEW n \in 0 .. Len(r.arrays[i])
    PROVE  CutTo(k, r, i, n, Build(r, i, n))
<1>1. SubSeq(r.arrays[i], 1, n) \in Seq(Nat) /\ Len(SubSeq(r.arrays[i], 1, n)) = n
  <2>1. r.arrays[i] \in Seq(Nat)
    BY DEF Answers
  <2> QED
    BY <2>1
<1> DEFINE sub == SubSeq(r.arrays[i], 1, n)
<1>2. Build(r, i, n) = [r EXCEPT !.arrays[i] = sub, !.cut = i, !.next = r.offset + n]
  BY DEF Build
<1> HIDE DEF sub
<1>3. n \in Nat /\ i \in Nat /\ r.offset + n \in Nat
  <2>1. r.arrays[i] \in Seq(Nat) /\ r.offset \in Nat
    BY DEF Answers
  <2> QED
    BY <2>1
<1>4. Build(r, i, n) = [arrays |-> [r.arrays EXCEPT ![i] = sub], offset |-> r.offset,
                        total |-> r.total, cut |-> i, next |-> r.offset + n]
  BY <1>2 DEF Answers
<1> QED
  BY <1>1, <1>3, <1>4 DEF Answers, CutTo, sub

\* A shorter cut is no larger.
LEMMA RenderedLess ==
    ASSUME NEW k \in Nat, NEW r \in Answers(k), NEW i \in 1 .. k,
           NEW m \in 0 .. Len(r.arrays[i]), NEW n \in 0 .. m
    PROVE  Rendered(Build(r, i, n)) <= Rendered(Build(r, i, m))
<1> DEFINE a == Build(r, i, n)
           b == Build(r, i, m)
<1>1. r.arrays \in [1 .. k -> Seq(Nat)] /\ n \in 0 .. Len(r.arrays[i])
  <2>1. r.arrays \in [1 .. k -> Seq(Nat)]
    BY DEF Answers
  <2>2. Len(r.arrays[i]) \in Nat
    BY <2>1
  <2> QED
    BY <2>1, <2>2
<1>2. /\ a \in Answers(k) /\ a.arrays = [r.arrays EXCEPT ![i] = SubSeq(r.arrays[i], 1, n)]
      /\ a.cut = i
  <2>1. CutTo(k, r, i, n, a)
    BY <1>1, BuildFacts
  <2> QED
    BY <2>1 DEF CutTo
<1>3. /\ b \in Answers(k) /\ b.arrays = [r.arrays EXCEPT ![i] = SubSeq(r.arrays[i], 1, m)]
      /\ b.cut = i
  <2>1. CutTo(k, r, i, m, b)
    BY BuildFacts
  <2> QED
    BY <2>1 DEF CutTo
<1> DEFINE s == [j \in DOMAIN a.arrays |-> Sum(a.arrays[j])]
           t == [j \in DOMAIN b.arrays |-> Sum(b.arrays[j])]
<1>4. Sum(SubSeq(r.arrays[i], 1, n)) <= Sum(SubSeq(r.arrays[i], 1, m))
  <2>1. r.arrays[i] \in Seq(Nat)
    BY <1>1
  <2> QED
    BY <2>1, PrefixLess
<1> HIDE DEF a, b
<1>5. s \in Seq(Nat) /\ t \in Seq(Nat) /\ Len(s) = k /\ Len(t) = k
  BY <1>2, <1>3, RenderedSize
<1>6. ASSUME NEW j \in 1 .. k PROVE s[j] <= t[j]
  <2>1. DOMAIN a.arrays = 1 .. k /\ DOMAIN b.arrays = 1 .. k
    BY <1>1, <1>2, <1>3
  <2>2. s[j] = Sum(a.arrays[j]) /\ t[j] = Sum(b.arrays[j])
    BY <2>1
  <2>3. s[j] \in Nat
    <3> HIDE DEF s, t
    <3> QED
      BY <1>5
  <2>4. CASE j = i
    BY <1>1, <1>2, <1>3, <1>4, <2>2, <2>4
  <2>5. CASE j # i
    <3>1. a.arrays[j] = b.arrays[j]
      BY <1>1, <1>2, <1>3, <2>5
    <3> QED
      BY <2>2, <2>3, <3>1
  <2> QED
    BY <2>4, <2>5
<1> HIDE DEF s, t
<1>7. Sum(s) \in Nat /\ Sum(t) \in Nat /\ Sum(s) <= Sum(t)
  BY <1>5, <1>6, SumLess
<1>8. Rendered(a) = Sum(s) + (IF i = 0 THEN Frame ELSE Frame + Marker)
  BY <1>2 DEF Rendered, s
<1>9. Rendered(b) = Sum(t) + (IF i = 0 THEN Frame ELSE Frame + Marker)
  BY <1>3 DEF Rendered, t
<1>10. Frame \in Nat /\ Marker \in Nat
  BY PagedAssumption
<1> QED
  BY <1>7, <1>8, <1>9, <1>10 DEF a, b

\* Of any number of lengths one is the greatest, the last one of those: induction
\* on how many there are.
LEMMA GreatestIn ==
    ASSUME NEW k \in Nat \ {0}, NEW L \in [1 .. k -> Nat]
    PROVE  \E i \in 1 .. k : \A j \in 1 .. k : L[j] < L[i] \/ (L[j] = L[i] /\ j <= i)
<1> DEFINE Best(i, j) == L[j] < L[i] \/ (L[j] = L[i] /\ j <= i)
           Has(h) == \E i \in 1 .. h : \A j \in 1 .. h : Best(i, j)
           T == {h \in 1 .. k : ~Has(h)}
<1>1. SUFFICES ASSUME ~Has(k) PROVE FALSE
  OBVIOUS
<1> HIDE DEF Has
<1>2. k \in T
  BY <1>1
<1>3. PICK h \in T : \A g \in T : h <= g
  <2>1. T \subseteq Nat /\ T # {}
    BY <1>2
  <2> HIDE DEF T
  <2> QED
    BY <2>1, LeastNatural
<1>4. h \in 1 .. k /\ ~Has(h)
  BY <1>3
<1>5. h # 1
  <2>1. \A j \in 1 .. 1 : j = 1
    OBVIOUS
  <2>2. Best(1, 1) /\ 1 \in 1 .. 1
    OBVIOUS
  <2>3. Has(1)
    BY <2>1, <2>2 DEF Has
  <2> QED
    BY <1>4, <2>3
<1>6. h - 1 \in 1 .. k /\ Has(h - 1)
  BY <1>3, <1>4, <1>5
<1>7. PICK i \in 1 .. h - 1 : \A j \in 1 .. h - 1 : Best(i, j)
  BY <1>6 DEF Has
<1>8. i \in 1 .. k /\ i \in 1 .. h /\ h \in 1 .. h
      /\ \A j \in 1 .. h : j \in 1 .. k /\ (j \in 1 .. h - 1 \/ j = h)
  BY <1>4, <1>6
<1>9. L[h] \in Nat /\ L[i] \in Nat /\ \A j \in 1 .. h : L[j] \in Nat
  BY <1>4, <1>8
<1>10. CASE L[h] < L[i]
  <2>1. Best(i, h)
    BY <1>10
  <2>2. \A j \in 1 .. h : Best(i, j)
    BY <1>7, <1>8, <2>1
  <2> QED
    BY <1>4, <1>8, <2>2 DEF Has
<1>11. CASE ~(L[h] < L[i])
  <2>1. ASSUME NEW j \in 1 .. h PROVE Best(h, j)
    <3>1. CASE j = h
      BY <1>9, <3>1
    <3>2. CASE j \in 1 .. h - 1
      <4>1. Best(i, j) /\ L[j] \in Nat /\ j <= h
        BY <1>4, <1>7, <1>9, <3>2
      <4> QED
        BY <1>9, <1>11, <4>1
    <3> QED
      BY <1>8, <3>1, <3>2
  <2> HIDE DEF Best
  <2> QED
    BY <1>4, <1>8, <2>1 DEF Has
<1> QED
  BY <1>10, <1>11

\* The longest array is one of the answer's.
LEMMA LongestIn ==
    ASSUME NEW k \in Nat \ {0}, NEW r \in Answers(k)
    PROVE  Longest(r) \in 1 .. k
<1> DEFINE L == [j \in 1 .. k |-> Len(r.arrays[j])]
<1>1. DOMAIN r.arrays = 1 .. k /\ L \in [1 .. k -> Nat]
  BY DEF Answers
<1>2. \E i \in 1 .. k : \A j \in 1 .. k : L[j] < L[i] \/ (L[j] = L[i] /\ j <= i)
  <2> HIDE DEF L
  <2> QED
    BY <1>1, GreatestIn
<1>3. \E i \in DOMAIN r.arrays : \A j \in DOMAIN r.arrays :
        \/ Len(r.arrays[j]) < Len(r.arrays[i])
        \/ Len(r.arrays[j]) = Len(r.arrays[i]) /\ j <= i
  BY <1>1, <1>2
<1> QED
  BY <1>1, <1>3 DEF Longest

\* What an answer that is too large is cut to.
LEMMA ShrinkFacts ==
    ASSUME NEW k \in Nat \ {0}, NEW r \in Answers(k), Rendered(r) > Budget
    PROVE  \E i \in 1 .. k : \E n \in 0 .. Len(r.arrays[i]) :
             /\ Shrink(r) = Build(r, i, n)
             /\ Rendered(Shrink(r)) <= Budget \/ n = 0
             /\ \A m \in n + 1 .. Len(r.arrays[i]) : Rendered(Build(r, i, m)) > Budget
<1> DEFINE i == Longest(r)
           top == Len(r.arrays[i])
           fits == {m \in 0 .. top : Rendered(Build(r, i, m)) <= Budget}
           n == Search(fits, top)[<<0, top>>]
<1>0. Budget \in Nat /\ Rendered(r) \in Nat
  BY PagedAssumption, RenderedSize
<1>1. i \in 1 .. k
  BY LongestIn
<1>2. top \in Nat
  <2>1. r.arrays[i] \in Seq(Nat)
    BY <1>1 DEF Answers
  <2> QED
    BY <2>1
<1>3. Shrink(r) = Build(r, i, n)
  BY <1>0 DEF Shrink, Bisect
<1> HIDE DEF i
<1>4. \A m \in 0 .. top : Rendered(Build(r, i, m)) \in Nat
  <2> TAKE m \in 0 .. top
  <2>1. CutTo(k, r, i, m, Build(r, i, m))
    BY <1>1, BuildFacts
  <2> QED
    BY <2>1, RenderedSize DEF CutTo
<1>5. ASSUME NEW m \in 0 .. top, NEW l \in 0 .. top, l <= m, m \in fits PROVE l \in fits
  <2>1. l \in 0 .. m
    BY <1>2, <1>5
  <2>2. Rendered(Build(r, i, l)) <= Rendered(Build(r, i, m))
    BY <1>1, <2>1, RenderedLess
  <2> QED
    BY <1>0, <1>4, <1>5, <2>2
<1>6. <<0, top>> \in Bounds(top) /\ <<0, top>>[1] = 0 /\ <<0, top>>[2] = top /\ 0 <= top
  BY <1>2 DEF Bounds
<1> HIDE DEF fits, top
<1>7. /\ n \in 0 .. top
      /\ n \in fits \/ n = 0
      /\ \A m \in n + 1 .. top : m \notin fits
  BY <1>2, <1>5, <1>6, SearchFinds
<1> HIDE DEF n
<1>8. \A m \in n + 1 .. top : Rendered(Build(r, i, m)) > Budget
  <2> TAKE m \in n + 1 .. top
  <2>1. m \in 0 .. top /\ m \notin fits
    BY <1>2, <1>7
  <2> QED
    BY <1>0, <1>4, <2>1 DEF fits
<1>9. n \in 0 .. Len(r.arrays[i])
  BY <1>7 DEF top
<1>10. \A m \in n + 1 .. Len(r.arrays[i]) : Rendered(Build(r, i, m)) > Budget
  BY <1>8 DEF top
<1>11. Rendered(Build(r, i, n)) <= Budget \/ n = 0
  BY <1>7 DEF fits
<1> QED
  BY <1>1, <1>3, <1>9, <1>10, <1>11

-----------------------------------------------------------------------------
(* The walk                                                                 *)

ToolNames == {"query_stats", "site_health_report", "topology_report", "traffic_flow_report"}

\* How many arrays an answer has.
Width == Len(Arrays(tool))

\* The call, and what the controller holds.
CallInv ==
    /\ tool \in Tools /\ limit \in Limits /\ refused \in {{}, PrivateLegs(tool)}
    /\ held \in Holdings[tool] /\ cursor \in Nat

\* Everything before the cursor was shown.
Caught == ~astray => 1 .. cursor \subseteq seen

\* How many items a page has.
PageLen == IF cursor + limit < report.total THEN limit ELSE report.total - cursor

\* The report is that of the page the cursor names.
ReportInv ==
    pc \in {"gathered", "answered"} =>
        /\ report \in Answers(Width)
        /\ report.cut = 0 /\ report.offset = cursor /\ report.total = Fetched
        /\ cursor <= report.total /\ refused # Legs(tool)
        /\ Len(report.arrays[Paged(tool)]) = PageLen
        /\ Caught

\* The answer is what is left of it, and what it shows is seen.
AnswerInv ==
    pc = "answered" =>
        /\ answer = Shrink(report)
        /\ ~astray => answer.cut \in {0, Paged(tool)} /\ Shown(answer) \subseteq seen

AskInv == pc = "asking" => cursor <= Fetched /\ Caught

WalkInv == CallInv /\ ReportInv /\ AnswerInv /\ AskInv /\ WalkSeesAll

\* An answer has arrays, and one of them is paged.
LEMMA WidthFacts ==
    ASSUME NEW t \in Tools
    PROVE  /\ Len(Arrays(t)) \in Nat \ {0} /\ DOMAIN Arrays(t) = 1 .. Len(Arrays(t))
           /\ Paged(t) \in 1 .. Len(Arrays(t))
<1>1. t \in ToolNames
  BY PagedAssumption DEF ToolNames
<1>2. CASE t = "query_stats"
  BY <1>2 DEF Arrays, Paged
<1>3. CASE t = "site_health_report"
  BY <1>3 DEF Arrays, Paged
<1>4. CASE t = "topology_report"
  BY <1>4 DEF Arrays, Paged
<1>5. CASE t = "traffic_flow_report"
  BY <1>5 DEF Arrays, Paged
<1> QED
  BY <1>1, <1>2, <1>3, <1>4, <1>5 DEF ToolNames

\* There are finitely many legs to refuse.
LEMMA LegsFinite ==
    ASSUME NEW t \in Tools
    PROVE  IsFiniteSet(Legs(t))
<1>1. t \in ToolNames
  BY PagedAssumption DEF ToolNames
<1>2. \A x, y, z : IsFiniteSet({x}) /\ IsFiniteSet({y, z}) /\ IsFiniteSet({x, y, z})
  <2> TAKE x, y, z
  <2>1. IsFiniteSet({x}) /\ IsFiniteSet({z})
    BY FS_Singleton
  <2>2. IsFiniteSet({z} \cup {y})
    BY <2>1, FS_AddElement
  <2>3. IsFiniteSet(({z} \cup {y}) \cup {x})
    BY <2>2, FS_AddElement
  <2>4. {z} \cup {y} = {y, z} /\ ({z} \cup {y}) \cup {x} = {x, y, z}
    OBVIOUS
  <2> QED
    BY <2>1, <2>2, <2>3, <2>4
<1>3. CASE t = "query_stats"
  BY <1>2, <1>3 DEF Legs
<1>4. CASE t = "site_health_report"
  BY <1>2, <1>4 DEF Legs
<1>5. CASE t = "topology_report"
  BY <1>2, <1>5 DEF Legs
<1>6. CASE t = "traffic_flow_report"
  BY <1>2, <1>6 DEF Legs
<1> QED
  BY <1>1, <1>3, <1>4, <1>5, <1>6 DEF ToolNames

\* How many items a report pages through.
LEMMA FetchedFacts ==
    ASSUME CallInv
    PROVE  /\ held.items \in Seq(Item) /\ Len(held.items) \in Nat
           /\ Fetched \in Nat /\ Fetched <= Len(held.items)
<1>1. held.items \in Seq(Item)
  BY PagedAssumption DEF CallInv, IsHolding
<1>2. UpstreamPage \in Nat
  BY PagedAssumption
<1> QED
  BY <1>1, <1>2 DEF Fetched

\* Whatever is refused, a report that is made has the leg it pages.
LEMMA PagedLegGiven ==
    ASSUME CallInv, refused # Legs(tool)
    PROVE  PagedLeg \notin refused
<1>1. tool \in ToolNames /\ refused \in {{}, PrivateLegs(tool)}
  BY PagedAssumption DEF ToolNames, CallInv
<1>2. CASE tool = "query_stats"
  BY <1>1, <1>2 DEF PrivateLegs, Legs
<1>3. CASE tool = "site_health_report"
  BY <1>1, <1>3 DEF PrivateLegs, PagedLeg, LegOf, Arrays, Paged
<1>4. CASE tool = "topology_report"
  BY <1>1, <1>4 DEF PrivateLegs, PagedLeg, LegOf, Arrays, Paged
<1>5. CASE tool = "traffic_flow_report"
  BY <1>1, <1>5 DEF PrivateLegs, PagedLeg, LegOf, Arrays, Paged
<1> QED
  BY <1>1, <1>2, <1>3, <1>4, <1>5 DEF ToolNames

\* What is paged is a sequence of sizes.
LEMMA CollectionFacts ==
    ASSUME CallInv
    PROVE  Collection \in Seq(Nat) /\ Len(Collection) = Fetched /\ Fetched \in Nat
<1>1. /\ held.items \in Seq(Item) /\ Len(held.items) \in Nat
      /\ Fetched \in Nat /\ Fetched <= Len(held.items)
  BY FetchedFacts
<1>2. \A j \in 1 .. Fetched : held.items[j].own \in Nat /\ held.items[j].stats \in Nat
  <2>1. \A j \in 1 .. Fetched : held.items[j] \in Item
    BY <1>1
  <2>2. \A item \in Item : item.own \in Nat /\ item.stats \in Nat
    BY DEF Item
  <2> QED
    BY <2>1, <2>2
<1> DEFINE sizes == [j \in 1 .. Fetched |->
              held.items[j].own +
              (IF Legs(tool) \cap Joined \subseteq refused THEN 0 ELSE held.items[j].stats)]
<1>3. sizes \in [1 .. Fetched -> Nat]
  BY <1>2
<1>4. Collection = sizes
  BY DEF Collection
<1> HIDE DEF sizes
<1> QED
  BY <1>1, <1>3, <1>4

\* What a tool gathers is an answer, with the page the cursor names.
LEMMA GatheredFacts ==
    ASSUME CallInv, cursor <= Fetched
    PROVE  /\ Gathered \in Answers(Width)
           /\ Gathered.cut = 0 /\ Gathered.offset = cursor /\ Gathered.total = Fetched
           /\ Len(Gathered.arrays[Paged(tool)])
                = IF cursor + limit < Fetched THEN limit ELSE Fetched - cursor
<1>1. /\ Collection \in Seq(Nat) /\ Len(Collection) = Fetched /\ Fetched \in Nat
      /\ cursor \in Nat /\ limit \in Nat /\ tool \in Tools
  <2>1. limit \in Nat
    BY PagedAssumption DEF CallInv
  <2> QED
    BY <2>1, CollectionFacts DEF CallInv
<1>2. /\ Width \in Nat \ {0} /\ DOMAIN Arrays(tool) = 1 .. Width /\ Paged(tool) \in 1 .. Width
  BY <1>1, WidthFacts DEF Width
<1>3. /\ Paginate(Collection) \in Seq(Nat)
      /\ Len(Paginate(Collection)) = IF cursor + limit < Fetched THEN limit ELSE Fetched - cursor
  <2> DEFINE last == IF cursor + limit < Fetched THEN cursor + limit ELSE Fetched
  <2>1. last \in cursor .. Fetched /\ cursor + 1 \in 1 .. Fetched + 1
    BY <1>1
  <2>2. Paginate(Collection) = SubSeq(Collection, cursor + 1, last)
    BY <1>1 DEF Paginate
  <2>3. last - cursor = IF cursor + limit < Fetched THEN limit ELSE Fetched - cursor
    BY <1>1
  <2> HIDE DEF last
  <2>4. \A j \in cursor + 1 .. last : Collection[j] \in Nat
    BY <1>1, <2>1
  <2>5. /\ SubSeq(Collection, cursor + 1, last) \in Seq(Nat)
        /\ Len(SubSeq(Collection, cursor + 1, last)) = last - cursor
    <3> PICK c : c = Collection
      OBVIOUS
    <3> QED
      BY <1>1, <2>1, <2>4
  <2> QED
    BY <2>2, <2>3, <2>5
<1>4. Omitted \in Seq(Nat)
  <2>1. IsFiniteSet(refused)
    <3>1. refused \subseteq Legs(tool)
      BY DEF CallInv, PrivateLegs
    <3> QED
      BY <1>1, <3>1, LegsFinite, FS_Subset
  <2>2. Cardinality(refused) \in Nat
    BY <2>1, FS_CardinalityType
  <2> QED
    BY <2>2 DEF Omitted
<1>5. \A name \in Others(tool) : held.others[name] \in Seq(Nat)
  BY PagedAssumption DEF CallInv, IsHolding
<1> DEFINE arr == [i \in DOMAIN Arrays(tool) |->
                   LET name == Arrays(tool)[i]
                   IN IF i = Paged(tool) THEN Paginate(Collection)
                      ELSE IF name = "omitted" THEN Omitted
                      ELSE IF LegOf(name) \in refused THEN <<>>
                      ELSE held.others[name]]
<1>6. ASSUME NEW i \in 1 .. Width PROVE arr[i] \in Seq(Nat)
  <2>1. CASE i = Paged(tool)
    BY <1>2, <1>3, <2>1
  <2>2. CASE i # Paged(tool) /\ Arrays(tool)[i] = "omitted"
    BY <1>2, <1>4, <2>2
  <2>3. CASE i # Paged(tool) /\ Arrays(tool)[i] # "omitted"
    <3>1. Arrays(tool)[i] \in Others(tool)
      BY <1>2, <2>3 DEF Others
    <3>2. held.others[Arrays(tool)[i]] \in Seq(Nat) /\ <<>> \in Seq(Nat)
      BY <1>5, <3>1
    <3>3. arr[i] = IF LegOf(Arrays(tool)[i]) \in refused THEN <<>>
                   ELSE held.others[Arrays(tool)[i]]
      BY <1>2, <2>3
    <3> HIDE DEF arr
    <3> QED
      BY <3>2, <3>3
  <2> QED
    BY <2>1, <2>2, <2>3
<1>7. arr \in [1 .. Width -> Seq(Nat)] /\ arr[Paged(tool)] = Paginate(Collection)
  <2>1. arr = [i \in 1 .. Width |-> arr[i]] /\ arr[Paged(tool)] = Paginate(Collection)
    BY <1>2
  <2> HIDE DEF arr
  <2> QED
    BY <1>6, <2>1
<1>8. Gathered = [arrays |-> arr, offset |-> cursor, total |-> Len(Collection),
                  cut |-> 0, next |-> 0]
  BY DEF Gathered
<1> HIDE DEF arr
<1> QED
  BY <1>1, <1>3, <1>7, <1>8 DEF Answers

\* What an answer is shortened to.
LEMMA ShrinkKinds ==
    ASSUME NEW k \in Nat \ {0}, NEW r \in Answers(k)
    PROVE  \/ Rendered(r) <= Budget /\ Shrink(r) = r
           \/ /\ Rendered(r) > Budget
              /\ \E i \in 1 .. k : \E n \in 0 .. Len(r.arrays[i]) : CutTo(k, r, i, n, Shrink(r))
<1>1. Rendered(r) \in Nat /\ Budget \in Nat
  BY RenderedSize, PagedAssumption
<1>2. CASE Rendered(r) <= Budget
  BY <1>2 DEF Shrink
<1>3. CASE ~(Rendered(r) <= Budget)
  <2>1. Rendered(r) > Budget
    BY <1>1, <1>3
  <2>2. PICK i \in 1 .. k : \E n \in 0 .. Len(r.arrays[i]) : Shrink(r) = Build(r, i, n)
    BY <2>1, ShrinkFacts
  <2>3. PICK n \in 0 .. Len(r.arrays[i]) : Shrink(r) = Build(r, i, n)
    BY <2>2
  <2>4. CutTo(k, r, i, n, Build(r, i, n))
    BY BuildFacts
  <2> QED
    BY <2>1, <2>3, <2>4
<1> QED
  BY <1>2, <1>3

LEMMA WalkInit == Init => WalkInv
<1> SUFFICES ASSUME Init PROVE WalkInv
  OBVIOUS
<1>1. CallInv /\ pc = "asking" /\ cursor = 0
  BY DEF Init, CallInv
<1>2. Fetched \in Nat
  BY <1>1, CollectionFacts
<1>3. cursor <= Fetched /\ 1 .. cursor \subseteq seen
  BY <1>1, <1>2
<1> QED
  BY <1>1, <1>3 DEF WalkInv, ReportInv, AnswerInv, AskInv, WalkSeesAll, Caught

LEMMA GatherStep ==
    ASSUME WalkInv, Gather
    PROVE  WalkInv'
<1>1. /\ CallInv' /\ pc = "asking" /\ CallInv /\ cursor <= Fetched /\ Caught
      /\ Fetched' = Fetched /\ Width' = Width
  BY DEF WalkInv, CallInv, AskInv, Gather, call, Fetched, PagedLeg, Supported, Width
<1>2. CASE pc' = "failed"
  BY <1>1, <1>2 DEF WalkInv, ReportInv, AnswerInv, AskInv, WalkSeesAll
<1>3. CASE pc' = "gathered" /\ report' = Gathered /\ refused # Legs(tool)
  <2>1. /\ report' \in Answers(Width)
        /\ report'.cut = 0 /\ report'.offset = cursor /\ report'.total = Fetched
        /\ Len(report'.arrays[Paged(tool)])
             = IF cursor + limit < Fetched THEN limit ELSE Fetched - cursor
    BY <1>1, <1>3, GatheredFacts
  <2>2. PageLen' = (IF cursor + limit < Fetched THEN limit ELSE Fetched - cursor) /\ Caught'
    BY <1>1, <2>1 DEF Gather, call, PageLen, Caught
  <2>3. ReportInv'
    BY <1>1, <2>1, <2>2 DEF ReportInv, Gather, call
  <2> QED
    BY <1>1, <1>3, <2>3 DEF WalkInv, AnswerInv, AskInv, WalkSeesAll
<1> QED
  BY <1>2, <1>3 DEF Gather

LEMMA AnswerStep ==
    ASSUME WalkInv, Answer
    PROVE  WalkInv'
<1>1. /\ CallInv' /\ pc = "gathered" /\ ReportInv /\ Fetched' = Fetched /\ Width' = Width
      /\ report' = report /\ tool' = tool /\ cursor' = cursor /\ limit' = limit
      /\ refused' = refused /\ answer' = Shrink(report)
  BY DEF WalkInv, CallInv, Answer, call, Fetched, PagedLeg, Supported, Width
<1>2. CASE pc' = "failed"
  BY <1>1, <1>2 DEF WalkInv, ReportInv, AnswerInv, AskInv, WalkSeesAll
<1>3. CASE /\ pc' = "answered" /\ seen' = seen \cup Shown(answer')
           /\ astray' = (astray \/ answer'.cut \notin {0, Paged(tool)})
  <2>1. PageLen' = PageLen
    BY <1>1 DEF PageLen
  <2>2. Caught'
    BY <1>1, <1>3 DEF ReportInv, Caught
  <2>3. ReportInv'
    BY <1>1, <1>3, <2>1, <2>2 DEF ReportInv
  <2>4. Shown(answer)' = Shown(answer') /\ Shrink(report)' = Shrink(report)
    <3>1. Shown(answer)' = Shown(answer')
      BY <1>1 DEF Shown
    <3>2. Shrink(report)' = Shrink(report)
      BY <1>1
    <3> QED
      BY <3>1, <3>2
  <2>5. AnswerInv'
    BY <1>1, <1>3, <2>4 DEF AnswerInv
  <2> QED
    BY <1>1, <1>3, <2>3, <2>5 DEF WalkInv, AskInv, WalkSeesAll
<1> QED
  BY <1>2, <1>3 DEF Answer

LEMMA FollowStep ==
    ASSUME WalkInv, Follow
    PROVE  WalkInv'
<1>1. /\ CallInv /\ pc = "answered" /\ ReportInv /\ AnswerInv
      /\ Fetched' = Fetched /\ report' = report /\ tool' = tool /\ astray' = astray /\ seen' = seen
      /\ cursor' = (IF answer.cut # 0 THEN answer.next ELSE cursor + limit)
      /\ pc' = IF cursor' >= answer.total THEN "done" ELSE "asking"
      /\ <<limit', refused', held'>> = <<limit, refused, held>>
  BY DEF WalkInv, Follow, call, Fetched, PagedLeg, Supported
<1>2. Width \in Nat \ {0} /\ Paged(tool) \in 1 .. Width
  BY <1>1, WidthFacts DEF CallInv, Width
<1>3. /\ report \in Answers(Width) /\ report.cut = 0 /\ report.offset = cursor
      /\ report.total = Fetched /\ cursor <= report.total /\ Caught
      /\ Len(report.arrays[Paged(tool)]) = PageLen
      /\ answer = Shrink(report)
  BY <1>1 DEF ReportInv, AnswerInv
<1>4. cursor \in Nat /\ limit \in Nat \ {0} /\ Fetched \in Nat
  <2>1. limit \in Nat \ {0}
    BY <1>1, PagedAssumption DEF CallInv
  <2> QED
    BY <1>1, <2>1, CollectionFacts DEF CallInv
<1> DEFINE reached == IF cursor' < Fetched THEN cursor' ELSE Fetched
<1>5. /\ cursor' \in Nat /\ answer.total = Fetched
      /\ ~astray => 1 .. reached \subseteq seen
  <2>1. CASE answer = report
    <3>1. cursor' = cursor + limit
      BY <1>1, <1>3, <2>1
    <3>2. ASSUME ~astray, NEW m \in 1 .. reached
          PROVE  m \in seen
      <4>1. Caught /\ Shown(answer) \subseteq seen
        BY <1>1, <1>3, <3>2 DEF AnswerInv
      <4>2. CASE m \in 1 .. cursor
        BY <3>2, <4>1, <4>2 DEF Caught
      <4>3. CASE m \notin 1 .. cursor
        <5>1. m - cursor \in 1 .. PageLen
          BY <1>3, <1>4, <3>1, <3>2, <4>3 DEF PageLen
        <5>2. DOMAIN report.arrays[Paged(tool)] = 1 .. PageLen
          <6>1. report.arrays[Paged(tool)] \in Seq(Nat)
            BY <1>2, <1>3 DEF Answers
          <6> QED
            BY <1>3, <6>1
        <5>3. cursor + (m - cursor) \in Shown(answer)
          BY <1>3, <2>1, <5>1, <5>2 DEF Shown
        <5>4. cursor + (m - cursor) = m
          BY <1>4
        <5> QED
          BY <4>1, <5>3, <5>4
      <4> QED
        BY <4>2, <4>3
    <3> QED
      BY <1>3, <1>4, <2>1, <3>1, <3>2
  <2>2. CASE answer # report
    <3>1. PICK i \in 1 .. Width : \E n \in 0 .. Len(report.arrays[i]) :
                 CutTo(Width, report, i, n, answer)
      BY <1>2, <1>3, <2>2, ShrinkKinds
    <3>2. PICK n \in 0 .. Len(report.arrays[i]) : CutTo(Width, report, i, n, answer)
      BY <3>1
    <3>3. /\ answer \in Answers(Width) /\ answer.cut = i /\ answer.next = cursor + n
          /\ answer.offset = cursor /\ answer.total = Fetched /\ Len(answer.arrays[i]) = n
      BY <1>3, <3>2 DEF CutTo
    <3>4. i # 0 /\ n \in Nat
      <4>1. report.arrays[i] \in Seq(Nat)
        BY <1>3 DEF Answers
      <4> QED
        BY <4>1
    <3>5. cursor' = cursor + n
      BY <1>1, <3>3, <3>4
    <3>6. ASSUME ~astray, NEW m \in 1 .. reached
          PROVE  m \in seen
      <4>1. Caught /\ Shown(answer) \subseteq seen /\ i = Paged(tool)
        BY <1>1, <1>3, <3>3, <3>4, <3>6 DEF AnswerInv
      <4>2. CASE m \in 1 .. cursor
        BY <3>6, <4>1, <4>2 DEF Caught
      <4>3. CASE m \notin 1 .. cursor
        <5>1. m - cursor \in 1 .. n
          BY <1>4, <3>4, <3>5, <3>6, <4>3
        <5>2. DOMAIN answer.arrays[i] = 1 .. n
          <6>1. answer.arrays[i] \in Seq(Nat)
            BY <3>3 DEF Answers
          <6> QED
            BY <3>3, <6>1
        <5>3. cursor + (m - cursor) \in Shown(answer)
          BY <3>3, <4>1, <5>1, <5>2 DEF Shown
        <5>4. cursor + (m - cursor) = m
          BY <1>4
        <5> QED
          BY <4>1, <5>3, <5>4
      <4> QED
        BY <4>2, <4>3
    <3> QED
      BY <1>4, <3>3, <3>4, <3>5, <3>6
  <2> QED
    BY <2>1, <2>2
<1>6. CallInv'
  BY <1>1, <1>5 DEF CallInv
<1>7. CASE cursor' < Fetched
  <2>1. pc' = "asking" /\ reached = cursor'
    BY <1>1, <1>4, <1>5, <1>7
  <2>2. AskInv'
    BY <1>1, <1>4, <1>5, <1>7, <2>1 DEF AskInv, Caught
  <2> QED
    BY <1>6, <2>1, <2>2 DEF WalkInv, ReportInv, AnswerInv, WalkSeesAll
<1>8. CASE ~(cursor' < Fetched)
  <2>1. pc' = "done" /\ reached = Fetched
    BY <1>1, <1>4, <1>5, <1>8
  <2>3. ASSUME ~(Supported /\ UpstreamPage < Len(held.items)) PROVE Fetched = Len(held.items)
    BY <1>1, <2>3, PagedLegGiven DEF ReportInv, Fetched
  <2>2. WalkSeesAll'
    BY <1>1, <1>3, <1>5, <2>1, <2>3 DEF WalkSeesAll, Supported, PagedLeg
  <2> QED
    BY <1>6, <2>1, <2>2 DEF WalkInv, ReportInv, AnswerInv, AskInv
<1> QED
  BY <1>7, <1>8

\* The paged collection only grows.
LEMMA DriftStep ==
    ASSUME WalkInv, Drift
    PROVE  WalkInv'
<1>1. /\ CallInv /\ AskInv /\ pc = "asking" /\ pc' = "asking" /\ held' \in Holdings[tool]
      /\ Len(held.items) <= Len(held'.items)
      /\ <<tool', limit', refused', cursor', seen', astray'>>
           = <<tool, limit, refused, cursor, seen, astray>>
  BY DEF WalkInv, Drift, call
<1>2. CallInv'
  BY <1>1 DEF CallInv
<1>6. UpstreamPage \in Nat
  BY PagedAssumption
<1>3. Len(held.items) \in Nat /\ Len(held'.items) \in Nat
  <2>1. held.items \in Seq(Item) /\ held'.items \in Seq(Item)
    BY <1>1, PagedAssumption DEF CallInv, IsHolding
  <2> QED
    BY <2>1
<1>4. Fetched <= Fetched' /\ Fetched \in Nat /\ Fetched' \in Nat /\ cursor \in Nat
  BY <1>1, <1>3, <1>6 DEF Fetched, PagedLeg, Supported, CallInv
<1>5. AskInv'
  BY <1>1, <1>4 DEF AskInv, Caught
<1> QED
  BY <1>1, <1>2, <1>5 DEF WalkInv, ReportInv, AnswerInv, WalkSeesAll

LEMMA WalkStutter ==
    ASSUME WalkInv, UNCHANGED vars
    PROVE  WalkInv'
BY DEF vars, call, WalkInv, CallInv, ReportInv, AnswerInv, AskInv, Caught, WalkSeesAll,
       PageLen, Fetched, PagedLeg, Supported, Width, Shown

LEMMA WalkStep == WalkInv /\ [Next]_vars => WalkInv'
<1> SUFFICES ASSUME WalkInv, [Next]_vars PROVE WalkInv'
  OBVIOUS
<1>1. CASE Handle
  BY <1>1, GatherStep
     DEF Handle, QueryStats, SiteHealthReport, TopologyReport, TrafficFlowReport
<1>2. CASE Answer
  BY <1>2, AnswerStep
<1>3. CASE Follow
  BY <1>3, FollowStep
<1>4. CASE Drift
  BY <1>4, DriftStep
<1>5. CASE UNCHANGED vars
  BY <1>5, WalkStutter
<1> QED
  BY <1>1, <1>2, <1>3, <1>4, <1>5 DEF Next

LEMMA Walks == Spec => []WalkInv
<1>1. Init => WalkInv
  BY WalkInit
<1>2. WalkInv /\ [Next]_vars => WalkInv'
  BY WalkStep
<1> QED
  BY <1>1, <1>2, PTL DEF Spec

-----------------------------------------------------------------------------
\* A caller that follows next_offset, and its page size where there is none, has
\* been shown every item the server fetched for its last page, and, where that fetch
\* did not fill a page of the Integration API, every item there was, whatever the
\* lengths and sizes and the pages, as long as only the paged array was cut.
THEOREM SeesAllHolds == Spec => []WalkSeesAll
<1>1. WalkInv => WalkSeesAll
  BY DEF WalkInv
<1> QED
  BY <1>1, Walks, PTL

LEMMA WalkLargest == WalkInv => LargestPrefix
<1> SUFFICES ASSUME WalkInv, pc = "answered", answer.cut # 0
             PROVE  LET shown == Len(answer.arrays[answer.cut])
                    IN /\ Rendered(answer) <= Budget \/ shown = 0
                       /\ \A m \in shown + 1 .. Len(report.arrays[answer.cut]) :
                              Rendered(Build(report, answer.cut, m)) > Budget
  BY DEF LargestPrefix
<1>1. /\ CallInv /\ report \in Answers(Width) /\ report.cut = 0 /\ answer = Shrink(report)
  BY DEF WalkInv, ReportInv, AnswerInv
<1>2. Width \in Nat \ {0}
  BY <1>1, WidthFacts DEF CallInv, Width
<1>3. Rendered(report) > Budget
  BY <1>1, <1>2, ShrinkKinds
<1>4. PICK i \in 1 .. Width : \E n \in 0 .. Len(report.arrays[i]) :
             /\ answer = Build(report, i, n)
             /\ Rendered(answer) <= Budget \/ n = 0
             /\ \A m \in n + 1 .. Len(report.arrays[i]) : Rendered(Build(report, i, m)) > Budget
  BY <1>1, <1>2, <1>3, ShrinkFacts
<1>5. PICK n \in 0 .. Len(report.arrays[i]) :
             /\ answer = Build(report, i, n)
             /\ Rendered(answer) <= Budget \/ n = 0
             /\ \A m \in n + 1 .. Len(report.arrays[i]) : Rendered(Build(report, i, m)) > Budget
  BY <1>4
<1>6. CutTo(Width, report, i, n, answer)
  BY <1>1, <1>2, <1>5, BuildFacts
<1>7. answer.cut = i /\ Len(answer.arrays[i]) = n
  BY <1>6 DEF CutTo
<1> QED
  BY <1>5, <1>7

\* An answer of any number of items of any size is cut to the longest prefix that
\* fits the budget, or to none: the binary search of shrink_largest_array is exact.
THEOREM LargestHolds == Spec => []LargestPrefix
<1>1. WalkInv => LargestPrefix
  BY WalkLargest
<1> QED
  BY <1>1, Walks, PTL

-----------------------------------------------------------------------------
LEMMA FirstItem ==
    ASSUME NEW s \in Seq(Nat), Len(s) >= 1
    PROVE  SubSeq(s, 1, 1) = <<s[1]>>
<1> DEFINE t == SubSeq(s, 1, 1)
           u == <<s[1]>>
<1>1. t \in Seq(Nat) /\ Len(t) = 1 /\ t[1] = s[1]
  OBVIOUS
<1>2. u \in Seq(Nat) /\ Len(u) = 1 /\ u[1] = s[1]
  OBVIOUS
<1> HIDE DEF t, u
<1>3. Len(t) = Len(u) /\ \A j \in 1 .. Len(t) : t[j] = u[j]
  BY <1>1, <1>2
<1>4. t = u
  BY <1>1, <1>2, <1>3, SeqEqual
<1> QED
  BY <1>4 DEF t, u

\* An answer that shows the first item of its array i only.
FirstOf(r, i) == [r EXCEPT !.arrays[i] = <<@[1]>>, !.cut = i]

\* What the cursor is does not weigh, and a prefix of one item is that item.
LEMMA OneItem ==
    ASSUME NEW k \in Nat, NEW r \in Answers(k), NEW i \in 1 .. k,
           Len(r.arrays[i]) >= 1
    PROVE  Rendered(Build(r, i, 1)) = Rendered(FirstOf(r, i)) /\ Rendered(FirstOf(r, i)) \in Nat
<1> DEFINE a == Build(r, i, 1)
           b == FirstOf(r, i)
<1>1. r.arrays[i] \in Seq(Nat)
  BY DEF Answers
<1>2. SubSeq(r.arrays[i], 1, 1) = <<r.arrays[i][1]>>
  BY <1>1, FirstItem
<1>3. 1 \in 0 .. Len(r.arrays[i])
  BY <1>1
<1>4. a.arrays = [r.arrays EXCEPT ![i] = <<r.arrays[i][1]>>] /\ a.cut = i
  <2>1. CutTo(k, r, i, 1, a)
    BY <1>3, BuildFacts
  <2> HIDE DEF a
  <2> QED
    BY <1>2, <2>1 DEF CutTo
<1>5. b.arrays = [r.arrays EXCEPT ![i] = <<r.arrays[i][1]>>] /\ b.cut = i
  BY DEF Answers, FirstOf
<1>9. a \in Answers(k)
  BY <1>3, BuildFacts DEF CutTo
<1> HIDE DEF a, b
<1>6. a.arrays = b.arrays /\ a.cut = b.cut
  BY <1>4, <1>5
<1>7. Rendered(a) = Rendered(b)
  BY <1>6 DEF Rendered
<1>8. Rendered(a) \in Nat
  BY <1>9, RenderedSize
<1> QED
  BY <1>7, <1>8 DEF a, b

\* A caller that follows the cursors is always taken on, whatever the lengths and
\* sizes and the page, as long as the items of the page fit and only the paged
\* array was cut.
THEOREM WalkMoves == Spec => WalkAdvances
<1>1. WalkInv /\ [Next]_vars =>
        [Follow /\ ~astray /\ Deliverable => cursor' > cursor \/ pc' = "done"]_vars
  <2> SUFFICES ASSUME WalkInv, Follow, ~astray, Deliverable
               PROVE  cursor' > cursor \/ pc' = "done"
    OBVIOUS
  <2>1. /\ CallInv /\ pc = "answered" /\ ReportInv /\ AnswerInv
        /\ cursor' = (IF answer.cut # 0 THEN answer.next ELSE cursor + limit)
        /\ pc' = IF cursor' >= answer.total THEN "done" ELSE "asking"
    BY DEF WalkInv, Follow
  <2>2. Width \in Nat \ {0} /\ Paged(tool) \in 1 .. Width
    BY <2>1, WidthFacts DEF CallInv, Width
  <2>3. /\ report \in Answers(Width) /\ report.cut = 0 /\ report.offset = cursor
        /\ report.total = Fetched /\ cursor <= report.total
        /\ Len(report.arrays[Paged(tool)]) = PageLen
        /\ answer = Shrink(report)
        /\ answer.cut \in {0, Paged(tool)}
    BY <2>1 DEF ReportInv, AnswerInv
  <2>4. cursor \in Nat /\ limit \in Nat \ {0} /\ Fetched \in Nat
    <3>1. limit \in Nat \ {0}
      BY <2>1, PagedAssumption DEF CallInv
    <3> QED
      BY <2>1, <3>1, CollectionFacts DEF CallInv
  <2>5. CASE Rendered(report) <= Budget
    <3>1. cursor' = cursor + limit
      BY <2>1, <2>3, <2>5 DEF Shrink
    <3> QED
      BY <2>4, <3>1
  <2>6. CASE Rendered(report) > Budget
    <3>1. PICK i \in 1 .. Width : \E n \in 0 .. Len(report.arrays[i]) :
                 /\ answer = Build(report, i, n)
                 /\ \A m \in n + 1 .. Len(report.arrays[i]) :
                        Rendered(Build(report, i, m)) > Budget
      BY <2>2, <2>3, <2>6, ShrinkFacts
    <3>2. PICK n \in 0 .. Len(report.arrays[i]) :
                 /\ answer = Build(report, i, n)
                 /\ \A m \in n + 1 .. Len(report.arrays[i]) :
                        Rendered(Build(report, i, m)) > Budget
      BY <3>1
    <3>3. CutTo(Width, report, i, n, answer)
      BY <2>2, <2>3, <3>2, BuildFacts
    <3>4. /\ i = Paged(tool) /\ n \in Nat /\ cursor' = cursor + n /\ answer.total = Fetched
          /\ report.arrays[i] \in Seq(Nat) /\ Len(report.arrays[i]) = PageLen
      BY <2>1, <2>2, <2>3, <3>3 DEF CutTo, Answers
    <3>5. ASSUME n = 0, PageLen >= 1 PROVE FALSE
      <4> DEFINE p == Paged(tool)
      <4>1. p \in 1 .. Width /\ p = i /\ Len(report.arrays[p]) >= 1
            /\ 1 \in n + 1 .. Len(report.arrays[p]) /\ 1 \in DOMAIN report.arrays[p]
        BY <2>2, <3>4, <3>5
      <4>2. Rendered(Build(report, p, 1)) > Budget
        BY <3>2, <4>1
      <4>3. Rendered(FirstOf(report, p)) <= Budget
        BY <4>1 DEF Deliverable, FirstOf
      <4>4. /\ Rendered(Build(report, p, 1)) = Rendered(FirstOf(report, p))
            /\ Rendered(FirstOf(report, p)) \in Nat
        BY <2>2, <2>3, <4>1, OneItem
      <4> QED
        BY <4>2, <4>3, <4>4, PagedAssumption
    <3>6. CASE n # 0
      BY <2>4, <3>4, <3>6
    <3>7. CASE n = 0
      <4>1. cursor >= Fetched
        BY <2>3, <2>4, <3>5, <3>7 DEF PageLen
      <4> QED
        BY <2>1, <2>4, <3>4, <3>7, <4>1
    <3> QED
      BY <3>6, <3>7
  <2>7. Rendered(report) \in Nat /\ Budget \in Nat
    BY <2>2, <2>3, RenderedSize, PagedAssumption
  <2> QED
    BY <2>5, <2>6, <2>7
<1> QED
  BY <1>1, Walks, PTL DEF Spec, WalkAdvances

=============================================================================
