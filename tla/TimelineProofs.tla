--------------------------- MODULE TimelineProofs ---------------------------
(* The paged event list is a list, for any page size and limit.            *)
EXTENDS Timeline, SequenceTheorems, TLAPS

\* Pages of events of S, all but the last of them full, and not too many.
FilledWith(S, pgs) ==
  /\ pgs \in Seq(Seq(S)) /\ pgs # <<>>
  /\ \A p \in 1 .. Len(pgs) : /\ Len(pgs[p]) <= PageSize
                              /\ p < Len(pgs) => Len(pgs[p]) = PageSize
  /\ PageLimit # 0 => Len(pgs) <= PageLimit + 1

Filled(pgs) == FilledWith(Event, pgs)

\* What division by the size of a page gives.
LEMMA Divided ==
  ASSUME NEW n \in Nat
  PROVE  /\ n \div PageSize \in Nat /\ n % PageSize \in Nat /\ n % PageSize < PageSize
         /\ n = (n \div PageSize) * PageSize + (n % PageSize)
BY TimelineAssumption, SMT

\* The last place of a page comes before the places of later pages.
LEMMA Product ==
  ASSUME NEW a \in Nat, NEW b \in Nat, a < b
  PROVE  a * PageSize + PageSize <= b * PageSize
BY TimelineAssumption, SMT

\* So many full pages have a number of places.
LEMMA NatProduct ==
  ASSUME NEW a \in Nat
  PROVE  a * PageSize \in Nat /\ PageSize \in Nat
BY TimelineAssumption, SMT
-----------------------------------------------------------------------------
\* Every event up to the number of them is in a slot of a page.
LEMMA Places ==
  ASSUME NEW S, NEW pgs, FilledWith(S, pgs), NEW i \in 1 .. Count(pgs)
  PROVE  PageOf(i) \in 1 .. Len(pgs) /\ SlotOf(i) \in 1 .. Len(pgs[PageOf(i)])
<1> DEFINE q == (i - 1) \div PageSize
           r == (i - 1) % PageSize
           n == Len(pgs)
<1>1. n \in Nat /\ n > 0 /\ Len(pgs[n]) \in Nat /\ Len(pgs[n]) <= PageSize
  BY DEF FilledWith
<1>2. i \in Nat /\ i - 1 \in Nat /\ (n - 1) * PageSize \in Int
  BY <1>1, TimelineAssumption, SMT DEF Count
<1>3. /\ q \in Nat /\ r \in Nat /\ r < PageSize
      /\ i - 1 = q * PageSize + r
  BY <1>2, Divided
<1>4. PageOf(i) = q + 1 /\ SlotOf(i) = r + 1
  BY DEF PageOf, SlotOf
<1> HIDE DEF q, r
<1>5. /\ (n - 1) * PageSize \in Nat /\ q * PageSize \in Nat /\ PageSize \in Nat
      /\ i - 1 < (n - 1) * PageSize + Len(pgs[n])
  <2>1. /\ (n - 1) * PageSize \in Nat /\ q * PageSize \in Nat /\ PageSize \in Nat
    <3>1. n - 1 \in Nat
      BY <1>1
    <3> QED BY <3>1, <1>3, NatProduct, Zenon
  <2> DEFINE m == (n - 1) * PageSize
  <2>2. i \in 1 .. m + Len(pgs[n])
    BY DEF Count
  <2> HIDE DEF m
  <2>3. i - 1 < m + Len(pgs[n])
    <3>1. m \in Nat
      BY <2>1 DEF m
    <3> QED BY <2>2, <3>1, <1>1
  <2> QED BY <2>1, <2>3 DEF m
<1>6. q <= n - 1
  <2> SUFFICES ASSUME n - 1 < q PROVE FALSE
    BY <1>1, <1>3
  <2>1. (n - 1) * PageSize + PageSize <= q * PageSize
    BY <1>1, <1>3, Product
  <2> DEFINE m == (n - 1) * PageSize
             k == q * PageSize
  <2>2. /\ m \in Nat /\ k \in Nat /\ m + PageSize <= k
        /\ i - 1 < m + Len(pgs[n]) /\ i - 1 = k + r
    BY <1>3, <1>5, <2>1
  <2> HIDE DEF m, k
  <2> QED BY <2>2, <1>1, <1>2, <1>3, <1>5
<1>7. CASE q = n - 1
  <2> DEFINE m == (n - 1) * PageSize
  <2>1. m \in Nat /\ i - 1 = m + r /\ i - 1 < m + Len(pgs[n])
    BY <1>3, <1>5, <1>7
  <2> HIDE DEF m
  <2>2. r < Len(pgs[n])
    BY <2>1, <1>1, <1>2, <1>3
  <2> QED BY <2>2, <1>1, <1>3, <1>4, <1>7
<1>8. CASE q < n - 1
  <2>1. q + 1 \in 1 .. n /\ q + 1 < n
    BY <1>1, <1>3, <1>8
  <2>2. Len(pgs[q + 1]) = PageSize
    BY <2>1 DEF FilledWith
  <2> QED BY <2>1, <2>2, <1>3, <1>4, <1>5
<1> QED BY <1>1, <1>3, <1>6, <1>7, <1>8

\* Writing to an event changes no other, and not how the pages are filled.
LEMMA WritesOne ==
  ASSUME NEW S, NEW pgs, FilledWith(S, pgs), NEW i \in 1 .. Count(pgs), NEW e \in S
  PROVE  /\ FilledWith(S, Write(pgs, i, e))
         /\ Count(Write(pgs, i, e)) = Count(pgs)
         /\ \A j \in 1 .. Count(pgs) :
              \/ At(Write(pgs, i, e), j) = e /\ At(pgs, j) = At(pgs, i)
              \/ At(Write(pgs, i, e), j) = At(pgs, j)
<1> DEFINE w == Write(pgs, i, e)
<1>1. PageOf(i) \in 1 .. Len(pgs) /\ SlotOf(i) \in 1 .. Len(pgs[PageOf(i)])
  BY Places
<1> DEFINE p == PageOf(i)
           s == SlotOf(i)
<1> HIDE DEF p, s
<1>2. p \in 1 .. Len(pgs) /\ s \in 1 .. Len(pgs[p])
  BY <1>1 DEF p, s
<1>3. w = [pgs EXCEPT ![p] = [pgs[p] EXCEPT ![s] = e]]
  BY <1>2 DEF Write, FilledWith, p, s
<1>4. pgs[p] \in Seq(S) /\ [pgs[p] EXCEPT ![s] = e] \in Seq(S)
      /\ Len([pgs[p] EXCEPT ![s] = e]) = Len(pgs[p])
  BY <1>2 DEF FilledWith
<1>5. w \in Seq(Seq(S)) /\ Len(w) = Len(pgs)
  BY <1>2, <1>3, <1>4 DEF FilledWith
<1>6. \A k \in 1 .. Len(pgs) : Len(w[k]) = Len(pgs[k])
  BY <1>2, <1>3, <1>4 DEF FilledWith
<1>7. FilledWith(S, w)
  BY <1>5, <1>6 DEF FilledWith
<1>8. Count(w) = Count(pgs)
  BY <1>5, <1>6 DEF Count, FilledWith
<1>9. ASSUME NEW j \in 1 .. Count(pgs)
      PROVE  \/ At(w, j) = e /\ At(pgs, j) = At(pgs, i)
             \/ At(w, j) = At(pgs, j)
  <2>1. PageOf(j) \in 1 .. Len(pgs) /\ SlotOf(j) \in 1 .. Len(pgs[PageOf(j)])
    BY Places
  <2> DEFINE pj == PageOf(j)
             sj == SlotOf(j)
  <2>2. At(w, j) = w[pj][sj] /\ At(pgs, j) = pgs[pj][sj] /\ At(pgs, i) = pgs[p][s]
    BY DEF At, p, s
  <2> HIDE DEF w, pj, sj
  <2>3. pj \in 1 .. Len(pgs) /\ sj \in 1 .. Len(pgs[pj])
    BY <2>1 DEF pj, sj
  <2>4. w[pj] = IF pj = p THEN [pgs[p] EXCEPT ![s] = e] ELSE pgs[pj]
    BY <1>2, <1>3, <2>3 DEF FilledWith
  <2>5. CASE pj = p
    BY <1>2, <1>4, <2>2, <2>3, <2>4, <2>5
  <2>6. CASE pj # p
    BY <2>2, <2>4, <2>6
  <2> QED BY <2>5, <2>6
<1> QED BY <1>7, <1>8, <1>9

\* Putting an event adds one at the end and changes none.
LEMMA PutsLast ==
  ASSUME NEW S, NEW pgs, FilledWith(S, pgs), NEW e \in S, ~Refuses(pgs, FALSE)
  PROVE  /\ FilledWith(S, Put(pgs, e))
         /\ Count(Put(pgs, e)) = Count(pgs) + 1
         /\ \A j \in 1 .. Count(pgs) : At(Put(pgs, e), j) = At(pgs, j)
<1> DEFINE w == Put(pgs, e)
           n == Len(pgs)
<1>1. n \in Nat /\ n > 0 /\ pgs[n] \in Seq(S)
  BY DEF FilledWith
<1>2. CASE PageFull(pgs)
  <2>1. w = Append(pgs, <<e>>) /\ Len(pgs[n]) = PageSize
    BY <1>2 DEF Put, PageFull
  <2>2. w \in Seq(Seq(S)) /\ Len(w) = n + 1 /\ w[n + 1] = <<e>>
        /\ \A k \in 1 .. n : w[k] = pgs[k]
    BY <2>1, <1>1 DEF FilledWith
  <2>3. PageLimit # 0 => n + 1 <= PageLimit + 1
    BY <1>1, <1>2, TimelineAssumption DEF Refuses, MayAllocate, PageCount
  <2>4. \A k \in 1 .. n + 1 : /\ Len(w[k]) <= PageSize
                              /\ k < n + 1 => Len(w[k]) = PageSize
    BY <2>1, <2>2, <1>1, TimelineAssumption DEF FilledWith
  <2>5. FilledWith(S, w)
    BY <2>2, <2>3, <2>4, <1>1 DEF FilledWith
  <2>6. Count(w) = Count(pgs) + 1
    <3>1. Count(w) = n * PageSize + 1
      BY <2>2, <1>1 DEF Count
    <3>2. Count(pgs) = (n - 1) * PageSize + PageSize
      BY <2>1 DEF Count
    <3>3. (n - 1) * PageSize + PageSize = n * PageSize
      BY <1>1, TimelineAssumption, SMT
    <3> QED BY <3>1, <3>2, <3>3
  <2>7. \A j \in 1 .. Count(pgs) : At(w, j) = At(pgs, j)
    BY <2>2, Places DEF At
  <2> QED BY <2>5, <2>6, <2>7
<1>3. CASE ~PageFull(pgs)
  <2>1. w = [pgs EXCEPT ![n] = Append(pgs[n], e)] /\ Len(pgs[n]) # PageSize
    BY <1>3, <1>1 DEF Put, PageFull
  <2>2. w \in Seq(Seq(S)) /\ Len(w) = n /\ w[n] = Append(pgs[n], e)
        /\ \A k \in 1 .. n - 1 : w[k] = pgs[k]
    BY <2>1, <1>1 DEF FilledWith
  <2>3. Len(w[n]) = Len(pgs[n]) + 1 /\ Len(w[n]) <= PageSize
    <3>1. Len(pgs[n]) \in Nat /\ Len(pgs[n]) <= PageSize
      BY <1>1 DEF FilledWith
    <3>2. Len(Append(pgs[n], e)) = Len(pgs[n]) + 1
      BY <1>1
    <3> HIDE DEF w, n
    <3> QED BY <2>1, <2>2, <3>1, <3>2, TimelineAssumption
  <2>4. FilledWith(S, w)
    <3>1. \A k \in 1 .. n : /\ Len(w[k]) <= PageSize
                            /\ k < n => Len(w[k]) = PageSize
      <4> SUFFICES ASSUME NEW k \in 1 .. n
                   PROVE  Len(w[k]) <= PageSize /\ (k < n => Len(w[k]) = PageSize)
        OBVIOUS
      <4>1. CASE k = n
        BY <4>1, <2>3, <1>1
      <4>2. CASE k # n
        <5>1. w[k] = pgs[k] /\ Len(pgs[k]) = PageSize /\ PageSize <= PageSize
          BY <4>2, <2>2, <1>1, TimelineAssumption DEF FilledWith
        <5> HIDE DEF w
        <5> QED BY <5>1
      <4> QED BY <4>1, <4>2
    <3> HIDE DEF w
    <3> QED BY <3>1, <2>2, <1>1 DEF FilledWith
  <2>5. Count(w) = Count(pgs) + 1
    <3> DEFINE m == (n - 1) * PageSize
    <3>1. m \in Int
      BY <1>1, TimelineAssumption, SMT
    <3>2. Count(w) = m + Len(w[n]) /\ Count(pgs) = m + Len(pgs[n])
      BY <2>2 DEF Count
    <3> HIDE DEF m
    <3> QED BY <3>1, <3>2, <2>3, <1>1
  <2>6. ASSUME NEW j \in 1 .. Count(pgs)
        PROVE  At(w, j) = At(pgs, j)
    <3>1. PageOf(j) \in 1 .. n /\ SlotOf(j) \in 1 .. Len(pgs[PageOf(j)])
      BY Places
    <3>2. At(w, j) = w[PageOf(j)][SlotOf(j)] /\ At(pgs, j) = pgs[PageOf(j)][SlotOf(j)]
      BY DEF At
    <3> DEFINE pj == PageOf(j)
               sj == SlotOf(j)
    <3> HIDE DEF w, pj, sj
    <3>3. pj \in 1 .. n /\ sj \in 1 .. Len(pgs[pj])
      BY <3>1 DEF pj, sj
    <3>4. CASE pj = n
      <4>1. w[n][sj] = pgs[n][sj]
        BY <2>2, <3>3, <3>4, <1>1
      <4> QED BY <4>1, <3>2, <3>4 DEF pj, sj
    <3>5. CASE pj # n
      <4>1. w[pj] = pgs[pj]
        <5>1. n \in Nat
          BY <1>1
        <5> HIDE DEF n
        <5>2. pj \in 1 .. n - 1
          BY <3>3, <3>5, <5>1
        <5>3. \A k \in 1 .. n - 1 : w[k] = pgs[k]
          BY <2>2
        <5> QED BY <5>2, <5>3, Zenon
      <4> QED BY <4>1, <3>2 DEF pj, sj
    <3> QED BY <3>4, <3>5
  <2> QED BY <2>4, <2>5, <2>6
<1> QED BY <1>2, <1>3
\* There are no more events than fit in the pages allowed.
LEMMA Bounded ==
  ASSUME NEW S, NEW pgs, FilledWith(S, pgs)
  PROVE  Count(pgs) \in Nat /\ (Capacity # 0 => Count(pgs) <= Capacity)
<1> DEFINE n == Len(pgs)
           m == (n - 1) * PageSize
           l == Len(pgs[n])
<1>1. n \in Nat /\ n > 0 /\ n - 1 \in Nat /\ l \in Nat /\ l <= PageSize
  BY DEF FilledWith
<1>2. m \in Nat /\ PageSize \in Nat
  BY <1>1, NatProduct, Zenon
<1>3. Count(pgs) = m + l
  BY DEF Count
<1>4. ASSUME PageLimit # 0 PROVE m + PageSize <= (PageLimit + 1) * PageSize
  <2>1. n - 1 < PageLimit + 1 /\ PageLimit + 1 \in Nat
    BY <1>1, <1>4, TimelineAssumption DEF FilledWith
  <2> QED BY <2>1, <1>1, Product, Zenon
<1>5. PageLimit # 0 => (PageLimit + 1) * PageSize \in Nat
  BY NatProduct, TimelineAssumption
<1> HIDE DEF m, l
<1> DEFINE c == (PageLimit + 1) * PageSize
<1>6. Capacity = IF PageLimit = 0 THEN 0 ELSE c
  BY DEF Capacity
<1>7. PageLimit # 0 => c \in Nat /\ m + PageSize <= c
  BY <1>4, <1>5
<1> HIDE DEF c, n
<1> QED BY <1>1, <1>2, <1>3, <1>6, <1>7
-----------------------------------------------------------------------------
(* The sequence of the events that the pages hold *)

\* The division of a place by the size of a page.
LEMMA Quotient ==
  ASSUME NEW q \in Nat, NEW r \in Nat, r < PageSize, NEW n \in Nat, n = q * PageSize + r
  PROVE  n \div PageSize = q /\ n % PageSize = r
<1> DEFINE x == n \div PageSize
           y == n % PageSize
           a == q * PageSize
           b == x * PageSize
<1>1. x \in Nat /\ y \in Nat /\ y < PageSize /\ n = b + y
  BY Divided
<1>2. a \in Nat /\ b \in Nat /\ PageSize \in Nat /\ n = a + r
  BY <1>1, NatProduct
<1>3. ~(q < x)
  <2> SUFFICES ASSUME q < x PROVE FALSE
    OBVIOUS
  <2>1. a + PageSize <= b
    BY <1>1, Product
  <2> HIDE DEF a, b, x, y
  <2> QED
    BY <1>1, <1>2, <2>1
<1>4. ~(x < q)
  <2> SUFFICES ASSUME x < q PROVE FALSE
    OBVIOUS
  <2>1. b + PageSize <= a
    BY <1>1, Product
  <2> HIDE DEF a, b, x, y
  <2> QED
    BY <1>1, <1>2, <2>1
<1>5. x = q
  <2> HIDE DEF x
  <2> QED
    BY <1>1, <1>3, <1>4
<1>6. b = a
  BY <1>5
<1> HIDE DEF a, b, x, y
<1>7. y = r
  BY <1>1, <1>2, <1>6
<1> QED
  BY <1>5, <1>7 DEF x, y

\* A slot of a page is the place of an event.
LEMMA Position ==
  ASSUME NEW S, NEW pgs, FilledWith(S, pgs), NEW p \in 1 .. Len(pgs),
         NEW s \in 1 .. Len(pgs[p])
  PROVE  LET i == (p - 1) * PageSize + s
         IN  i \in 1 .. Count(pgs) /\ PageOf(i) = p /\ SlotOf(i) = s
<1> DEFINE n == Len(pgs)
           l == Len(pgs[n])
           a == (p - 1) * PageSize
           m == (n - 1) * PageSize
           i == a + s
<1>1. n \in Nat /\ n > 0 /\ l \in Nat /\ Len(pgs[p]) \in Nat /\ Len(pgs[p]) <= PageSize
  BY DEF FilledWith
<1>2. p - 1 \in Nat /\ s - 1 \in Nat /\ n - 1 \in Nat /\ s - 1 < PageSize
      /\ PageSize \in Nat /\ PageSize > 0 /\ p <= n /\ s <= Len(pgs[p]) /\ s \in Nat
  BY <1>1, TimelineAssumption
<1>3. a \in Nat /\ m \in Nat
  BY <1>2, NatProduct, Zenon
<1>4. Count(pgs) = m + l
  BY DEF Count
<1>5. i \in Nat /\ i - 1 \in Nat /\ i - 1 = a + (s - 1)
  <2> HIDE DEF a
  <2> QED
    BY <1>2, <1>3
<1>6. (i - 1) \div PageSize = p - 1 /\ (i - 1) % PageSize = s - 1
  <2> HIDE DEF i
  <2> QED
    BY <1>2, <1>5, Quotient DEF a
<1>7. PageOf(i) = p /\ SlotOf(i) = s
  <2> HIDE DEF i
  <2> QED
    BY <1>2, <1>6 DEF PageOf, SlotOf
<1>8. i <= m + l
  <2>1. CASE p = n
    <3>1. a = m /\ s <= l
      BY <1>2, <2>1
    <3> HIDE DEF a, m, l
    <3> QED
      BY <1>1, <1>2, <1>3, <3>1
  <2>2. CASE p # n
    <3>1. a + PageSize <= m
      <4>1. p - 1 < n - 1
        <5> HIDE DEF n
        <5> QED
          BY <1>1, <1>2, <2>2
      <4> QED
        BY <1>2, <4>1, Product, Zenon
    <3> HIDE DEF a, m, l
    <3> QED
      BY <1>1, <1>2, <1>3, <3>1
  <2> QED
    BY <2>1, <2>2
<1>9. i \in 1 .. Count(pgs)
  <2> HIDE DEF a, m, l
  <2> QED
    BY <1>1, <1>2, <1>3, <1>4, <1>8
<1> QED
  BY <1>7, <1>9

\* No two events have one place.
LEMMA PlacesApart ==
  ASSUME NEW i \in Nat \ {0}, NEW j \in Nat \ {0},
         PageOf(i) = PageOf(j), SlotOf(i) = SlotOf(j)
  PROVE  i = j
<1> DEFINE q == (i - 1) \div PageSize
           r == (i - 1) % PageSize
           x == (j - 1) \div PageSize
           y == (j - 1) % PageSize
<1>1. i - 1 \in Nat /\ j - 1 \in Nat
  OBVIOUS
<1>2. /\ q \in Nat /\ r \in Nat /\ i - 1 = q * PageSize + r
      /\ x \in Nat /\ y \in Nat /\ j - 1 = x * PageSize + y
  BY <1>1, Divided
<1>3. PageOf(i) = q + 1 /\ SlotOf(i) = r + 1 /\ PageOf(j) = x + 1 /\ SlotOf(j) = y + 1
  BY DEF PageOf, SlotOf
<1> HIDE DEF q, r, x, y
<1>4. q = x /\ r = y
  <2>1. q \in Nat /\ r \in Nat /\ x \in Nat /\ y \in Nat
    BY <1>2
  <2>2. q + 1 = x + 1 /\ r + 1 = y + 1
    BY <1>3
  <2> QED
    BY <2>1, <2>2
<1>5. i - 1 = j - 1
  BY <1>2, <1>4
<1> QED
  BY <1>5

\* The events are a sequence.
LEMMA FlatType ==
  ASSUME NEW S, NEW pgs, FilledWith(S, pgs)
  PROVE  /\ Count(pgs) \in Nat /\ Flat(pgs) \in Seq(S) /\ Len(Flat(pgs)) = Count(pgs)
         /\ \A i \in 1 .. Count(pgs) : At(pgs, i) = Flat(pgs)[i] /\ At(pgs, i) \in S
<1>1. Count(pgs) \in Nat
  BY Bounded
<1>2. ASSUME NEW i \in 1 .. Count(pgs) PROVE At(pgs, i) \in S
  <2>1. PageOf(i) \in 1 .. Len(pgs) /\ SlotOf(i) \in 1 .. Len(pgs[PageOf(i)])
    BY Places
  <2>2. pgs[PageOf(i)] \in Seq(S)
    BY <2>1 DEF FilledWith
  <2> QED
    BY <2>1, <2>2 DEF At
<1> DEFINE n == Count(pgs)
           f == Flat(pgs)
<1>3. f = [i \in 1 .. n |-> At(pgs, i)]
  BY DEF Flat
<1>4. \A i \in 1 .. n : f[i] = At(pgs, i) /\ f[i] \in S
  BY <1>2, <1>3
<1>5. f = [i \in 1 .. n |-> f[i]]
  BY <1>3
<1> HIDE DEF n, f
<1>6. n \in Nat
  BY <1>1 DEF n
<1>7. f \in Seq(S) /\ Len(f) = n
  BY <1>4, <1>5, <1>6
<1> QED
  BY <1>1, <1>4, <1>7 DEF n, f

\* A write to an event, as the sequence has it.
LEMMA FlatWrite ==
  ASSUME NEW S, NEW pgs, FilledWith(S, pgs), NEW i \in 1 .. Count(pgs), NEW e \in S
  PROVE  /\ FilledWith(S, Write(pgs, i, e))
         /\ Count(Write(pgs, i, e)) = Count(pgs)
         /\ Flat(Write(pgs, i, e)) = [Flat(pgs) EXCEPT ![i] = e]
<1> DEFINE w == Write(pgs, i, e)
<1>1. FilledWith(S, w) /\ Count(w) = Count(pgs)
  BY WritesOne
<1>2. Count(pgs) \in Nat
  BY FlatType
<1>3. ASSUME NEW j \in 1 .. Count(pgs)
      PROVE  At(w, j) = IF j = i THEN e ELSE At(pgs, j)
  <2> DEFINE p == PageOf(i)
             s == SlotOf(i)
             pj == PageOf(j)
             sj == SlotOf(j)
  <2>1. /\ p \in 1 .. Len(pgs) /\ s \in 1 .. Len(pgs[p])
        /\ pj \in 1 .. Len(pgs) /\ sj \in 1 .. Len(pgs[pj])
    BY Places
  <2>2. pj = p /\ sj = s => j = i
    BY <1>2, PlacesApart
  <2>3. At(w, j) = w[pj][sj] /\ At(pgs, j) = pgs[pj][sj]
    BY DEF At
  <2>4. w = [pgs EXCEPT ![p] = [pgs[p] EXCEPT ![s] = e]]
    BY <2>1 DEF Write, FilledWith
  <2>5. j = i => pj = p /\ sj = s
    OBVIOUS
  <2> HIDE DEF w, p, s, pj, sj
  <2>6. w[pj] = IF pj = p THEN [pgs[p] EXCEPT ![s] = e] ELSE pgs[pj]
    BY <2>1, <2>4 DEF FilledWith
  <2>7. pgs[p] \in Seq(S)
    BY <2>1 DEF FilledWith
  <2>8. CASE pj = p
    <3>1. w[pj][sj] = IF sj = s THEN e ELSE pgs[pj][sj]
      BY <2>1, <2>6, <2>7, <2>8
    <3> QED
      BY <2>2, <2>3, <2>5, <2>8, <3>1
  <2>9. CASE pj # p
    BY <2>3, <2>5, <2>6, <2>9
  <2> QED
    BY <2>8, <2>9
<1>4. Flat(w) = [j \in 1 .. Count(pgs) |-> IF j = i THEN e ELSE At(pgs, j)]
  BY <1>1, <1>3 DEF Flat
<1>5. Flat(pgs) = [j \in 1 .. Count(pgs) |-> At(pgs, j)]
  BY DEF Flat
<1> HIDE DEF w
<1>6. Flat(w) = [Flat(pgs) EXCEPT ![i] = e]
  BY <1>4, <1>5
<1> QED
  BY <1>1, <1>6 DEF w

\* A new event is the last of the sequence.
LEMMA FlatPut ==
  ASSUME NEW S, NEW pgs, FilledWith(S, pgs), NEW e \in S, ~Refuses(pgs, FALSE)
  PROVE  /\ FilledWith(S, Put(pgs, e))
         /\ Count(Put(pgs, e)) = Count(pgs) + 1
         /\ Flat(Put(pgs, e)) = Append(Flat(pgs), e)
<1> DEFINE w == Put(pgs, e)
           c == Count(pgs)
<1>1. /\ FilledWith(S, w) /\ Count(w) = c + 1
      /\ \A j \in 1 .. c : At(w, j) = At(pgs, j)
  BY PutsLast
<1>2. /\ Flat(pgs) \in Seq(S) /\ Len(Flat(pgs)) = c /\ c \in Nat
      /\ \A j \in 1 .. c : Flat(pgs)[j] = At(pgs, j)
  BY FlatType
<1>3. At(w, c + 1) = e
  <2> DEFINE n == Len(w)
             l == Len(w[n])
  <2>1. n \in 1 .. Len(w) /\ w[n] \in Seq(S)
    <3>1. n \in Nat /\ n > 0 /\ w \in Seq(Seq(S))
      BY <1>1 DEF FilledWith
    <3> HIDE DEF w
    <3> QED
      BY <3>1
  <2>2. l \in 1 .. Len(w[n]) /\ w[n][l] = e
    <3>1. Len(pgs) \in Nat /\ Len(pgs) > 0 /\ pgs \in Seq(Seq(S)) /\ pgs[Len(pgs)] \in Seq(S)
      BY DEF FilledWith
    <3>2. CASE PageFull(pgs)
      <4>1. w = Append(pgs, <<e>>)
        BY <3>2 DEF Put
      <4>2. n = Len(pgs) + 1 /\ w[n] = <<e>>
        BY <3>1, <4>1
      <4> HIDE DEF w, n
      <4> QED
        BY <4>2
    <3>3. CASE ~PageFull(pgs)
      <4> DEFINE q == pgs[Len(pgs)]
      <4>1. w = [pgs EXCEPT ![Len(pgs)] = Append(q, e)]
        BY <3>3 DEF Put
      <4>2. n = Len(pgs) /\ w[n] = Append(q, e)
        BY <3>1, <4>1
      <4>3. Len(q) \in Nat /\ Len(Append(q, e)) = Len(q) + 1 /\ Append(q, e)[Len(q) + 1] = e
        BY <3>1
      <4> HIDE DEF w, n, q
      <4>4. l = Len(q) + 1
        BY <4>2, <4>3
      <4> HIDE DEF l
      <4>5. l \in 1 .. l
        BY <4>3, <4>4
      <4> QED
        BY <4>2, <4>3, <4>4, <4>5 DEF l
    <3> QED
      BY <3>2, <3>3
  <2> DEFINE i == (n - 1) * PageSize + l
  <2>3. PageOf(i) = n /\ SlotOf(i) = l
    <3> HIDE DEF w
    <3> QED
      BY <1>1, <2>1, <2>2, Position
  <2>4. i = Count(w)
    BY DEF Count
  <2>5. At(w, i) = w[n][l]
    BY <2>3 DEF At
  <2> HIDE DEF i, l, n, w
  <2> QED
    BY <1>1, <2>2, <2>4, <2>5
<1>4. Flat(w) = [j \in 1 .. c + 1 |-> At(w, j)]
  BY <1>1 DEF Flat
<1>5. Append(Flat(pgs), e) = [j \in 1 .. c + 1 |-> IF j \in 1 .. c THEN At(pgs, j) ELSE e]
  <2> DEFINE f == Flat(pgs)
  <2>1. \A j \in 1 .. c : f[j] = At(pgs, j)
    BY <1>2
  <2>2. f \in Seq(S) /\ Len(f) = c /\ c \in Nat
    BY <1>2
  <2> HIDE DEF c, w, f
  <2>3. Append(f, e) = [j \in 1 .. c + 1 |-> IF j \in 1 .. c THEN f[j] ELSE e]
    <3> DEFINE g == Append(f, e)
    <3>1. /\ g \in Seq(S) /\ Len(g) = c + 1 /\ g[c + 1] = e
          /\ \A j \in 1 .. c : g[j] = f[j]
      BY <2>2, AppendProperties
    <3> HIDE DEF g
    <3>2. g = [j \in 1 .. c + 1 |-> g[j]]
      BY <3>1
    <3>3. \A j \in 1 .. c + 1 : g[j] = IF j \in 1 .. c THEN f[j] ELSE e
      BY <2>2, <3>1
    <3> QED
      BY <3>2, <3>3 DEF g
  <2> QED
    BY <2>1, <2>3 DEF f
<1>6. \A j \in 1 .. c + 1 : At(w, j) = IF j \in 1 .. c THEN At(pgs, j) ELSE e
  <2> TAKE j \in 1 .. c + 1
  <2>1. j \in 1 .. c \/ j = c + 1
    <3> HIDE DEF c
    <3> QED
      BY <1>2
  <2>2. ~(c + 1 \in 1 .. c)
    <3> HIDE DEF c
    <3> QED
      BY <1>2
  <2> HIDE DEF c, w
  <2> QED
    BY <1>1, <1>3, <2>1, <2>2
<1> HIDE DEF c, w
<1>7. Flat(w) = Append(Flat(pgs), e)
  BY <1>4, <1>5, <1>6
<1> QED
  BY <1>1, <1>7 DEF c, w

\* The pages with the events of es in the places of theirs.
Refilled(pgs, es) ==
  [p \in DOMAIN pgs |-> [s \in DOMAIN pgs[p] |-> es[(p - 1) * PageSize + s]]]

LEMMA FlatRefilled ==
  ASSUME NEW S, NEW pgs, FilledWith(S, pgs), NEW es \in Seq(S), Len(es) = Count(pgs)
  PROVE  /\ FilledWith(S, Refilled(pgs, es))
         /\ Count(Refilled(pgs, es)) = Count(pgs)
         /\ Flat(Refilled(pgs, es)) = es
<1> DEFINE w == Refilled(pgs, es)
           n == Len(pgs)
<1>1. n \in Nat /\ n > 0 /\ DOMAIN pgs = 1 .. n
      /\ \A p \in 1 .. n : pgs[p] \in Seq(S) /\ Len(pgs[p]) \in Nat /\ DOMAIN pgs[p] = 1 .. Len(pgs[p])
  BY DEF FilledWith
<1>2. w = [p \in 1 .. n |-> [s \in 1 .. Len(pgs[p]) |-> es[(p - 1) * PageSize + s]]]
  BY <1>1 DEF Refilled
<1>3. \A p \in 1 .. n : \A s \in 1 .. Len(pgs[p]) : es[(p - 1) * PageSize + s] \in S
  <2> TAKE p \in 1 .. n
  <2> TAKE s \in 1 .. Len(pgs[p])
  <2>1. (p - 1) * PageSize + s \in 1 .. Len(es)
    BY Position
  <2> QED
    BY <2>1, ElementOfSeq, Zenon
<1>4. \A p \in 1 .. n : w[p] \in Seq(S) /\ Len(w[p]) = Len(pgs[p])
  <2> TAKE p \in 1 .. n
  <2>1. w[p] = [s \in 1 .. Len(pgs[p]) |-> es[(p - 1) * PageSize + s]]
    BY <1>2
  <2> HIDE DEF w
  <2>2. \A s \in 1 .. Len(pgs[p]) : es[(p - 1) * PageSize + s] \in S
    BY <1>3
  <2>3. Len(pgs[p]) \in Nat
    BY <1>1
  <2>4. w[p] \in Seq(S)
    BY <2>1, <2>2, <2>3
  <2> QED
    BY <2>1, <2>3, <2>4
<1>5. w \in Seq(Seq(S)) /\ Len(w) = n
  <2> HIDE DEF w
  <2>1. w = [p \in 1 .. n |-> w[p]]
    BY <1>2
  <2>2. \A p \in 1 .. n : w[p] \in Seq(S)
    BY <1>4
  <2>3. w \in Seq(Seq(S))
    BY <1>1, <2>1, <2>2
  <2> QED
    BY <1>1, <2>1, <2>3
<1> HIDE DEF w
<1>6. FilledWith(S, w)
  BY <1>1, <1>4, <1>5 DEF FilledWith
<1>7. Count(w) = Count(pgs)
  <2>1. n \in 1 .. n
    BY <1>1
  <2>2. Len(w[n]) = Len(pgs[n])
    BY <1>4, <2>1
  <2> QED
    BY <1>5, <2>2 DEF Count
<1>8. ASSUME NEW i \in 1 .. Count(pgs) PROVE At(w, i) = es[i]
  <2> DEFINE p == PageOf(i)
             s == SlotOf(i)
  <2>1. p \in 1 .. n /\ s \in 1 .. Len(pgs[p])
    BY Places
  <2>2. (p - 1) * PageSize + s = i
    <3> DEFINE k == (p - 1) * PageSize + s
    <3>1. k \in 1 .. Count(pgs) /\ PageOf(k) = p /\ SlotOf(k) = s
      BY <2>1, Position
    <3>2. Count(pgs) \in Nat
      BY FlatType
    <3> HIDE DEF k
    <3>3. k \in Nat \ {0} /\ i \in Nat \ {0}
      BY <3>1, <3>2
    <3> QED
      BY <3>1, <3>3, PlacesApart DEF k
  <2>3. At(w, i) = w[p][s]
    BY DEF At
  <2> HIDE DEF p, s
  <2>4. w[p][s] = es[(p - 1) * PageSize + s]
    BY <1>2, <2>1
  <2> QED
    BY <2>2, <2>3, <2>4
<1>9. Flat(w) = [i \in 1 .. Len(es) |-> es[i]]
  BY <1>7, <1>8 DEF Flat
<1>10. Flat(w) = es
  BY <1>9
<1> QED
  BY <1>6, <1>7, <1>10 DEF w
-----------------------------------------------------------------------------
\* In every state the pages are sequences of events, filled in their order.
THEOREM PagesStayFilled == TimelineSpec => []Filled(pages)
<1>1. TimelineInit => Filled(pages)
  BY TimelineAssumption DEF TimelineInit, Filled, FilledWith
<1>2. Filled(pages) /\ [TimelineNext]_pages => Filled(pages)'
  <2> SUFFICES ASSUME Filled(pages), [TimelineNext]_pages PROVE Filled(pages')
    OBVIOUS
  <2>1. ASSUME NEW e \in Event, AddEvent(e) PROVE Filled(pages')
    BY <2>1, PutsLast DEF AddEvent, Filled
  <2>2. ASSUME NEW e \in Event, NEW i \in 1 .. Count(pages), ChangeEvent(i, e)
        PROVE  Filled(pages')
    BY <2>2, WritesOne DEF ChangeEvent, Filled
  <2>3. CASE UNCHANGED pages
    BY <2>3
  <2> QED BY <2>1, <2>2, <2>3 DEF TimelineNext
<1> QED BY <1>1, <1>2, PTL DEF TimelineSpec

\* Every page but the last is full, and there is one page more than the limit
\* at the most, the header page: timeline_allocpage, for any size and limit.
THEOREM PagesAlwaysFilled == TimelineSpec => []PagesFilled
<1>1. Filled(pages) => PagesFilled
  BY DEF Filled, FilledWith, PagesFilled
<1> QED BY <1>1, PagesStayFilled, PTL

\* Through its pages the event list is a list that grows at its end, up to its
\* capacity, and in which an event keeps its place, thread and function: what
\* begin_event, sibling and lines refer to stays what it was.
THEOREM PagesActAsList == TimelineSpec => ActsAsList
<1> DEFINE list(pgs) == [i \in 1 .. Count(pgs) |-> Key(At(pgs, i))]
<1>1. TimelineInit => FlatList!EInit
  <2> SUFFICES ASSUME TimelineInit PROVE FlatList!EInit
    OBVIOUS
  <2>1. Count(pages) = 0
    BY TimelineAssumption DEF TimelineInit, Count
  <2> QED BY <2>1 DEF FlatList!EInit
<1>2. ASSUME Filled(pages), [TimelineNext]_pages
      PROVE  [FlatList!EGrow]_(list(pages))
  <2>1. ASSUME NEW pgs, Filled(pgs) PROVE Len(list(pgs)) = Count(pgs) /\ Count(pgs) \in Nat
    BY <2>1, Bounded DEF Filled
  <2>2. ASSUME Filled(pages'), Count(pages) <= Count(pages'),
               \A i \in 1 .. Count(pages) : Key(At(pages', i)) = Key(At(pages, i))
        PROVE  FlatList!EGrow
    <3>1. Len(list(pages)) = Count(pages) /\ Len(list(pages')) = Count(pages')
          /\ Count(pages) \in Nat /\ Count(pages') \in Nat
      BY <1>2, <2>1, <2>2
    <3>2. Capacity # 0 => Count(pages') <= Capacity
      BY <2>2, Bounded DEF Filled
    <3>3. \A i \in 1 .. Count(pages) : list(pages')[i] = list(pages)[i]
      <4> SUFFICES ASSUME NEW i \in 1 .. Count(pages)
                   PROVE  list(pages')[i] = list(pages)[i]
        OBVIOUS
      <4>1. i \in 1 .. Count(pages')
        BY <2>2, <3>1
      <4> QED BY <4>1, <2>2
    <3> QED BY <2>2, <3>1, <3>2, <3>3 DEF FlatList!EGrow
  <2>3. ASSUME NEW e \in Event, AddEvent(e) PROVE FlatList!EGrow
    <3>1. /\ Filled(pages') /\ Count(pages') = Count(pages) + 1
          /\ \A j \in 1 .. Count(pages) : At(pages', j) = At(pages, j)
      BY <1>2, <2>3, PutsLast DEF AddEvent, Filled
    <3>2. Count(pages) <= Count(pages')
      BY <3>1, <2>1, <1>2
    <3> QED BY <3>1, <3>2, <2>2
  <2>4. ASSUME NEW e \in Event, NEW i \in 1 .. Count(pages), ChangeEvent(i, e)
        PROVE  FlatList!EGrow
    <3>1. /\ Filled(pages') /\ Count(pages') = Count(pages)
          /\ \A j \in 1 .. Count(pages) : \/ At(pages', j) = e /\ At(pages, j) = At(pages, i)
                                          \/ At(pages', j) = At(pages, j)
      BY <1>2, <2>4, WritesOne DEF ChangeEvent, Filled
    <3>2. \A j \in 1 .. Count(pages) : Key(At(pages', j)) = Key(At(pages, j))
      BY <3>1, <2>4, Zenon DEF ChangeEvent
    <3>3. Count(pages) <= Count(pages')
      BY <3>1, <2>1, <1>2
    <3> QED BY <3>1, <3>2, <3>3, <2>2
  <2>5. CASE UNCHANGED pages
    BY <2>5
  <2> QED BY <1>2, <2>3, <2>4, <2>5 DEF TimelineNext
<1> QED BY <1>1, <1>2, PagesStayFilled, PTL DEF TimelineSpec, ActsAsList, FlatList!ESpec
=============================================================================
