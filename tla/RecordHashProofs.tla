-------------------------- MODULE RecordHashProofs --------------------------
(* The record hash is a map, for any keys, buckets and hash function.      *)
EXTENDS RecordHash, TLAPS

\* What is said of the hash, of any value it may have.
Typed(h) ==
  /\ h = [chains |-> h.chains, keys |-> h.keys, next |-> h.next]
  /\ h.chains \in [Buckets -> Seq(Nat)]
  /\ h.next \in Nat
  /\ DOMAIN h.keys \subseteq {id \in Nat : id < h.next}
  /\ h.keys \in [DOMAIN h.keys -> Key]

InBuckets(h) ==
  \A b \in Buckets : \A i \in DOMAIN h.chains[b] :
    /\ h.chains[b][i] \in DOMAIN h.keys
    /\ BucketOf(h.keys[h.chains[b][i]]) = b
    /\ \A j \in DOMAIN h.chains[b] : h.chains[b][i] = h.chains[b][j] => i = j

InChains(h) ==
  \A id \in DOMAIN h.keys :
    \E i \in DOMAIN Chain(h, h.keys[id]) : Chain(h, h.keys[id])[i] = id

OneRecord(h) == \A id, other \in DOMAIN h.keys : h.keys[id] = h.keys[other] => id = other

Good(h) == Typed(h) /\ InBuckets(h) /\ InChains(h) /\ OneRecord(h)

\* m has the elements of s, and none of them twice if s does not.
Permutes(m, s) ==
  /\ m \in Seq(Nat) /\ Len(m) = Len(s)
  /\ \A j \in 1 .. Len(s) : \E l \in 1 .. Len(s) : m[l] = s[j]
  /\ \A l \in 1 .. Len(s) : \E j \in 1 .. Len(s) : m[l] = s[j]
  /\ (\A a, b \in 1 .. Len(s) : s[a] = s[b] => a = b) =>
       \A a, b \in 1 .. Len(s) : m[a] = m[b] => a = b

\* What a chain is made of does not change when an element moves to its front.
LEMMA MovesOne ==
  ASSUME NEW s \in Seq(Nat), NEW i \in 1 .. Len(s)
  PROVE  Permutes(MoveToFront(s, i), s)
<1> DEFINE m == MoveToFront(s, i)
           n == Len(s)
           from(l) == IF l = 1 THEN i ELSE IF l <= i THEN l - 1 ELSE l
           to(j) == IF j = i THEN 1 ELSE IF j < i THEN j + 1 ELSE j
<1>1. n \in Nat /\ i \in 1 .. n /\ DOMAIN s = 1 .. n
  OBVIOUS
<1>2. \A l \in 1 .. n : from(l) \in 1 .. n
  BY <1>1
<1>3. \A l \in 1 .. n : m[l] = s[from(l)]
  BY <1>1 DEF MoveToFront
<1>4. m \in [1 .. n -> Nat]
  BY <1>1 DEF MoveToFront
<1>5. m \in Seq(Nat) /\ Len(m) = n
  BY <1>4, <1>1
<1>6. \A j \in 1 .. n : to(j) \in 1 .. n /\ from(to(j)) = j
  BY <1>1
<1>7. \A a, b \in 1 .. n : from(a) = from(b) => a = b
  BY <1>1
<1> HIDE DEF m, n, from, to
<1>8. \A j \in 1 .. n : \E l \in 1 .. n : m[l] = s[j]
  BY <1>3, <1>6
<1>9. \A l \in 1 .. n : \E j \in 1 .. n : m[l] = s[j]
  BY <1>2, <1>3
<1>10. (\A a, b \in 1 .. n : s[a] = s[b] => a = b) => \A a, b \in 1 .. n : m[a] = m[b] => a = b
  BY <1>2, <1>3, <1>7
<1> QED BY <1>5, <1>8, <1>9, <1>10 DEF m, n, Permutes

\* In a good hash, the only place where the key of a record matches is that of
\* the record.
LEMMA MatchesOne ==
  ASSUME NEW h, Good(h), NEW k \in Key, NEW i \in Matches(h, k)
  PROVE  /\ i \in 1 .. Len(Chain(h, k)) /\ Chain(h, k) \in Seq(Nat)
         /\ Chain(h, k)[i] \in DOMAIN h.keys /\ h.keys[Chain(h, k)[i]] = k
         /\ Matches(h, k) = {i} /\ First(h, k) = i
<1>1. BucketOf(k) \in Buckets /\ Chain(h, k) \in Seq(Nat)
  BY RecordHashAssumption DEF Good, Typed, Chain
<1>2. i \in DOMAIN Chain(h, k) /\ i \in 1 .. Len(Chain(h, k)) /\ h.keys[Chain(h, k)[i]] = k
  BY <1>1 DEF Matches
<1>3. \A j \in DOMAIN Chain(h, k) : Chain(h, k)[j] \in DOMAIN h.keys
  BY <1>1 DEF Good, InBuckets, Chain
<1>4. \A j \in Matches(h, k) : j = i
  <2> SUFFICES ASSUME NEW j \in Matches(h, k) PROVE j = i
    OBVIOUS
  <2>1. j \in DOMAIN Chain(h, k) /\ h.keys[Chain(h, k)[j]] = k
    BY DEF Matches
  <2>2. Chain(h, k)[j] = Chain(h, k)[i]
    BY <1>2, <1>3, <2>1 DEF Good, OneRecord
  <2> QED BY <1>1, <1>2, <2>1, <2>2 DEF Good, InBuckets, Chain
<1>5. Matches(h, k) = {i}
  BY <1>4
<1>6. First(h, k) = i
  <2>1. \E x \in Matches(h, k) : \A j \in Matches(h, k) : x <= j
    BY <1>2, <1>5
  <2>2. First(h, k) \in Matches(h, k)
    BY <2>1 DEF First
  <2> QED BY <1>5, <2>2
<1> QED BY <1>1, <1>2, <1>3, <1>5, <1>6

\* A lookup that finds a record leaves a good hash, with the same records.
LEMMA FoundGood ==
  ASSUME NEW h, Good(h), NEW k \in Key, Matches(h, k) # {}
  PROVE  Good(Found(h, k)) /\ Found(h, k).keys = h.keys /\ Found(h, k).next = h.next
<1> DEFINE b == BucketOf(k)
           s == h.chains[b]
           f == Found(h, k)
<1>1. PICK i \in Matches(h, k) : TRUE
  OBVIOUS
<1>2. First(h, k) = i /\ i \in 1 .. Len(s) /\ s \in Seq(Nat)
  BY <1>1, MatchesOne DEF Chain
<1> DEFINE m == MoveToFront(s, i)
<1>3. b \in Buckets
  BY RecordHashAssumption
<1>4. h = [chains |-> h.chains, keys |-> h.keys, next |-> h.next]
  BY DEF Good, Typed
<1>5. f = [chains |-> [h.chains EXCEPT ![b] = m], keys |-> h.keys, next |-> h.next]
  <2>1. f = [h EXCEPT !.chains = [h.chains EXCEPT ![b] = m]]
    BY <1>2 DEF Found
  <2> HIDE DEF f, m, b
  <2> QED BY <2>1, <1>4
<1> HIDE DEF s
<1>6. /\ m \in Seq(Nat) /\ Len(m) = Len(s)
      /\ \A j \in 1 .. Len(s) : \E l \in 1 .. Len(s) : m[l] = s[j]
      /\ \A l \in 1 .. Len(s) : \E j \in 1 .. Len(s) : m[l] = s[j]
      /\ (\A a, c \in 1 .. Len(s) : s[a] = s[c] => a = c) =>
           \A a, c \in 1 .. Len(s) : m[a] = m[c] => a = c
  <2>1. Permutes(m, s)
    BY <1>2, MovesOne
  <2> HIDE DEF m
  <2> QED BY <2>1 DEF Permutes
<1> USE DEF s
<1> HIDE DEF m, f
<1>7. f.keys = h.keys /\ f.next = h.next /\ f.chains = [h.chains EXCEPT ![b] = m]
  BY <1>5
<1>8. f.chains[b] = m /\ \A a \in Buckets : a # b => f.chains[a] = h.chains[a]
  BY <1>3, <1>7 DEF Good, Typed
<1>9. DOMAIN m = 1 .. Len(s) /\ DOMAIN s = 1 .. Len(s)
  <2> HIDE DEF s
  <2> QED BY <1>2, <1>6
<1>10. Typed(f)
  BY <1>3, <1>5, <1>6, <1>7 DEF Good, Typed
<1>11. InBuckets(f)
  <2> SUFFICES ASSUME NEW a \in Buckets, NEW x \in DOMAIN f.chains[a]
               PROVE  /\ f.chains[a][x] \in DOMAIN f.keys
                      /\ BucketOf(f.keys[f.chains[a][x]]) = a
                      /\ \A j \in DOMAIN f.chains[a] : f.chains[a][x] = f.chains[a][j] => x = j
    BY DEF InBuckets
  <2>1. CASE a # b
    BY <2>1, <1>7, <1>8 DEF Good, InBuckets
  <2>2. CASE a = b
    <3>1. x \in 1 .. Len(s) /\ f.chains[a] = m
      BY <2>2, <1>8, <1>9
    <3>2. PICK y \in 1 .. Len(s) : m[x] = s[y]
      BY <3>1, <1>6
    <3>3. s[y] \in DOMAIN h.keys /\ BucketOf(h.keys[s[y]]) = b
      BY <1>3, <1>9, <3>2 DEF Good, InBuckets
    <3>4. \A c, d \in 1 .. Len(s) : s[c] = s[d] => c = d
      BY <1>3, <1>9 DEF Good, InBuckets
    <3>5. \A j \in DOMAIN m : m[x] = m[j] => x = j
      BY <3>1, <3>4, <1>6, <1>9
    <3> QED BY <2>2, <3>1, <3>2, <3>3, <3>5, <1>7
  <2> QED BY <2>1, <2>2
<1>12. InChains(f)
  <2> SUFFICES ASSUME NEW id \in DOMAIN h.keys
               PROVE  \E x \in DOMAIN f.chains[BucketOf(h.keys[id])] :
                        f.chains[BucketOf(h.keys[id])][x] = id
    BY <1>7 DEF InChains, Chain
  <2>1. PICK x \in DOMAIN h.chains[BucketOf(h.keys[id])] :
          h.chains[BucketOf(h.keys[id])][x] = id
    BY DEF Good, InChains, Chain
  <2>2. h.keys[id] \in Key /\ BucketOf(h.keys[id]) \in Buckets
    BY RecordHashAssumption DEF Good, Typed
  <2>3. CASE BucketOf(h.keys[id]) # b
    BY <2>1, <2>2, <2>3, <1>8
  <2>4. CASE BucketOf(h.keys[id]) = b
    <3>1. PICK l \in 1 .. Len(s) : m[l] = id
      BY <2>1, <2>4, <1>6, <1>9
    <3> QED BY <2>4, <3>1, <1>8, <1>9
  <2> QED BY <2>3, <2>4
<1>13. OneRecord(f)
  BY <1>7 DEF Good, OneRecord
<1> QED BY <1>7, <1>10, <1>11, <1>12, <1>13 DEF Good, f

\* A new record leaves a good hash, in which it has the key that had none.
LEMMA InsertedGood ==
  ASSUME NEW h, Good(h), NEW k \in Key, Matches(h, k) = {}
  PROVE  /\ Good(Inserted(h, k))
         /\ Inserted(h, k).next = h.next + 1
         /\ DOMAIN Inserted(h, k).keys = DOMAIN h.keys \cup {h.next}
         /\ \A id \in DOMAIN h.keys : Inserted(h, k).keys[id] = h.keys[id]
<1> DEFINE b == BucketOf(k)
           s == h.chains[b]
           n == h.next
           f == Inserted(h, k)
           m == <<n>> \o s
<1>1. b \in Buckets /\ n \in Nat /\ s \in Seq(Nat)
  BY RecordHashAssumption DEF Good, Typed
<1>2. m \in Seq(Nat) /\ Len(m) = Len(s) + 1 /\ m[1] = n
      /\ \A i \in 1 .. Len(s) : m[i + 1] = s[i]
  <2>1. PICK x \in Nat, q \in Seq(Nat) : x = n /\ q = s
    BY <1>1
  <2>2. /\ <<x>> \o q \in Seq(Nat) /\ Len(<<x>> \o q) = Len(q) + 1 /\ (<<x>> \o q)[1] = x
        /\ \A i \in 1 .. Len(q) : (<<x>> \o q)[i + 1] = q[i]
    OBVIOUS
  <2> HIDE DEF n, s
  <2> QED BY <2>1, <2>2
<1>3. /\ f = [chains |-> f.chains, keys |-> f.keys, next |-> f.next]
      /\ f.chains = [h.chains EXCEPT ![b] = m] /\ f.next = n + 1
      /\ DOMAIN f.keys = DOMAIN h.keys \cup {n} /\ f.keys[n] = k
  BY DEF Inserted
<1>4. n \notin DOMAIN h.keys
  BY <1>1 DEF Good, Typed
<1>5. \A id \in DOMAIN h.keys : f.keys[id] = h.keys[id]
  BY <1>4 DEF Inserted
<1> HIDE DEF f, m
<1>6. f.chains[b] = m /\ \A a \in Buckets : a # b => f.chains[a] = h.chains[a]
  BY <1>1, <1>3 DEF Good, Typed
<1>7. DOMAIN m = 1 .. Len(s) + 1 /\ DOMAIN s = 1 .. Len(s) /\ Len(s) \in Nat
  BY <1>1, <1>2
<1>8. Typed(f)
  <2>1. f.chains \in [Buckets -> Seq(Nat)]
    BY <1>1, <1>2, <1>3 DEF Good, Typed
  <2>2. DOMAIN f.keys \subseteq {id \in Nat : id < f.next}
    BY <1>1, <1>3 DEF Good, Typed
  <2>3. f.keys \in [DOMAIN f.keys -> Key]
    <3>1. f.keys = [id \in DOMAIN h.keys \cup {n} |-> IF id = n THEN k ELSE h.keys[id]]
      BY DEF Inserted, f
    <3> QED BY <3>1 DEF Good, Typed
  <2> QED BY <1>1, <1>3, <2>1, <2>2, <2>3 DEF Typed
<1>9. \A i \in DOMAIN s : s[i] \in DOMAIN h.keys /\ BucketOf(h.keys[s[i]]) = b
  BY <1>1 DEF Good, InBuckets
<1>10. InBuckets(f)
  <2> SUFFICES ASSUME NEW a \in Buckets, NEW x \in DOMAIN f.chains[a]
               PROVE  /\ f.chains[a][x] \in DOMAIN f.keys
                      /\ BucketOf(f.keys[f.chains[a][x]]) = a
                      /\ \A j \in DOMAIN f.chains[a] : f.chains[a][x] = f.chains[a][j] => x = j
    BY DEF InBuckets
  <2>1. CASE a # b
    BY <2>1, <1>3, <1>5, <1>6 DEF Good, InBuckets
  <2>2. CASE a = b
    <3>1. x \in 1 .. Len(s) + 1 /\ f.chains[a] = m
      BY <2>2, <1>6, <1>7
    <3>2. \A j \in 1 .. Len(s) + 1 : j # 1 => j - 1 \in DOMAIN s /\ m[j] = s[j - 1]
      BY <1>2, <1>7
    <3>3. \A c, d \in DOMAIN s : s[c] = s[d] => c = d
      BY <1>1 DEF Good, InBuckets
    <3>4. m[x] \in DOMAIN f.keys /\ BucketOf(f.keys[m[x]]) = b
      <4>1. CASE x = 1
        BY <4>1, <1>2, <1>3
      <4>2. CASE x # 1
        BY <4>2, <3>1, <3>2, <1>3, <1>5, <1>9
      <4> QED BY <4>1, <4>2
    <3>5. \A j \in DOMAIN m : m[x] = m[j] => x = j
      <4> SUFFICES ASSUME NEW j \in DOMAIN m, m[x] = m[j] PROVE x = j
        OBVIOUS
      <4>0. j \in 1 .. Len(s) + 1
        BY <1>7
      <4>1. CASE x = 1 /\ j # 1
        BY <4>0, <4>1, <3>2, <1>2, <1>4, <1>9
      <4>2. CASE x # 1 /\ j = 1
        BY <4>2, <3>1, <3>2, <1>2, <1>4, <1>9
      <4>3. CASE x # 1 /\ j # 1
        <5>1. x - 1 = j - 1
          BY <4>0, <4>3, <3>1, <3>2, <3>3
        <5> QED BY <5>1, <4>0, <3>1, <1>7
      <4> QED BY <4>1, <4>2, <4>3
    <3> QED BY <2>2, <3>1, <3>4, <3>5
  <2> QED BY <2>1, <2>2
<1>11. InChains(f)
  <2> SUFFICES ASSUME NEW id \in DOMAIN f.keys
               PROVE  \E x \in DOMAIN f.chains[BucketOf(f.keys[id])] :
                        f.chains[BucketOf(f.keys[id])][x] = id
    BY DEF InChains, Chain
  <2>1. CASE id = n
    <3>1. 1 \in DOMAIN m /\ m[1] = id
      BY <2>1, <1>2, <1>7
    <3> QED BY <2>1, <3>1, <1>3, <1>6
  <2>2. CASE id # n
    <3>1. id \in DOMAIN h.keys /\ f.keys[id] = h.keys[id]
      BY <2>2, <1>3, <1>5
    <3>2. PICK x \in DOMAIN h.chains[BucketOf(h.keys[id])] :
            h.chains[BucketOf(h.keys[id])][x] = id
      BY <3>1 DEF Good, InChains, Chain
    <3>3. BucketOf(h.keys[id]) \in Buckets
      BY <3>1, RecordHashAssumption DEF Good, Typed
    <3>4. CASE BucketOf(h.keys[id]) # b
      BY <3>1, <3>2, <3>3, <3>4, <1>6
    <3>5. CASE BucketOf(h.keys[id]) = b
      <4>1. x \in 1 .. Len(s) /\ s[x] = id
        BY <3>2, <3>5, <1>7
      <4>2. x + 1 \in DOMAIN m /\ m[x + 1] = id
        <5>1. x + 1 \in 1 .. Len(s) + 1
          BY <4>1, <1>7
        <5> QED BY <4>1, <5>1, <1>2, <1>7
      <4>3. f.chains[BucketOf(f.keys[id])] = m
        BY <3>1, <3>5, <1>1, <1>6
      <4> QED BY <4>2, <4>3
    <3> QED BY <3>4, <3>5
  <2> QED BY <2>1, <2>2
<1>12. OneRecord(f)
  <2>1. \A id \in DOMAIN h.keys : h.keys[id] # k
    <3> SUFFICES ASSUME NEW id \in DOMAIN h.keys, h.keys[id] = k PROVE FALSE
      OBVIOUS
    <3>1. PICK x \in DOMAIN Chain(h, k) : Chain(h, k)[x] = id
      BY DEF Good, InChains
    <3>2. x \in Matches(h, k)
      BY <3>1 DEF Matches
    <3> QED BY <3>2
  <2> QED BY <2>1, <1>3, <1>5 DEF Good, OneRecord
<1> QED BY <1>3, <1>5, <1>8, <1>10, <1>11, <1>12 DEF Good, f
-----------------------------------------------------------------------------
\* An empty hash is good, whatever number the next record has.
LEMMA NewGood ==
  ASSUME NEW n \in Nat
  PROVE  Good(NewHash(n)) /\ NewHash(n).keys = [id \in {} |-> 0] /\ NewHash(n).next = n
<1>1. /\ NewHash(n).chains = [b \in Buckets |-> <<>>]
      /\ NewHash(n).keys = [id \in {} |-> 0] /\ NewHash(n).next = n
      /\ NewHash(n) = [chains |-> NewHash(n).chains, keys |-> NewHash(n).keys,
                       next |-> NewHash(n).next]
  BY DEF NewHash
<1>2. DOMAIN NewHash(n).keys = {}
  BY <1>1
<1>3. Typed(NewHash(n))
  BY <1>1, <1>2 DEF Typed
<1>4. InBuckets(NewHash(n))
  BY <1>1 DEF InBuckets
<1>5. InChains(NewHash(n)) /\ OneRecord(NewHash(n))
  BY <1>2 DEF InChains, OneRecord
<1> QED BY <1>1, <1>3, <1>4, <1>5 DEF Good

\* In every state records are where lookups look for them, and one per key.
THEOREM HashStaysGood == HashSpec => []Good(hash)
<1>1. HashInit => Good(hash)
  BY NewGood DEF HashInit
<1>2. Good(hash) /\ [HashNext]_hash => Good(hash)'
  <2> SUFFICES ASSUME Good(hash), [HashNext]_hash PROVE Good(hash')
    OBVIOUS
  <2>1. ASSUME NEW k \in Key, FetchRecord(k) PROVE Good(hash')
    BY <2>1, FoundGood, InsertedGood DEF FetchRecord, Fetch
  <2>2. ASSUME NEW n \in Nat, Clear(n) PROVE Good(hash')
    BY <2>2, NewGood DEF Clear
  <2>3. CASE UNCHANGED hash
    BY <2>3
  <2> QED BY <2>1, <2>2, <2>3 DEF HashNext
<1> QED BY <1>1, <1>2, PTL DEF HashSpec

\* Every record is in the bucket of its key once, and no other has its key:
\* lmprof_hash_get and lmprof_hash_insert, for any keys and hash function.
THEOREM AlwaysChained == HashSpec => []Chained
<1>1. Good(hash) => Chained
  BY DEF Good, Chained, InBuckets, InChains, OneRecord
<1> QED BY <1>1, HashStaysGood, PTL

\* The identifiers that lookups find.
HeldIn(h) == {k \in {h.keys[id] : id \in DOMAIN h.keys} : Matches(h, k) # {}}
LookupIn(h) == [k \in HeldIn(h) |-> Chain(h, k)[First(h, k)]]

\* A lookup finds every record by its key.
LEMMA LooksUp ==
  ASSUME NEW h, Good(h)
  PROVE  /\ HeldIn(h) = {h.keys[id] : id \in DOMAIN h.keys}
         /\ DOMAIN LookupIn(h) = {h.keys[id] : id \in DOMAIN h.keys}
         /\ \A id \in DOMAIN h.keys : LookupIn(h)[h.keys[id]] = id
<1>1. ASSUME NEW id \in DOMAIN h.keys
      PROVE  h.keys[id] \in HeldIn(h) /\ LookupIn(h)[h.keys[id]] = id
  <2> DEFINE k == h.keys[id]
  <2>1. k \in Key
    BY DEF Good, Typed
  <2>2. PICK i \in DOMAIN Chain(h, k) : Chain(h, k)[i] = id
    BY DEF Good, InChains
  <2>3. i \in Matches(h, k)
    BY <2>2 DEF Matches
  <2>4. First(h, k) = i
    BY <2>1, <2>3, MatchesOne
  <2>5. k \in HeldIn(h)
    BY <2>3 DEF HeldIn
  <2> QED BY <2>2, <2>4, <2>5 DEF LookupIn
<1>2. HeldIn(h) \subseteq {h.keys[id] : id \in DOMAIN h.keys}
  BY DEF HeldIn
<1>3. HeldIn(h) = {h.keys[id] : id \in DOMAIN h.keys}
  BY <1>1, <1>2
<1> QED BY <1>1, <1>3 DEF LookupIn

\* Records have been added to a hash, under the next identifiers.
Grows(old, new) ==
  /\ old.next <= new.next /\ DOMAIN old.keys \subseteq DOMAIN new.keys
  /\ \A id \in DOMAIN old.keys : new.keys[id] = old.keys[id]
  /\ \A id \in DOMAIN new.keys \ DOMAIN old.keys : old.next <= id /\ id < new.next

\* It may grow by more than one record.
LEMMA GrowsOn ==
  ASSUME NEW h, Good(h)
  PROVE  /\ Grows(h, h)
         /\ \A g, f : Good(g) /\ Good(f) /\ Grows(h, g) /\ Grows(g, f) => Grows(h, f)
<1>1. h.next \in Nat
  BY DEF Good, Typed
<1>2. ASSUME NEW g, NEW f, Good(g), Good(f), Grows(h, g), Grows(g, f) PROVE Grows(h, f)
  <2>1. g.next \in Nat /\ f.next \in Nat /\ DOMAIN g.keys \subseteq Nat /\ DOMAIN f.keys \subseteq Nat
    BY <1>2 DEF Good, Typed
  <2>2. \A id \in DOMAIN f.keys \ DOMAIN h.keys : h.next <= id /\ id < f.next
    <3> TAKE id \in DOMAIN f.keys \ DOMAIN h.keys
    <3>1. CASE id \in DOMAIN g.keys
      <4>1. h.next <= id /\ id < g.next /\ g.next <= f.next
        BY <1>2, <3>1 DEF Grows
      <4> QED BY <1>1, <2>1, <3>1, <4>1
    <3>2. CASE id \notin DOMAIN g.keys
      <4>1. h.next <= g.next /\ g.next <= id /\ id < f.next
        BY <1>2, <3>2 DEF Grows
      <4> QED BY <1>1, <2>1, <4>1
    <3> QED BY <3>1, <3>2
  <2> QED BY <1>1, <1>2, <2>1, <2>2 DEF Grows
<1> QED BY <1>1, <1>2 DEF Grows

\* lmprof_fetch_record adds one at most.
LEMMA FetchGrows ==
  ASSUME NEW h, Good(h), NEW k \in Key
  PROVE  Good(Fetch(h, k)) /\ Grows(h, Fetch(h, k))
<1>1. CASE Matches(h, k) # {}
  <2>1. Good(Fetch(h, k)) /\ Fetch(h, k).keys = h.keys /\ Fetch(h, k).next = h.next
    BY <1>1, FoundGood DEF Fetch
  <2> QED BY <2>1 DEF Good, Typed, Grows
<1>2. CASE Matches(h, k) = {}
  <2>1. /\ Good(Fetch(h, k)) /\ Fetch(h, k).next = h.next + 1
        /\ DOMAIN Fetch(h, k).keys = DOMAIN h.keys \cup {h.next}
        /\ \A id \in DOMAIN h.keys : Fetch(h, k).keys[id] = h.keys[id]
    BY <1>2, InsertedGood DEF Fetch
  <2> QED BY <2>1 DEF Good, Typed, Grows
<1> QED BY <1>1, <1>2

\* Its map grows too.
LEMMA GrowsMaps ==
  ASSUME Good(hash), Good(hash'), Grows(hash, hash')
  PROVE  Map!MGrow
<1> DEFINE old == hash
           new == hash'
<1>1. Lookup = LookupIn(old) /\ Lookup' = LookupIn(new)
  BY DEF Lookup, LookupIn, Held, HeldIn
<1>2. /\ DOMAIN Lookup = {old.keys[id] : id \in DOMAIN old.keys}
      /\ \A id \in DOMAIN old.keys : Lookup[old.keys[id]] = id
  BY <1>1, LooksUp
<1>3. /\ DOMAIN Lookup' = {new.keys[id] : id \in DOMAIN new.keys}
      /\ \A id \in DOMAIN new.keys : Lookup'[new.keys[id]] = id
  BY <1>1, LooksUp
<1>4. /\ old.next <= new.next
      /\ DOMAIN old.keys \subseteq DOMAIN new.keys
      /\ \A id \in DOMAIN old.keys : new.keys[id] = old.keys[id]
      /\ \A id \in DOMAIN new.keys \ DOMAIN old.keys : old.next <= id /\ id < new.next
  BY DEF Grows
<1> HIDE DEF old, new
<1>5. DOMAIN Lookup \subseteq DOMAIN Lookup'
  BY <1>2, <1>3, <1>4
<1>6. \A l \in DOMAIN Lookup : Lookup'[l] = Lookup[l]
  BY <1>2, <1>3, <1>4
<1>7. \A l \in DOMAIN Lookup' \ DOMAIN Lookup : old.next <= Lookup'[l] /\ Lookup'[l] < new.next
  <2> SUFFICES ASSUME NEW l \in DOMAIN Lookup' \ DOMAIN Lookup
               PROVE  old.next <= Lookup'[l] /\ Lookup'[l] < new.next
    OBVIOUS
  <2>1. PICK id \in DOMAIN new.keys : l = new.keys[id]
    BY <1>3
  <2>2. id \notin DOMAIN old.keys
    BY <2>1, <1>2, <1>4
  <2> QED BY <2>1, <2>2, <1>3, <1>4
<1>8. \A l, o \in DOMAIN Lookup' : Lookup'[l] = Lookup'[o] => l = o
  BY <1>3
<1> QED BY <1>4, <1>5, <1>6, <1>7, <1>8 DEF Map!MGrow, old, new

\* When the hash is destroyed the map is.
LEMMA ClearMaps ==
  ASSUME Good(hash), NEW n \in Nat, Clear(n)
  PROVE  Good(hash') /\ Map!MClear
<1>1. /\ Good(hash') /\ hash'.keys = [id \in {} |-> 0] /\ hash'.next = n
      /\ (n = 0 \/ n = hash.next \/ n = hash.next + 1)
  BY NewGood DEF Clear
<1>2. hash.next \in Nat
  BY DEF Good, Typed
<1>3. Lookup' = LookupIn(hash') /\ DOMAIN LookupIn(hash') = {hash'.keys[id] : id \in DOMAIN hash'.keys}
  BY <1>1, LooksUp DEF Lookup, LookupIn, Held, HeldIn
<1>4. DOMAIN Lookup' = {}
  <2>1. DOMAIN hash'.keys = {}
    BY <1>1
  <2> QED BY <1>3, <2>1
<1> QED BY <1>1, <1>2, <1>4 DEF Map!MClear

\* A step of the hash is a step of the map.
LEMMA StepMaps ==
  ASSUME Good(hash), Good(hash'), [HashNext]_hash
  PROVE  [Map!MGrow \/ Map!MClear]_<<Lookup, hash.next>>
<1>1. ASSUME NEW k \in Key, FetchRecord(k) PROVE Map!MGrow
  BY <1>1, FetchGrows, GrowsMaps DEF FetchRecord
<1>2. ASSUME NEW n \in Nat, Clear(n) PROVE Map!MClear
  BY <1>2, ClearMaps
<1>3. CASE UNCHANGED hash
  BY <1>3 DEF Lookup, Held, Matches, Chain, First
<1> QED BY <1>1, <1>2, <1>3 DEF HashNext

\* The hash implements a map that gives each key one identifier and keeps it,
\* whatever the keys, the number of buckets and the hash function are.
THEOREM HashActsAsMap == HashSpec => ActsAsMap
<1>1. HashInit => Map!MInit
  <2> SUFFICES ASSUME HashInit PROVE Map!MInit
    OBVIOUS
  <2>1. hash.keys = [id \in {} |-> 0] /\ hash.next = 0
    BY NewGood DEF HashInit
  <2>2. DOMAIN Lookup = {}
    BY <2>1 DEF Lookup, Held
  <2> QED BY <2>1, <2>2 DEF Map!MInit
<1>2. Good(hash) /\ Good(hash)' /\ [HashNext]_hash => [Map!MGrow \/ Map!MClear]_<<Lookup, hash.next>>
  BY StepMaps
<1> QED BY <1>1, <1>2, HashStaysGood, PTL DEF HashSpec, ActsAsMap, Map!MSpec
=============================================================================
