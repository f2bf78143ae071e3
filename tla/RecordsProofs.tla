---------------------------- MODULE RecordsProofs ----------------------------
(***************************************************************************)
(* Which record a call is counted in, what a record counts and what is     *)
(* reported, for any program, threads, lines and identifiers of functions, *)
(* over any number of sessions.                                            *)
(***************************************************************************)
EXTENDS Records, RecordHashProofs, LuaCallsProofs

\* The keys are all that a record can have.
KeysSuffice == Key = [fn : Nat, parent : Nat, line : Nat]

\* Paths of calls: functions, and the lines they are called from.
Paths == Seq(Nat \X Nat)

\* Entries of profile stacks, and the stacks.
Entry == [record : Nat, line : Nat, path : Paths]
EntryStacks == [Threads -> Seq(Entry)]

\* The program's call stacks.
ActiveCalls == Seq([fn : Funcs, line : Nat])
CallsOf == [Threads -> ActiveCalls]

\* g is h with a record, id, for the key k.
Fetches(h, k, g, id) ==
  /\ Good(g) /\ Grows(h, g) /\ id \in Nat /\ id \in DOMAIN g.keys /\ g.keys[id] = k
  /\ DOMAIN g.keys = DOMAIN h.keys \cup {id}
  /\ \A i \in DOMAIN h.keys : g.keys[i] = h.keys[i]
  /\ DOMAIN h.keys = {} => id = h.next

\* P_ID, in a graph that is compressed or not.
UpId(compress, h, id) == IF compress THEN h.keys[id].fn ELSE id

\* k is the key of the path p: it is the root's, or p is a path that has been
\* followed and one more call.
KeyFor(compress, h, s, p, k) ==
  \/ p = <<>> /\ k = RootKey
  \/ \E q \in Paths, fn \in Nat \ {Root}, line \in Nat, up \in Nat :
       /\ p = Append(q, <<fn, line>>) /\ <<q, up>> \in DOMAIN s /\ up \in DOMAIN h.keys
       /\ k = KeyOf(fn, UpId(compress, h, up), line)

\* Every path that has been followed led to the record of its key.
Explained(compress, h, s) ==
  /\ DOMAIN s \subseteq Paths \X Nat
  /\ \A p \in Paths, id \in Nat : <<p, id>> \in DOMAIN s =>
       id \in DOMAIN h.keys /\ KeyFor(compress, h, s, p, h.keys[id])

\* Every record has been followed to.
Followed(h, s) == \A id \in DOMAIN h.keys : \E p \in Paths : <<p, id>> \in DOMAIN s

\* Every entry of a profile stack is of a path that has been followed to its
\* record: the root's is below all others.
Entries(stacks, s) ==
  /\ stacks \in EntryStacks
  /\ \A t \in Threads : \A i \in 1 .. Len(stacks[t]) :
       /\ <<stacks[t][i].path, stacks[t][i].record>> \in DOMAIN s
       /\ stacks[t][i].path = <<>> <=> i = 1

\* What a profiler that runs has collected, while a hook changes it too.
Sound(compress, r) ==
  /\ r = [hash |-> r.hash, stack |-> r.stack, count |-> r.count, seen |-> r.seen]
  /\ Good(r.hash) /\ Explained(compress, r.hash, r.seen) /\ Followed(r.hash, r.seen)
  /\ DOMAIN r.count = DOMAIN r.hash.keys
  /\ Entries(r.stack, r.seen)

\* w is r after path has been followed to the record id.
Finds(compress, r, path, w, id) ==
  /\ Sound(compress, w) /\ id \in Nat /\ id \in DOMAIN w.hash.keys /\ <<path, id>> \in DOMAIN w.seen
  /\ w.stack = r.stack /\ Grows(r.hash, w.hash)
  /\ \A i \in DOMAIN r.hash.keys : i \in DOMAIN w.hash.keys /\ w.hash.keys[i] = r.hash.keys[i]
  /\ \A a \in DOMAIN r.seen : a \in DOMAIN w.seen
-----------------------------------------------------------------------------
(* The hash *)

\* lmprof_fetch_record returns a record of the key, and keeps those there are.
LEMMA FetchIs ==
  ASSUME NEW h, Good(h), NEW k \in Key
  PROVE  Fetches(h, k, Fetch(h, k), Fetched(h, k))
<1> DEFINE b == BucketOf(k)
<1>0. b \in Buckets /\ h.next \in Nat /\ h.chains \in [Buckets -> Seq(Nat)]
      /\ DOMAIN h.keys \subseteq Nat /\ h.next \notin DOMAIN h.keys
  BY RecordHashAssumption DEF Good, Typed
<1>1. CASE Matches(h, k) = {}
  <2>1. /\ Good(Inserted(h, k)) /\ Inserted(h, k).next = h.next + 1
        /\ DOMAIN Inserted(h, k).keys = DOMAIN h.keys \cup {h.next}
        /\ \A id \in DOMAIN h.keys : Inserted(h, k).keys[id] = h.keys[id]
    BY <1>1, InsertedGood
  <2>2. Inserted(h, k).keys[h.next] = k
    BY DEF Inserted
  <2>3. Inserted(h, k).chains[b] = <<h.next>> \o h.chains[b]
    BY <1>0 DEF Inserted
  <2>4. (<<h.next>> \o h.chains[b])[1] = h.next
    <3>1. h.chains[b] \in Seq(Nat) /\ h.next \in Nat
      BY <1>0
    <3>2. PICK s \in Seq(Nat), n \in Nat : s = h.chains[b] /\ n = h.next
      BY <3>1
    <3>3. (<<n>> \o s)[1] = n
      OBVIOUS
    <3> QED
      BY <3>2, <3>3
  <2>5. Fetch(h, k) = Inserted(h, k) /\ Fetched(h, k) = h.next
    BY <1>1, <2>3, <2>4 DEF Fetch, Fetched, Chain
  <2> QED
    BY <1>0, <2>1, <2>2, <2>5, FetchGrows DEF Fetches
<1>2. CASE Matches(h, k) # {}
  <2>1. Good(Found(h, k)) /\ Found(h, k).keys = h.keys /\ Found(h, k).next = h.next
    BY <1>2, FoundGood
  <2>2. PICK i \in Matches(h, k) : TRUE
    BY <1>2
  <2>3. /\ i \in 1 .. Len(Chain(h, k)) /\ Chain(h, k) \in Seq(Nat)
        /\ Chain(h, k)[i] \in DOMAIN h.keys /\ h.keys[Chain(h, k)[i]] = k
        /\ Matches(h, k) = {i} /\ First(h, k) = i
    BY <2>2, MatchesOne
  <2>4. PICK s \in Seq(Nat) : s = Chain(h, k) /\ i \in 1 .. Len(s)
    BY <2>3
  <2>5. Found(h, k).chains[b] = MoveToFront(s, i)
    BY <1>0, <2>3, <2>4 DEF Found, Chain
  <2>6. MoveToFront(s, i)[1] = s[i]
    <3>1. 1 \in DOMAIN s
      BY <2>4
    <3> QED
      BY <3>1 DEF MoveToFront
  <2>7. Fetch(h, k) = Found(h, k) /\ Fetched(h, k) = s[i]
    BY <1>2, <2>5, <2>6 DEF Fetch, Fetched, Chain
  <2>8. s[i] \in DOMAIN h.keys /\ s[i] \in Nat /\ h.keys[s[i]] = k
    BY <1>0, <2>3, <2>4
  <2> QED
    BY <2>1, <2>7, <2>8, FetchGrows DEF Fetches
<1> QED
  BY <1>1, <1>2
-----------------------------------------------------------------------------
(* Counts *)

\* What a record has counted, none if there is none.
Counted(counts, id) == IF id \in DOMAIN counts THEN counts[id] ELSE 0

\* Total, of any paths that have been followed.
Of(s, id) == {a \in DOMAIN s : a[2] = id}
TotalIn(s, id) == SumFunction([a \in Of(s, id) |-> s[a]])

\* Where a record is on a stack, above the n-th entry.
Above(s, n, id) == {i \in DOMAIN s : i > n /\ s[i].record = id}

\* Counts are numbers, of finitely many paths.
Tallies(r) ==
  /\ IsFiniteSet(DOMAIN r.seen) /\ \A a \in DOMAIN r.seen : r.seen[a] \in Nat
  /\ \A id \in DOMAIN r.count : r.count[id] \in Nat

\* Every record has counted its total but for what is on a stack.
Balanced(r) ==
  /\ Tallies(r)
  /\ \A id \in Nat : Counted(r.count, id) + Open(r.stack, id) = TotalIn(r.seen, id)

\* It has counted the samples it was the top of, and one more at most.
SampleBalanced(r) ==
  /\ Tallies(r)
  /\ \A id \in DOMAIN r.count : r.count[id] \in {TotalIn(r.seen, id), TotalIn(r.seen, id) + 1} \ {0}

\* What has been counted, by samples or by calls.
CountsIn(samples, r) == IF samples THEN SampleBalanced(r) ELSE Balanced(r)

\* What a hook, and a sample, keeps of r while it changes it to w.
Develops(r, w) == Grows(r.hash, w.hash) /\ (Balanced(r) => Balanced(w))
SampleDevelops(r, w) == Grows(r.hash, w.hash) /\ (SampleBalanced(r) => SampleBalanced(w))

\* Following a path to a record adds to that record's total only.
LEMMA TotalNoted ==
  ASSUME NEW s, IsFiniteSet(DOMAIN s), \A a \in DOMAIN s : s[a] \in Nat,
         NEW path, NEW id, NEW n \in Nat
  PROVE  /\ IsFiniteSet(DOMAIN Noted(s, path, id, n))
         /\ \A a \in DOMAIN Noted(s, path, id, n) : Noted(s, path, id, n)[a] \in Nat
         /\ \A j : /\ TotalIn(s, j) \in Int
                   /\ TotalIn(Noted(s, path, id, n), j) = TotalIn(s, j) + IF j = id THEN n ELSE 0
<1> DEFINE x == <<path, id>>
           w == Noted(s, path, id, n)
           was == IF x \in DOMAIN s THEN s[x] ELSE 0
<1>1. x[2] = id /\ was \in Nat
  OBVIOUS
<1>2. w = [a \in DOMAIN s \cup {x} |-> IF a = x THEN was + n ELSE s[a]]
  BY DEF Noted
<1> HIDE DEF x, w
<1>3. DOMAIN w = DOMAIN s \cup {x} /\ w[x] = was + n /\ \A a \in DOMAIN s \ {x} : w[a] = s[a]
  BY <1>2
<1>4. IsFiniteSet(DOMAIN w)
  BY <1>3, FS_AddElement
<1> HIDE DEF was
<1>5. \A a \in DOMAIN w : w[a] \in Nat
  BY <1>1, <1>3
<1>6. ASSUME NEW j
      PROVE  TotalIn(s, j) \in Int /\ TotalIn(w, j) = TotalIn(s, j) + IF j = id THEN n ELSE 0
  <2> DEFINE S == Of(s, j)
             T == Of(w, j)
             f == [a \in S |-> s[a]]
             h == [a \in T |-> w[a]]
  <2>1. IsFiniteSet(S) /\ IsFiniteSet(T)
    BY <1>4, FS_Subset DEF Of
  <2>2. f \in [S -> Int] /\ h \in [T -> Int]
    BY <1>5 DEF Of
  <2>3. TotalIn(s, j) = SumFunction(f) /\ TotalIn(w, j) = SumFunction(h)
    BY DEF TotalIn
  <2>4. SumFunction(f) \in Int
    <3> HIDE DEF S, f
    <3> QED
      BY <2>1, <2>2, SumType
  <2>5. CASE j # id
    <3>1. S = T
      BY <1>1, <1>3, <2>5 DEF Of
    <3>2. \A a \in S : w[a] = s[a]
      BY <1>1, <1>3, <2>5 DEF Of
    <3>3. f = h
      <4> HIDE DEF S, T
      <4> QED
        BY <3>1, <3>2
    <3> HIDE DEF f, h
    <3> QED
      BY <2>3, <2>4, <2>5, <3>3
  <2>6. CASE j = id
    <3>1. T = S \cup {x}
      BY <1>1, <1>3, <2>6 DEF Of
    <3>2. CASE x \in DOMAIN s
      <4>1. x \in S /\ S = T
        BY <1>1, <2>6, <3>1, <3>2 DEF Of
      <4>2. f[x] = was /\ h[x] = was + n /\ \A y \in S : y # x => h[y] = f[y]
        BY <1>3, <3>2, <4>1 DEF was, Of
      <4>3. SumFunction(h) + f[x] = SumFunction(f) + h[x]
        <5>1. f \in [S -> Int] /\ h \in [S -> Int]
          BY <2>2, <4>1
        <5> HIDE DEF S, T, f, h
        <5> QED
          BY <2>1, <4>1, <4>2, <5>1, SumChanges
      <4>4. SumFunction(h) \in Int
        <5> HIDE DEF T, h
        <5> QED
          BY <2>1, <2>2, SumType
      <4> HIDE DEF S, T, f, h
      <4> QED
        BY <1>1, <2>3, <2>4, <2>6, <4>2, <4>3, <4>4
    <3>3. CASE x \notin DOMAIN s
      <4>1. x \in T /\ S = T \ {x}
        BY <3>1, <3>3 DEF Of
      <4>2. h[x] = n /\ \A y \in S : f[y] = h[y]
        BY <1>3, <3>3, <4>1 DEF was, Of
      <4>3. SumFunction(h) = h[x] + SumFunction(f)
        <5> HIDE DEF S, T, f, h
        <5> QED
          BY <2>1, <2>2, <4>1, <4>2, SumWithout
      <4> HIDE DEF S, T, f, h
      <4> QED
        BY <2>3, <2>4, <2>6, <4>2, <4>3
    <3> QED
      BY <3>2, <3>3
  <2> QED
    BY <2>3, <2>4, <2>5, <2>6
<1> QED
  BY <1>4, <1>5, <1>6 DEF w

\* What records are on a stack: of an empty one, of one more entry, of the
\* entries up to the n-th, and of other entries for the same records.
LEMMA OnStackIs ==
  ASSUME NEW s \in Seq(Entry), NEW id
  PROVE  /\ Len(s) = 0 => OnStack(s, 0, id) = 0
         /\ \A n \in 0 .. Len(s) : OnStack(s, n, id) \in Nat
         /\ (\A i \in 1 .. Len(s) : s[i].record # id) => \A n \in 0 .. Len(s) : OnStack(s, n, id) = 0
         /\ \A e \in Entry : OnStack(Append(s, e), 0, id) =
                               OnStack(s, 0, id) + IF e.record = id THEN 1 ELSE 0
         /\ \A n \in 0 .. Len(s) :
              OnStack(s, 0, id) = OnStack(SubSeq(s, 1, n), 0, id) + OnStack(s, n, id)
         /\ \A q \in Seq(Entry) : /\ Len(q) = Len(s)
                                  /\ \A i \in 1 .. Len(s) : q[i].record = s[i].record
                                  => OnStack(q, 0, id) = OnStack(s, 0, id)
<1>1. Len(s) \in Nat /\ DOMAIN s = 1 .. Len(s) /\ IsFiniteSet(1 .. Len(s))
  BY LenProperties, FS_Interval
<1>2. \A n : IsFiniteSet(Above(s, n, id))
  <2> TAKE n
  <2>1. Above(s, n, id) \in SUBSET (1 .. Len(s))
    BY <1>1 DEF Above
  <2> QED
    BY <1>1, <2>1, FS_Subset
<1>3. \A n \in 0 .. Len(s) : OnStack(s, n, id) \in Nat
  BY <1>2, FS_CardinalityType DEF OnStack, Above
<1>4. ASSUME \A i \in 1 .. Len(s) : s[i].record # id, NEW n \in 0 .. Len(s)
      PROVE  OnStack(s, n, id) = 0
  <2>1. Above(s, n, id) = {}
    BY <1>1, <1>4 DEF Above
  <2> QED
    BY <2>1, FS_EmptySet DEF OnStack, Above
<1>5. Len(s) = 0 => OnStack(s, 0, id) = 0
  BY <1>1, <1>4
<1>6. ASSUME NEW e \in Entry
      PROVE  OnStack(Append(s, e), 0, id) = OnStack(s, 0, id) + IF e.record = id THEN 1 ELSE 0
  <2> DEFINE q == Append(s, e)
             x == Len(s) + 1
  <2>1. /\ q \in Seq(Entry) /\ Len(q) = x /\ q[x] = e /\ \A i \in 1 .. Len(s) : q[i] = s[i]
        /\ DOMAIN q = 1 .. x
    BY AppendProperties, LenProperties
  <2> HIDE DEF q
  <2>2. Above(q, 0, id) = IF e.record = id THEN Above(s, 0, id) \cup {x} ELSE Above(s, 0, id)
    <3>1. \A i : i \in 1 .. x <=> i \in 1 .. Len(s) \/ i = x
      BY <1>1
    <3>2. x > 0
      BY <1>1
    <3>3. \A i : i \in Above(q, 0, id) <=> i \in Above(s, 0, id) \/ (i = x /\ e.record = id)
      BY <1>1, <2>1, <3>1, <3>2 DEF Above
    <3> QED
      BY <3>3
  <2>3. x \notin Above(s, 0, id)
    BY <1>1 DEF Above
  <2>4. Cardinality(Above(s, 0, id)) \in Nat
        /\ Cardinality(Above(s, 0, id) \cup {x}) = Cardinality(Above(s, 0, id)) + 1
    BY <1>2, <2>3, FS_AddElement, FS_CardinalityType
  <2>5. OnStack(q, 0, id) = Cardinality(Above(q, 0, id)) /\ OnStack(s, 0, id) = Cardinality(Above(s, 0, id))
    BY DEF OnStack, Above
  <2>6. OnStack(q, 0, id) = OnStack(s, 0, id) + IF e.record = id THEN 1 ELSE 0
    <3>1. CASE e.record = id
      <4>1. OnStack(q, 0, id) = Cardinality(Above(s, 0, id)) + 1
        BY <2>2, <2>4, <2>5, <3>1
      <4> QED
        BY <2>5, <3>1, <4>1
    <3>2. CASE e.record # id
      <4>1. OnStack(q, 0, id) = OnStack(s, 0, id)
        BY <2>2, <2>5, <3>2
      <4>2. OnStack(s, 0, id) \in Nat
        BY <2>4, <2>5
      <4> QED
        BY <3>2, <4>1, <4>2
    <3> QED
      BY <3>1, <3>2
  <2> QED
    BY <2>6 DEF q
<1>7. ASSUME NEW n \in 0 .. Len(s)
      PROVE  OnStack(s, 0, id) = OnStack(SubSeq(s, 1, n), 0, id) + OnStack(s, n, id)
  <2> DEFINE q == SubSeq(s, 1, n)
             A == Above(q, 0, id)
             B == Above(s, n, id)
  <2>1. q \in Seq(Entry) /\ Len(q) = n /\ \A i \in 1 .. n : q[i] = s[i]
    BY PrefixType
  <2>2. n \in Nat /\ DOMAIN q = 1 .. n
    BY <1>1, <2>1, LenProperties
  <2> HIDE DEF q
  <2>3. Above(s, 0, id) = A \cup B /\ A \cap B = {}
    <3>1. \A i : i \in A <=> i \in 1 .. n /\ s[i].record = id
      BY <2>1, <2>2 DEF Above
    <3>2. \A i : i \in B <=> i \in n + 1 .. Len(s) /\ s[i].record = id
      BY <1>1, <2>2 DEF Above
    <3>3. \A i : i \in Above(s, 0, id) <=> i \in 1 .. Len(s) /\ s[i].record = id
      BY <1>1 DEF Above
    <3>4. \A i : i \in 1 .. Len(s) <=> i \in 1 .. n \/ i \in n + 1 .. Len(s)
      BY <1>1, <2>2
    <3>5. \A i : ~(i \in 1 .. n /\ i \in n + 1 .. Len(s))
      BY <1>1, <2>2
    <3> HIDE DEF A, B
    <3> QED
      BY <3>1, <3>2, <3>3, <3>4, <3>5
  <2>4. IsFiniteSet(A) /\ IsFiniteSet(B)
    <3>1. A \subseteq Above(s, 0, id)
      BY <2>3
    <3>2. A \in SUBSET Above(s, 0, id)
      BY <3>1
    <3> HIDE DEF A
    <3> QED
      BY <1>2, <3>2, FS_Subset
  <2> HIDE DEF A, B
  <2>5. Cardinality(A \cup B) = Cardinality(A) + Cardinality(B) - Cardinality(A \cap B)
        /\ Cardinality(A) \in Nat /\ Cardinality(B) \in Nat
    BY <2>4, FS_Union, FS_CardinalityType
  <2>6. Cardinality(A \cap B) = 0
    BY <2>3, FS_EmptySet
  <2>7. OnStack(s, 0, id) = Cardinality(Above(s, 0, id)) /\ OnStack(q, 0, id) = Cardinality(A)
        /\ OnStack(s, n, id) = Cardinality(B)
    BY DEF OnStack, Above, A, B
  <2>8. OnStack(s, 0, id) = OnStack(q, 0, id) + OnStack(s, n, id)
    <3>1. Cardinality(Above(s, 0, id)) = Cardinality(A \cup B)
      BY <2>3
    <3>2. Cardinality(A \cup B) = Cardinality(A) + Cardinality(B)
      BY <2>5, <2>6
    <3> QED
      BY <2>7, <3>1, <3>2
  <2> QED
    BY <2>8 DEF q
<1>8. ASSUME NEW q \in Seq(Entry), Len(q) = Len(s), \A i \in 1 .. Len(s) : q[i].record = s[i].record
      PROVE  OnStack(q, 0, id) = OnStack(s, 0, id)
  <2>1. DOMAIN q = 1 .. Len(s)
    BY <1>8, LenProperties
  <2>2. Above(q, 0, id) = Above(s, 0, id)
    BY <1>1, <1>8, <2>1 DEF Above
  <2> QED
    BY <2>2 DEF OnStack, Above
<1> QED
  BY <1>3, <1>4, <1>5, <1>6, <1>7, <1>8

\* What goes from one number to another leaves their sum.
LEMMA Regrouped == \A a, d, f, x, y \in Int : y + (f + d) = x + f => (a + d) + y = a + x
OBVIOUS

\* What changes on one stack changes what is open.
LEMMA OpenChanges ==
  ASSUME NEW t \in Threads, NEW q \in Seq(Entry), NEW id
  PROVE  \A stacks \in EntryStacks :
           /\ Open(stacks, id) \in Int
           /\ [stacks EXCEPT ![t] = q] \in EntryStacks
           /\ Open([stacks EXCEPT ![t] = q], id) + OnStack(stacks[t], 0, id) =
                Open(stacks, id) + OnStack(q, 0, id)
<1>1. IsFiniteSet(Threads)
  BY RecordsAssumption
<1>2. SUFFICES ASSUME NEW stacks, stacks \in EntryStacks
      PROVE  /\ Open(stacks, id) \in Int
             /\ [stacks EXCEPT ![t] = q] \in EntryStacks
             /\ Open([stacks EXCEPT ![t] = q], id) + OnStack(stacks[t], 0, id) =
                  Open(stacks, id) + OnStack(q, 0, id)
  OBVIOUS
<1> DEFINE w == [stacks EXCEPT ![t] = q]
           f == [u \in Threads |-> OnStack(stacks[u], 0, id)]
           h == [u \in Threads |-> OnStack(w[u], 0, id)]
<1>3. w \in EntryStacks /\ w[t] = q /\ \A u \in Threads \ {t} : w[u] = stacks[u]
  BY <1>2 DEF EntryStacks
<1>4. \A u \in Threads : stacks[u] \in Seq(Entry) /\ w[u] \in Seq(Entry)
  BY <1>2, <1>3 DEF EntryStacks
<1> HIDE DEF w
<1>5. \A u \in Threads : OnStack(stacks[u], 0, id) \in Nat /\ OnStack(w[u], 0, id) \in Nat
  <2> TAKE u \in Threads
  <2>1. 0 \in 0 .. Len(stacks[u]) /\ 0 \in 0 .. Len(w[u])
    BY <1>4, LenProperties
  <2> QED
    BY <1>4, <2>1, OnStackIs
<1>6. f \in [Threads -> Int] /\ h \in [Threads -> Int]
  BY <1>5
<1>7. f[t] = OnStack(stacks[t], 0, id) /\ h[t] = OnStack(q, 0, id)
      /\ \A u \in Threads : u # t => h[u] = f[u]
  BY <1>3
<1>8. Open(stacks, id) = SumFunction(f) /\ Open(w, id) = SumFunction(h)
  BY DEF Open
<1> HIDE DEF f, h
<1>9. SumFunction(f) \in Int /\ SumFunction(h) + f[t] = SumFunction(f) + h[t]
  <2>1. SumFunction(f) \in Int
    BY <1>1, <1>6, SumType
  <2>2. \A x \in Threads : (\A y \in Threads : y # x => h[y] = f[y])
                          => SumFunction(h) + f[x] = SumFunction(f) + h[x]
    BY <1>1, <1>6, SumChanges
  <2> QED
    BY <1>7, <2>1, <2>2
<1> QED
  BY <1>3, <1>7, <1>8, <1>9 DEF w

\* Nothing is open if there are no stacks.
LEMMA OpenNone ==
  ASSUME NEW stacks, stacks = [t \in Threads |-> <<>>], NEW id
  PROVE  Open(stacks, id) = 0
<1> DEFINE open == [t \in Threads |-> OnStack(stacks[t], 0, id)]
<1>1. \A t \in Threads : OnStack(stacks[t], 0, id) = 0
  <2> TAKE t \in Threads
  <2>1. stacks[t] \in Seq(Entry) /\ Len(stacks[t]) = 0
    BY EmptySeq
  <2> QED
    BY <2>1, OnStackIs
<1>2. open \in [Threads -> Int] /\ \A t \in Threads : open[t] = 0
  BY <1>1
<1>3. Open(stacks, id) = SumFunction(open)
  BY DEF Open
<1> HIDE DEF open
<1> QED
  BY <1>2, <1>3, RecordsAssumption, SumZeros
-----------------------------------------------------------------------------
(* Records *)

\* The key of a path is one.
LEMMA KeyForType ==
  ASSUME KeysSuffice, NEW c \in BOOLEAN, NEW h, Good(h), NEW s, NEW p, NEW k,
         KeyFor(c, h, s, p, k)
  PROVE  k \in Key /\ p \in Paths
<1>1. CASE p = <<>> /\ k = RootKey
  BY <1>1, EmptySeq DEF KeysSuffice, RootKey, KeyOf, Root, Paths
<1>2. CASE \E q \in Paths, fn \in Nat \ {Root}, line \in Nat, up \in Nat :
             /\ p = Append(q, <<fn, line>>) /\ <<q, up>> \in DOMAIN s /\ up \in DOMAIN h.keys
             /\ k = KeyOf(fn, UpId(c, h, up), line)
  <2>1. PICK q \in Paths, fn \in Nat \ {Root}, line \in Nat, up \in Nat :
             /\ p = Append(q, <<fn, line>>) /\ up \in DOMAIN h.keys
             /\ k = KeyOf(fn, UpId(c, h, up), line)
    BY <1>2
  <2>2. h.keys[up] \in Key
    BY <2>1 DEF Good, Typed
  <2>3. h.keys[up].fn \in Nat
    BY <2>2 DEF KeysSuffice
  <2>4. UpId(c, h, up) \in Nat
    BY <2>3 DEF UpId
  <2>5. k \in Key
    BY <2>1, <2>4 DEF KeysSuffice, KeyOf
  <2>6. <<fn, line>> \in Nat \X Nat
    OBVIOUS
  <2>7. p \in Paths
    BY <2>1, <2>6, AppendProperties DEF Paths
  <2> QED
    BY <2>5, <2>7
<1> QED
  BY <1>1, <1>2 DEF KeyFor

\* What the key of a path was, it stays.
LEMMA KeyForKept ==
  ASSUME NEW c \in BOOLEAN, NEW h, NEW g, NEW s, NEW u,
         \A i \in DOMAIN h.keys : i \in DOMAIN g.keys /\ g.keys[i] = h.keys[i],
         \A a \in DOMAIN s : a \in DOMAIN u
  PROVE  \A p, k : KeyFor(c, h, s, p, k) => KeyFor(c, g, u, p, k)
<1> SUFFICES ASSUME NEW p, NEW k, KeyFor(c, h, s, p, k)
             PROVE  KeyFor(c, g, u, p, k)
  OBVIOUS
<1>0. CASE p = <<>> /\ k = RootKey
  BY <1>0 DEF KeyFor
<1> SUFFICES ASSUME ~(p = <<>> /\ k = RootKey)
             PROVE  KeyFor(c, g, u, p, k)
  BY <1>0
<1>1. PICK q \in Paths, fn \in Nat \ {Root}, line \in Nat, up \in Nat :
        /\ p = Append(q, <<fn, line>>) /\ <<q, up>> \in DOMAIN s /\ up \in DOMAIN h.keys
        /\ k = KeyOf(fn, UpId(c, h, up), line)
  BY DEF KeyFor
<1>2. <<q, up>> \in DOMAIN u /\ up \in DOMAIN g.keys /\ UpId(c, g, up) = UpId(c, h, up)
  BY <1>1 DEF UpId
<1> QED
  BY <1>1, <1>2 DEF KeyFor

\* w is r after path has been followed to the record id, n times.
Uses(r, k, path, n, w, id) ==
  /\ w = [hash |-> w.hash, stack |-> w.stack, count |-> w.count, seen |-> w.seen]
  /\ w.hash = Fetch(r.hash, k) /\ w.stack = r.stack
  /\ w.count = [i \in DOMAIN r.count \cup {id} |-> IF i \in DOMAIN r.count THEN r.count[i] ELSE 0]
  /\ w.seen = Noted(r.seen, path, id, n)

\* What following a path to a record changes.
LEMMA UsedIs ==
  ASSUME NEW r, r = [hash |-> r.hash, stack |-> r.stack, count |-> r.count, seen |-> r.seen],
         NEW path, NEW k, NEW n
  PROVE  Uses(r, k, path, n, Used(r, k, path, n), Fetched(r.hash, k))
<1> DEFINE g == Fetch(r.hash, k)
           id == Fetched(r.hash, k)
           w == Used(r, k, path, n)
<1> HIDE DEF g, id
<1>1. w = [r EXCEPT !.hash = g,
              !.count = [i \in DOMAIN @ \cup {id} |-> IF i \in DOMAIN @ THEN @[i] ELSE 0],
              !.seen = Noted(@, path, id, n)]
  BY DEF Used, g, id
<1> HIDE DEF w
<1>2. /\ w = [hash |-> w.hash, stack |-> w.stack, count |-> w.count, seen |-> w.seen]
      /\ w.hash = g /\ w.stack = r.stack
      /\ w.count = [i \in DOMAIN r.count \cup {id} |-> IF i \in DOMAIN r.count THEN r.count[i] ELSE 0]
      /\ w.seen = Noted(r.seen, path, id, n)
  BY <1>1
<1> QED
  BY <1>2 DEF g, id, w, Uses

\* Following a path to a record keeps all that is said of what is collected.
LEMMA UsedSound ==
  ASSUME KeysSuffice, NEW c \in BOOLEAN, NEW r, Sound(c, r), NEW path, NEW k, NEW n,
         KeyFor(c, r.hash, r.seen, path, k)
  PROVE  /\ Finds(c, r, path, Used(r, k, path, n), Fetched(r.hash, k))
         /\ Used(r, k, path, n).hash.keys[Fetched(r.hash, k)] = k
         /\ DOMAIN r.hash.keys = {} => Fetched(r.hash, k) = r.hash.next
<1> DEFINE g == Fetch(r.hash, k)
           id == Fetched(r.hash, k)
           w == Used(r, k, path, n)
<1>1. k \in Key /\ path \in Paths
  BY KeyForType DEF Sound
<1>2. Fetches(r.hash, k, g, id)
  BY <1>1, FetchIs DEF Sound
<1>3. /\ w = [hash |-> w.hash, stack |-> w.stack, count |-> w.count, seen |-> w.seen]
      /\ w.hash = g /\ w.stack = r.stack
      /\ w.count = [i \in DOMAIN r.count \cup {id} |-> IF i \in DOMAIN r.count THEN r.count[i] ELSE 0]
      /\ w.seen = Noted(r.seen, path, id, n)
  <2>1. r = [hash |-> r.hash, stack |-> r.stack, count |-> r.count, seen |-> r.seen]
    BY DEF Sound
  <2>2. Uses(r, k, path, n, Used(r, k, path, n), Fetched(r.hash, k))
    BY <2>1, UsedIs
  <2> HIDE DEF w, id
  <2> QED
    BY <2>2 DEF Uses, w, id
<1>4. DOMAIN w.seen = DOMAIN r.seen \cup {<<path, id>>}
  BY <1>3 DEF Noted
<1> HIDE DEF g, id, w
<1>5. DOMAIN w.count = DOMAIN w.hash.keys
  BY <1>2, <1>3 DEF Fetches, Sound
<1>6. Explained(c, w.hash, w.seen)
  <2>1. DOMAIN w.seen \subseteq Paths \X Nat
    <3>1. <<path, id>> \in Paths \X Nat
      BY <1>1, <1>2 DEF Fetches
    <3> QED
      BY <1>4, <3>1 DEF Sound, Explained
  <2>2. /\ \A i \in DOMAIN r.hash.keys : i \in DOMAIN w.hash.keys /\ w.hash.keys[i] = r.hash.keys[i]
        /\ \A a \in DOMAIN r.seen : a \in DOMAIN w.seen
    BY <1>2, <1>3, <1>4 DEF Fetches
  <2>3. \A p, l : KeyFor(c, r.hash, r.seen, p, l) => KeyFor(c, w.hash, w.seen, p, l)
    BY <2>2, KeyForKept
  <2>4. ASSUME NEW p \in Paths, NEW i \in Nat, <<p, i>> \in DOMAIN w.seen
        PROVE  i \in DOMAIN w.hash.keys /\ KeyFor(c, w.hash, w.seen, p, w.hash.keys[i])
    <3>1. CASE <<p, i>> \in DOMAIN r.seen
      <4>1. i \in DOMAIN r.hash.keys /\ KeyFor(c, r.hash, r.seen, p, r.hash.keys[i])
        BY <3>1 DEF Sound, Explained
      <4> QED
        BY <2>2, <2>3, <4>1
    <3>2. CASE p = path /\ i = id
      <4>1. i \in DOMAIN w.hash.keys /\ w.hash.keys[i] = k
        BY <1>2, <1>3, <3>2 DEF Fetches
      <4> QED
        BY <2>3, <3>2, <4>1
    <3> QED
      BY <1>4, <2>4, <3>1, <3>2
  <2> QED
    BY <2>1, <2>4 DEF Explained
<1>7. Entries(w.stack, w.seen)
  BY <1>3, <1>4 DEF Sound, Entries
<1>8. Followed(w.hash, w.seen)
  BY <1>1, <1>2, <1>3, <1>4 DEF Sound, Followed, Fetches
<1>9. Sound(c, w)
  BY <1>2, <1>3, <1>5, <1>6, <1>7, <1>8 DEF Sound, Fetches
<1>10. Finds(c, r, path, w, id)
  BY <1>2, <1>3, <1>4, <1>9 DEF Finds, Fetches
<1>11. w.hash.keys[id] = k /\ (DOMAIN r.hash.keys = {} => id = r.hash.next)
  BY <1>2, <1>3 DEF Fetches
<1> QED
  BY <1>10, <1>11 DEF w, id

\* It changes no count, and the total of that record only.
LEMMA UsedTallies ==
  ASSUME KeysSuffice, NEW c \in BOOLEAN, NEW r, Sound(c, r), NEW path, NEW k, NEW n \in Nat,
         KeyFor(c, r.hash, r.seen, path, k), Tallies(r),
         NEW w, w = Used(r, k, path, n), NEW id, id = Fetched(r.hash, k)
  PROVE  /\ Tallies(w)
         /\ \A j : /\ Counted(w.count, j) = Counted(r.count, j)
                   /\ Counted(r.count, j) \in Nat /\ TotalIn(r.seen, j) \in Int
                   /\ TotalIn(w.seen, j) = TotalIn(r.seen, j) + IF j = id THEN n ELSE 0
<1>1. /\ w.count = [i \in DOMAIN r.count \cup {id} |-> IF i \in DOMAIN r.count THEN r.count[i] ELSE 0]
      /\ w.seen = Noted(r.seen, path, id, n)
  <2>1. r = [hash |-> r.hash, stack |-> r.stack, count |-> r.count, seen |-> r.seen]
    BY DEF Sound
  <2>2. Uses(r, k, path, n, Used(r, k, path, n), Fetched(r.hash, k))
    BY <2>1, UsedIs
  <2> QED
    BY <2>2 DEF Uses
<1>2. IsFiniteSet(DOMAIN r.seen) /\ (\A a \in DOMAIN r.seen : r.seen[a] \in Nat)
      /\ \A i \in DOMAIN r.count : r.count[i] \in Nat
  BY DEF Tallies
<1>3. \A i \in DOMAIN w.count : w.count[i] \in Nat
  BY <1>1, <1>2
<1>4. /\ IsFiniteSet(DOMAIN w.seen) /\ \A a \in DOMAIN w.seen : w.seen[a] \in Nat
      /\ \A j : /\ TotalIn(r.seen, j) \in Int
                /\ TotalIn(w.seen, j) = TotalIn(r.seen, j) + IF j = id THEN n ELSE 0
  BY <1>1, <1>2, TotalNoted
<1>5. \A j : Counted(w.count, j) = Counted(r.count, j) /\ Counted(r.count, j) \in Nat
  BY <1>1, <1>2 DEF Counted
<1>6. Tallies(w)
  BY <1>3, <1>4 DEF Tallies
<1> QED
  BY <1>4, <1>5, <1>6

\* Another stack of a thread, of entries that have been followed to, and other
\* counts keep it too.
LEMMA StackSound ==
  ASSUME NEW c \in BOOLEAN, NEW r, Sound(c, r), NEW t \in Threads, NEW s \in Seq(Entry),
         \A i \in 1 .. Len(s) : /\ <<s[i].path, s[i].record>> \in DOMAIN r.seen
                                /\ s[i].path = <<>> <=> i = 1,
         NEW counts, DOMAIN counts = DOMAIN r.count,
         NEW w, w = [hash |-> r.hash, stack |-> [r.stack EXCEPT ![t] = s], count |-> counts,
                     seen |-> r.seen]
  PROVE  Sound(c, w)
<1>1. w.stack \in EntryStacks /\ w.stack[t] = s /\ \A u \in Threads \ {t} : w.stack[u] = r.stack[u]
  <2>1. \A st \in EntryStacks : LET e == [st EXCEPT ![t] = s] IN
          e \in EntryStacks /\ e[t] = s /\ \A u \in Threads \ {t} : e[u] = st[u]
    BY DEF EntryStacks
  <2>2. r.stack \in EntryStacks
    BY DEF Sound, Entries
  <2>3. w.stack = [r.stack EXCEPT ![t] = s]
    OBVIOUS
  <2> HIDE DEF EntryStacks
  <2> QED
    BY <2>1, <2>2, <2>3
<1>2. w.hash = r.hash /\ w.count = counts /\ w.seen = r.seen
      /\ w = [hash |-> w.hash, stack |-> w.stack, count |-> w.count, seen |-> w.seen]
  OBVIOUS
<1>3. Entries(w.stack, w.seen)
  <2>1. ASSUME NEW u \in Threads, NEW i \in 1 .. Len(w.stack[u])
        PROVE  /\ <<w.stack[u][i].path, w.stack[u][i].record>> \in DOMAIN w.seen
               /\ w.stack[u][i].path = <<>> <=> i = 1
    <3>1. CASE u = t
      BY <1>1, <1>2, <3>1
    <3>2. CASE u # t
      <4>1. w.stack[u] = r.stack[u]
        BY <1>1, <3>2
      <4> QED
        BY <1>2, <4>1 DEF Sound, Entries
    <3> QED
      BY <3>1, <3>2
  <2> QED
    BY <1>1, <2>1 DEF Entries
<1> QED
  BY <1>2, <1>3 DEF Sound

\* w is r after a record of k has been pushed on t's stack.
Pushes(compress, r, t, k, w) ==
  /\ Sound(compress, w) /\ Develops(r, w)
  /\ \A u \in Threads : (r.stack[u] # <<>> \/ u = t) <=> w.stack[u] # <<>>
  /\ w.hash.keys[Last(w.stack[t]).record] = k
  /\ r.stack[t] = <<>> /\ DOMAIN r.hash.keys = {} => Last(w.stack[t]).record = r.hash.next

\* lmprof_stack_measured_push
LEMMA PushedSound ==
  ASSUME KeysSuffice, NEW c \in BOOLEAN, NEW r, Sound(c, r), NEW t \in Threads, NEW path, NEW k,
         KeyFor(c, r.hash, r.seen, path, k), path = <<>> <=> r.stack[t] = <<>>
  PROVE  Pushes(c, r, t, k, Pushed(r, t, k, path))
<1> DEFINE id == Fetched(r.hash, k)
           v == Used(r, k, path, 1)
           e == [record |-> id, line |-> 0, path |-> path]
           s == Append(r.stack[t], e)
           w == Pushed(r, t, k, path)
<1>1. /\ Finds(c, r, path, v, id) /\ v.hash.keys[id] = k
      /\ DOMAIN r.hash.keys = {} => id = r.hash.next
  BY UsedSound
<1>2. Sound(c, v) /\ v.stack = r.stack /\ id \in Nat /\ <<path, id>> \in DOMAIN v.seen
  BY <1>1 DEF Finds
<1>3. path \in Paths
  BY <1>2 DEF Sound, Explained
<1>4. r.stack[t] \in Seq(Entry)
  BY DEF Sound, Entries, EntryStacks
<1>5. e \in Entry /\ e.record = id /\ e.path = path
  BY <1>2, <1>3 DEF Entry
<1>6. v = [hash |-> v.hash, stack |-> v.stack, count |-> v.count, seen |-> v.seen]
  BY <1>2 DEF Sound
<1> HIDE DEF e
<1>7. w = [v EXCEPT !.stack[t] = s]
  <2> HIDE DEF v
  <2> QED
    BY <1>2 DEF Pushed, v, e
<1> HIDE DEF v, id, w
<1>8. w = [hash |-> v.hash, stack |-> [v.stack EXCEPT ![t] = s], count |-> v.count, seen |-> v.seen]
  <2> HIDE DEF s
  <2> QED
    BY <1>6, <1>7
<1>9. /\ s \in Seq(Entry) /\ Len(s) = Len(r.stack[t]) + 1 /\ s[Len(s)] = e
      /\ \A i \in 1 .. Len(r.stack[t]) : s[i] = r.stack[t][i]
  BY <1>4, <1>5, AppendProperties
<1>10. \A i \in 1 .. Len(s) : <<s[i].path, s[i].record>> \in DOMAIN v.seen /\ (s[i].path = <<>> <=> i = 1)
  <2> SUFFICES ASSUME NEW i \in 1 .. Len(s)
               PROVE  <<s[i].path, s[i].record>> \in DOMAIN v.seen /\ (s[i].path = <<>> <=> i = 1)
    OBVIOUS
  <2>1. Len(r.stack[t]) \in Nat /\ (r.stack[t] = <<>> <=> Len(r.stack[t]) = 0)
    BY <1>4, EmptySeq
  <2>2. CASE i \in 1 .. Len(r.stack[t])
    BY <1>2, <1>9, <2>2 DEF Sound, Entries
  <2>3. CASE i = Len(s)
    <3>1. s[i] = e
      BY <1>9, <2>3
    <3>2. i = Len(r.stack[t]) + 1
      BY <1>9, <2>3
    <3>3. path = <<>> <=> i = 1
      BY <2>1, <3>2
    <3> QED
      BY <1>2, <1>5, <3>1, <3>3
  <2> QED
    BY <1>9, <2>1, <2>2, <2>3
<1> HIDE DEF s
<1>11. Sound(c, w)
  BY <1>2, <1>8, <1>9, <1>10, StackSound
<1>12. w.hash = v.hash /\ w.stack = [r.stack EXCEPT ![t] = s]
  BY <1>2, <1>8
<1>13. w.stack[t] = s /\ s # <<>> /\ \A u \in Threads \ {t} : w.stack[u] = r.stack[u]
  <2>1. \A st \in EntryStacks : LET x == [st EXCEPT ![t] = s] IN
          x[t] = s /\ \A u \in Threads \ {t} : x[u] = st[u]
    BY DEF EntryStacks
  <2>2. r.stack \in EntryStacks
    BY DEF Sound, Entries
  <2>3. s # <<>>
    BY <1>4, <1>9, EmptySeq
  <2> HIDE DEF EntryStacks
  <2> QED
    BY <1>12, <2>1, <2>2, <2>3
<1>14. Last(w.stack[t]).record = id
  BY <1>5, <1>9, <1>13 DEF Last
<1>15. \A u \in Threads : (r.stack[u] # <<>> \/ u = t) <=> w.stack[u] # <<>>
  BY <1>13
<1>16. Balanced(r) => Balanced(w)
  <2> SUFFICES ASSUME Balanced(r) PROVE Balanced(w)
    OBVIOUS
  <2>1. w.count = v.count /\ w.seen = v.seen
    BY <1>8
  <2>2. /\ Tallies(v)
        /\ \A j : /\ Counted(v.count, j) = Counted(r.count, j)
                  /\ Counted(r.count, j) \in Nat /\ TotalIn(r.seen, j) \in Int
                  /\ TotalIn(v.seen, j) = TotalIn(r.seen, j) + IF j = id THEN 1 ELSE 0
    <3>1. Tallies(r) /\ 1 \in Nat
      BY DEF Balanced
    <3>2. v = Used(r, k, path, 1) /\ id = Fetched(r.hash, k)
      BY DEF v, id
    <3> QED
      BY <3>1, <3>2, UsedTallies
  <2>3. ASSUME NEW j \in Nat
        PROVE  Counted(w.count, j) + Open(w.stack, j) = TotalIn(w.seen, j)
    <3>1. OnStack(s, 0, j) = OnStack(r.stack[t], 0, j) + IF id = j THEN 1 ELSE 0
      BY <1>4, <1>5, OnStackIs DEF s
    <3>2. /\ Open(r.stack, j) \in Int
          /\ Open(w.stack, j) + OnStack(r.stack[t], 0, j) = Open(r.stack, j) + OnStack(s, 0, j)
          /\ Open(w.stack, j) \in Int
      <4>0. s \in Seq(Entry)
        BY <1>9
      <4>1. r.stack \in EntryStacks /\ w.stack \in EntryStacks
        BY <1>11 DEF Sound, Entries
      <4>2. \A st \in EntryStacks :
              /\ Open(st, j) \in Int
              /\ Open([st EXCEPT ![t] = s], j) + OnStack(st[t], 0, j) =
                   Open(st, j) + OnStack(s, 0, j)
        BY <4>0, OpenChanges
      <4> QED
        BY <1>12, <4>1, <4>2
    <3>3. OnStack(r.stack[t], 0, j) \in Nat
      <4>1. 0 \in 0 .. Len(r.stack[t])
        BY <1>4, LenProperties
      <4> QED
        BY <1>4, <4>1, OnStackIs
    <3>4. Counted(r.count, j) + Open(r.stack, j) = TotalIn(r.seen, j)
      BY DEF Balanced
    <3>5. Counted(w.count, j) = Counted(r.count, j) /\ Counted(r.count, j) \in Nat
          /\ TotalIn(r.seen, j) \in Int
          /\ TotalIn(w.seen, j) = TotalIn(r.seen, j) + IF id = j THEN 1 ELSE 0
      BY <2>1, <2>2
    <3> QED
      BY <3>1, <3>2, <3>3, <3>4, <3>5
  <2>4. Tallies(w)
    BY <2>1, <2>2 DEF Tallies
  <2> QED
    BY <2>3, <2>4 DEF Balanced
<1>17. Develops(r, w)
  BY <1>1, <1>12, <1>16 DEF Develops, Finds
<1> QED
  BY <1>1, <1>11, <1>12, <1>14, <1>15, <1>17 DEF Pushes, w

\* What develops twice does.
LEMMA DevelopsOn ==
  ASSUME NEW c, NEW r, Sound(c, r)
  PROVE  /\ Develops(r, r) /\ SampleDevelops(r, r)
         /\ \A v, w : Sound(c, v) /\ Sound(c, w) =>
              /\ Develops(r, v) /\ Develops(v, w) => Develops(r, w)
              /\ SampleDevelops(r, v) /\ SampleDevelops(v, w) => SampleDevelops(r, w)
<1>1. Good(r.hash)
  BY DEF Sound
<1>2. Develops(r, r) /\ SampleDevelops(r, r)
  BY <1>1, GrowsOn DEF Develops, SampleDevelops
<1>3. ASSUME NEW v, NEW w, Sound(c, v), Sound(c, w), Grows(r.hash, v.hash), Grows(v.hash, w.hash)
      PROVE  Grows(r.hash, w.hash)
  <2>1. Good(v.hash) /\ Good(w.hash)
    BY <1>3 DEF Sound
  <2> QED
    BY <1>1, <1>3, <2>1, GrowsOn
<1> QED
  BY <1>2, <1>3 DEF Develops, SampleDevelops

\* A path with one more call is not the root's, and is of one path and call.
LEMMA PathAppend ==
  /\ \A p \in Paths, e \in Nat \X Nat : /\ Append(p, e) \in Paths /\ Append(p, e) # <<>>
                                        /\ Len(Append(p, e)) = Len(p) + 1 /\ Len(p) \in Nat
                                        /\ Append(p, e)[Len(p) + 1] = e
                                        /\ \A i \in 1 .. Len(p) : Append(p, e)[i] = p[i]
  /\ \A p, q \in Paths, e, f \in Nat \X Nat : Append(p, e) = Append(q, f) => p = q /\ e = f
<1>1. ASSUME NEW p \in Paths, NEW e \in Nat \X Nat
      PROVE  /\ Append(p, e) \in Paths /\ Append(p, e) # <<>>
             /\ Len(Append(p, e)) = Len(p) + 1 /\ Len(p) \in Nat
             /\ Append(p, e)[Len(p) + 1] = e
             /\ \A i \in 1 .. Len(p) : Append(p, e)[i] = p[i]
  <2>1. p \in Seq(Nat \X Nat)
    BY DEF Paths
  <2>2. /\ Append(p, e) \in Seq(Nat \X Nat) /\ Len(Append(p, e)) = Len(p) + 1 /\ Len(p) \in Nat
        /\ Append(p, e)[Len(p) + 1] = e
        /\ \A i \in 1 .. Len(p) : Append(p, e)[i] = p[i]
    BY <2>1, AppendProperties, LenProperties
  <2>3. Append(p, e) # <<>>
    <3> DEFINE x == Append(p, e)
    <3>1. Len(x) # Len(<<>>)
      <4>1. Len(x) = Len(p) + 1 /\ Len(p) \in Nat
        BY <2>2
      <4>2. Len(<<>>) = 0
        OBVIOUS
      <4> HIDE DEF x
      <4> QED
        BY <4>1, <4>2
    <3> HIDE DEF x
    <3>2. x # <<>>
      BY <3>1
    <3> QED
      BY <3>2 DEF x
  <2> QED
    BY <2>2, <2>3 DEF Paths
<1>2. ASSUME NEW p \in Paths, NEW q \in Paths, NEW e \in Nat \X Nat, NEW f \in Nat \X Nat,
             Append(p, e) = Append(q, f)
      PROVE  p = q /\ e = f
  <2> DEFINE x == Append(p, e)
             y == Append(q, f)
  <2>0. /\ x = y /\ Len(x) = Len(p) + 1 /\ Len(p) \in Nat /\ x[Len(p) + 1] = e
        /\ Len(y) = Len(q) + 1 /\ Len(q) \in Nat /\ y[Len(q) + 1] = f
        /\ (\A i \in 1 .. Len(p) : x[i] = p[i]) /\ (\A i \in 1 .. Len(q) : y[i] = q[i])
    BY <1>1, <1>2
  <2> HIDE DEF x, y
  <2>1. Len(p) = Len(q) /\ e = f
    BY <2>0
  <2>2. \A i \in 1 .. Len(p) : p[i] = q[i]
    BY <2>0, <2>1
  <2>3. p \in Seq(Nat \X Nat) /\ q \in Seq(Nat \X Nat)
    BY DEF Paths
  <2> QED
    BY <2>1, <2>2, <2>3, SeqEqual
<1> QED
  BY <1>1, <1>2

\* The last entry of a stack is of a path that has been followed, and one more
\* call has a key.
LEMMA CallerIs ==
  ASSUME NEW c \in BOOLEAN, NEW r, Sound(c, r), NEW t \in Threads, r.stack[t] # <<>>
  PROVE  LET caller == Last(r.stack[t])
         IN  /\ caller \in Entry /\ caller.record \in DOMAIN r.hash.keys
             /\ \A fn \in Nat \ {Root}, line \in Nat :
                  /\ KeyFor(c, r.hash, r.seen, Append(caller.path, <<fn, line>>),
                            KeyOf(fn, UpId(c, r.hash, caller.record), line))
                  /\ Append(caller.path, <<fn, line>>) # <<>>
<1> DEFINE caller == Last(r.stack[t])
<1>1. r.stack[t] \in Seq(Entry)
  BY DEF Sound, Entries, EntryStacks
<1>2. Len(r.stack[t]) \in 1 .. Len(r.stack[t])
  <2>1. Len(r.stack[t]) \in Nat \ {0}
    BY <1>1, EmptySeq
  <2> QED
    BY <2>1
<1>3. caller \in Entry
  BY <1>1, <1>2, ElementOfSeq DEF Last
<1>4. <<caller.path, caller.record>> \in DOMAIN r.seen
  BY <1>2 DEF Sound, Entries, Last
<1> HIDE DEF caller
<1>5. caller.path \in Paths /\ caller.record \in Nat
  BY <1>3 DEF Entry
<1>6. caller.record \in DOMAIN r.hash.keys
  BY <1>4, <1>5 DEF Sound, Explained
<1>7. ASSUME NEW fn \in Nat \ {Root}, NEW line \in Nat
      PROVE  /\ KeyFor(c, r.hash, r.seen, Append(caller.path, <<fn, line>>),
                       KeyOf(fn, UpId(c, r.hash, caller.record), line))
             /\ Append(caller.path, <<fn, line>>) # <<>>
  <2>1. KeyFor(c, r.hash, r.seen, Append(caller.path, <<fn, line>>),
               KeyOf(fn, UpId(c, r.hash, caller.record), line))
    BY <1>4, <1>5, <1>6 DEF KeyFor
  <2>2. Append(caller.path, <<fn, line>>) # <<>>
    BY <1>5, PathAppend
  <2> QED
    BY <2>1, <2>2
<1> QED
  BY <1>3, <1>6, <1>7 DEF caller

\* graph_prehook
LEMMA PrehookSound ==
  ASSUME KeysSuffice, conf.compress \in BOOLEAN, Sound(conf.compress, Work), NEW t \in Threads
  PROVE  /\ Sound(conf.compress, Prehook(t)) /\ Develops(Work, Prehook(t))
         /\ \A u \in Threads : (stack[u] # <<>> \/ u = t) <=> Prehook(t).stack[u] # <<>>
<1>1. Work.stack = stack
  BY DEF Work
<1>2. CASE stack[t] = <<>>
  <2>1. KeyFor(conf.compress, Work.hash, Work.seen, <<>>, RootKey)
    BY DEF KeyFor
  <2>2. Pushes(conf.compress, Work, t, RootKey, Pushed(Work, t, RootKey, <<>>))
    BY <1>1, <1>2, <2>1, PushedSound
  <2>3. Prehook(t) = Pushed(Work, t, RootKey, <<>>)
    BY <1>2 DEF Prehook, NewStack
  <2> QED
    BY <1>1, <2>2, <2>3 DEF Pushes
<1>3. CASE stack[t] # <<>>
  BY <1>1, <1>3, DevelopsOn DEF Prehook
<1> QED
  BY <1>2, <1>3

\* LUA_HOOKCALL
LEMMA CallHookSound ==
  ASSUME KeysSuffice, conf.compress \in BOOLEAN, Sound(conf.compress, Work), NEW t \in Threads,
         NEW f \in Funcs
  PROVE  /\ Sound(conf.compress, CallHook(t, f)) /\ Develops(Work, CallHook(t, f))
         /\ \A u \in Threads : (stack[u] # <<>> \/ u = t) <=> CallHook(t, f).stack[u] # <<>>
<1> DEFINE r == Prehook(t)
           caller == Last(r.stack[t])
           fn == Identifier[f]
           path == Append(caller.path, <<fn, caller.line>>)
           k == KeyOf(fn, UpId(conf.compress, r.hash, caller.record), caller.line)
<1>1. /\ Sound(conf.compress, r) /\ Develops(Work, r) /\ r.stack[t] # <<>>
      /\ \A u \in Threads : (stack[u] # <<>> \/ u = t) <=> r.stack[u] # <<>>
  BY PrehookSound
<1>2. fn \in Nat \ {Root}
  BY RecordsAssumption
<1> HIDE DEF r, fn
<1>3. caller.line \in Nat
  BY <1>1, CallerIs DEF Entry
<1>4. KeyFor(conf.compress, r.hash, r.seen, path, k) /\ path # <<>>
  BY <1>1, <1>2, <1>3, CallerIs
<1>5. CallHook(t, f) = Pushed(r, t, k, path)
  BY DEF CallHook, ParentId, UpId, r, fn
<1> HIDE DEF path, k
<1>6. Pushes(conf.compress, r, t, k, Pushed(r, t, k, path))
  BY <1>1, <1>4, PushedSound
<1>7. /\ Sound(conf.compress, CallHook(t, f)) /\ Develops(r, CallHook(t, f))
      /\ \A u \in Threads : (stack[u] # <<>> \/ u = t) <=> CallHook(t, f).stack[u] # <<>>
  BY <1>1, <1>5, <1>6 DEF Pushes
<1>8. Develops(Work, CallHook(t, f))
  BY <1>1, <1>7, DevelopsOn
<1> QED
  BY <1>7, <1>8

\* lmprof_stack_measured_pop, down to the n-th entry.
LEMMA PoppedSound ==
  ASSUME NEW c \in BOOLEAN, NEW r, Sound(c, r), NEW t \in Threads, NEW n \in 1 .. Len(r.stack[t])
  PROVE  /\ Sound(c, Popped(r, t, n)) /\ Develops(r, Popped(r, t, n))
         /\ \A u \in Threads : r.stack[u] # <<>> => Popped(r, t, n).stack[u] # <<>>
<1> DEFINE s == SubSeq(r.stack[t], 1, n)
           counts == [id \in DOMAIN r.count |-> r.count[id] + OnStack(r.stack[t], n, id)]
           w == Popped(r, t, n)
<1>1. r.stack[t] \in Seq(Entry)
  BY DEF Sound, Entries, EntryStacks
<1>2. Len(r.stack[t]) \in Nat /\ n \in 0 .. Len(r.stack[t])
  BY <1>1, LenProperties
<1>3. s \in Seq(Entry) /\ Len(s) = n /\ \A i \in 1 .. n : s[i] = r.stack[t][i]
  BY <1>1, <1>2, PrefixType
<1>4. \A i \in 1 .. Len(s) : <<s[i].path, s[i].record>> \in DOMAIN r.seen /\ (s[i].path = <<>> <=> i = 1)
  BY <1>2, <1>3 DEF Sound, Entries
<1>5. DOMAIN counts = DOMAIN r.count
  OBVIOUS
<1> HIDE DEF s, counts
<1>6. w = [hash |-> r.hash, stack |-> [r.stack EXCEPT ![t] = s], count |-> counts, seen |-> r.seen]
  <2>1. w = [r EXCEPT !.stack[t] = s, !.count = counts]
    BY DEF Popped, s, counts
  <2>2. r = [hash |-> r.hash, stack |-> r.stack, count |-> r.count, seen |-> r.seen]
    BY DEF Sound
  <2> HIDE DEF w
  <2> QED
    BY <2>1, <2>2
<1> HIDE DEF w
<1>7. Sound(c, w)
  BY <1>3, <1>4, <1>5, <1>6, StackSound
<1>8. w.stack[t] = s /\ \A u \in Threads \ {t} : w.stack[u] = r.stack[u]
  <2>1. \A st \in EntryStacks : LET x == [st EXCEPT ![t] = s] IN
          x[t] = s /\ \A u \in Threads \ {t} : x[u] = st[u]
    BY DEF EntryStacks
  <2>2. r.stack \in EntryStacks
    BY DEF Sound, Entries
  <2>3. w.stack = [r.stack EXCEPT ![t] = s]
    BY <1>6
  <2> HIDE DEF EntryStacks
  <2> QED
    BY <2>1, <2>2, <2>3
<1>9. s # <<>>
  BY <1>2, <1>3, EmptySeq
<1>10. w.hash = r.hash /\ w.count = counts /\ w.seen = r.seen
       /\ w.stack = [r.stack EXCEPT ![t] = s] /\ r.stack \in EntryStacks /\ w.stack \in EntryStacks
  BY <1>6, <1>7 DEF Sound, Entries
<1>11. ASSUME Balanced(r) PROVE Balanced(w)
  <2>1. \A j : OnStack(r.stack[t], n, j) \in Nat
    BY <1>1, <1>2, OnStackIs
  <2>2. Tallies(r)
    BY <1>11 DEF Balanced
  <2>3. \A j \in DOMAIN counts : counts[j] \in Nat
    BY <2>1, <2>2 DEF counts, Tallies
  <2>4. Tallies(w)
    BY <1>10, <2>2, <2>3 DEF Tallies
  <2>5. ASSUME NEW j \in Nat
        PROVE  Counted(w.count, j) + Open(w.stack, j) = TotalIn(w.seen, j)
    <3>1. Counted(r.count, j) \in Nat
      BY <2>2 DEF Tallies, Counted
    <3>2. Counted(w.count, j) = Counted(r.count, j) + OnStack(r.stack[t], n, j)
      <4>1. CASE j \in DOMAIN r.count
        BY <1>5, <1>10, <4>1 DEF Counted, counts
      <4>2. CASE j \notin DOMAIN r.count
        <5>1. \A i \in 1 .. Len(r.stack[t]) : r.stack[t][i].record # j
          <6> TAKE i \in 1 .. Len(r.stack[t])
          <6> DEFINE p == r.stack[t][i].path
                     id == r.stack[t][i].record
          <6>1. <<p, id>> \in DOMAIN r.seen
            BY DEF Sound, Entries
          <6> HIDE DEF p, id
          <6>2. p \in Paths /\ id \in Nat
            BY <6>1 DEF Sound, Explained
          <6>3. id \in DOMAIN r.count
            BY <6>1, <6>2 DEF Sound, Explained
          <6> QED
            BY <4>2, <6>3 DEF id
        <5>2. OnStack(r.stack[t], n, j) = 0
          BY <1>1, <1>2, <5>1, OnStackIs
        <5>3. Counted(w.count, j) = 0 /\ Counted(r.count, j) = 0
          BY <1>5, <1>10, <4>2 DEF Counted
        <5> QED
          BY <5>2, <5>3
      <4> QED
        BY <4>1, <4>2
    <3>3. OnStack(r.stack[t], 0, j) = OnStack(s, 0, j) + OnStack(r.stack[t], n, j)
      BY <1>1, <1>2, OnStackIs DEF s
    <3>4. /\ Open(r.stack, j) \in Int /\ Open(w.stack, j) \in Int
          /\ Open(w.stack, j) + OnStack(r.stack[t], 0, j) = Open(r.stack, j) + OnStack(s, 0, j)
      BY <1>3, <1>10, OpenChanges
    <3>5. OnStack(s, 0, j) \in Nat
      <4>1. 0 \in 0 .. Len(s)
        BY <1>3, LenProperties
      <4> QED
        BY <1>3, <4>1, OnStackIs
    <3>6. Counted(r.count, j) + Open(r.stack, j) = TotalIn(w.seen, j)
      BY <1>10, <1>11 DEF Balanced
    <3>7. OnStack(r.stack[t], n, j) \in Nat
      BY <2>1
    <3>9. Open(w.stack, j) + (OnStack(s, 0, j) + OnStack(r.stack[t], n, j)) =
            Open(r.stack, j) + OnStack(s, 0, j)
      BY <3>3, <3>4
    <3>10. (Counted(r.count, j) + OnStack(r.stack[t], n, j)) + Open(w.stack, j) =
             Counted(r.count, j) + Open(r.stack, j)
      <4>1. /\ Counted(r.count, j) \in Int /\ OnStack(r.stack[t], n, j) \in Int
            /\ OnStack(s, 0, j) \in Int
        BY <3>1, <3>5, <3>7
      <4> DEFINE a == Counted(r.count, j)
                 d == OnStack(r.stack[t], n, j)
                 f == OnStack(s, 0, j)
                 x == Open(r.stack, j)
                 y == Open(w.stack, j)
      <4>2. a \in Int /\ d \in Int /\ f \in Int
        BY <4>1
      <4>3. x \in Int /\ y \in Int
        BY <3>4
      <4>4. y + (f + d) = x + f
        BY <3>9
      <4>5. (a + d) + y = a + x
        <5> HIDE DEF a, d, f, x, y
        <5> QED
          BY <4>2, <4>3, <4>4, Regrouped
      <4> QED
        BY <4>5
    <3> QED
      BY <3>2, <3>6, <3>10
  <2> QED
    BY <2>4, <2>5 DEF Balanced
<1>12. Develops(r, w)
  <2>1. Grows(r.hash, w.hash)
    BY <1>10, GrowsOn DEF Sound
  <2> QED
    BY <1>11, <2>1 DEF Develops
<1> QED
  BY <1>7, <1>8, <1>9, <1>12 DEF w

\* A return never pops the root.
LEMMA KeptIn ==
  ASSUME NEW c \in BOOLEAN, NEW r, Sound(c, r), NEW t \in Threads, r.stack[t] # <<>>, NEW fn
  PROVE  Kept(r, t, fn) \in 1 .. Len(r.stack[t])
<1> DEFINE n == Len(r.stack[t])
           own == {i \in 2 .. n : r.hash.keys[r.stack[t][i].record].fn = fn}
<1>1. n \in Nat \ {0}
  <2>1. r.stack[t] \in Seq(Entry)
    BY DEF Sound, Entries, EntryStacks
  <2> QED
    BY <2>1, EmptySeq
<1>2. Kept(r, t, fn) = IF own = {} THEN 1 ELSE Max(own) - 1
  BY DEF Kept
<1>3. own \in SUBSET (2 .. n) /\ own \in SUBSET (1 .. n)
  BY <1>1
<1> HIDE DEF own, n
<1>4. own # {} => Max(own) \in own
  BY <1>1, <1>3, MaxIn
<1>5. own # {} => Max(own) \in 2 .. n
  BY <1>3, <1>4
<1>6. Kept(r, t, fn) \in 1 .. n
  BY <1>1, <1>2, <1>5
<1> QED
  BY <1>6 DEF n

\* A function is active on a line of its own, or on none.
LEMMA ActiveIs == \A f \in Funcs : Active(f) \in [fn : Funcs, line : Nat]
<1> SUFFICES ASSUME NEW f \in Funcs, LinesOf[f] # {} PROVE Min(LinesOf[f]) \in Nat
  BY DEF Active, FirstLine
<1>1. LinesOf[f] \subseteq Nat
  BY RecordsAssumption
<1>2. PICK m \in LinesOf[f] : \A e \in LinesOf[f] : ~(<<e, m>> \in OpToRel(<, Nat))
  BY <1>1, NatLessThanWellFounded, WFMin
<1>3. \A e \in LinesOf[f] : m <= e
  <2> TAKE e \in LinesOf[f]
  <2>1. m \in Nat /\ e \in Nat
    BY <1>1
  <2>2. ~(e < m)
    BY <1>2, <2>1 DEF OpToRel
  <2> QED
    BY <2>1, <2>2
<1>4. Min(LinesOf[f]) \in LinesOf[f]
  BY <1>3 DEF Min
<1> QED
  BY <1>1, <1>4

\* LUA_HOOKLINE
LEMMA LineSound ==
  ASSUME NEW c \in BOOLEAN, NEW r, Sound(c, r), NEW t \in Threads, r.stack[t] # <<>>,
         NEW line \in Nat
  PROVE  LET w == [r EXCEPT !.stack[t][Len(r.stack[t])].line = line]
         IN  Sound(c, w) /\ Develops(r, w) /\ \A u \in Threads : r.stack[u] # <<>> => w.stack[u] # <<>>
<1> DEFINE w == [r EXCEPT !.stack[t][Len(r.stack[t])].line = line]
           q == r.stack[t]
           n == Len(q)
           e == [q[n] EXCEPT !.line = line]
           s == [q EXCEPT ![n] = e]
<1>1. q \in Seq(Entry)
  BY DEF Sound, Entries, EntryStacks
<1>2. n \in Nat \ {0} /\ n \in 1 .. n
  <2>1. n \in Nat \ {0}
    BY <1>1, EmptySeq
  <2> QED
    BY <2>1
<1>3. q[n] \in Entry
  BY <1>1, <1>2, ElementOfSeq
<1>4. e \in Entry /\ e.path = q[n].path /\ e.record = q[n].record
  <2> DEFINE x == q[n]
  <2>1. x \in Entry
    BY <1>3
  <2> HIDE DEF x
  <2>2. LET y == [x EXCEPT !.line = line] IN y \in Entry /\ y.path = x.path /\ y.record = x.record
    BY <2>1 DEF Entry
  <2>3. e = [x EXCEPT !.line = line] /\ q[n] = x
    BY DEF x
  <2> HIDE DEF e
  <2> QED
    BY <2>2, <2>3
<1>5. s \in Seq(Entry) /\ Len(s) = n /\ \A i \in 1 .. n : s[i] = IF i = n THEN e ELSE q[i]
  <2> HIDE DEF e
  <2> QED
    BY <1>1, <1>2, <1>4, ExceptSeq
<1>6. w = [hash |-> r.hash, stack |-> [r.stack EXCEPT ![t] = s], count |-> r.count, seen |-> r.seen]
  <2>1. w = [r EXCEPT !.stack = [r.stack EXCEPT ![t] = s]]
    BY DEF s, e, w
  <2>2. r = [hash |-> r.hash, stack |-> r.stack, count |-> r.count, seen |-> r.seen]
    BY DEF Sound
  <2> HIDE DEF s, w
  <2> QED
    BY <2>1, <2>2
<1>7. \A i \in 1 .. n : <<q[i].path, q[i].record>> \in DOMAIN r.seen /\ (q[i].path = <<>> <=> i = 1)
  BY DEF Sound, Entries
<1> HIDE DEF e, s, w
<1>8. \A i \in 1 .. Len(s) : <<s[i].path, s[i].record>> \in DOMAIN r.seen /\ (s[i].path = <<>> <=> i = 1)
  BY <1>2, <1>4, <1>5, <1>7
<1>9. Sound(c, w)
  BY <1>5, <1>6, <1>8, StackSound
<1>10. w.stack[t] = s /\ \A u \in Threads \ {t} : w.stack[u] = r.stack[u]
  <2>1. \A st \in EntryStacks : LET x == [st EXCEPT ![t] = s] IN
          x[t] = s /\ \A u \in Threads \ {t} : x[u] = st[u]
    BY DEF EntryStacks
  <2>2. r.stack \in EntryStacks
    BY DEF Sound, Entries
  <2>3. w.stack = [r.stack EXCEPT ![t] = s]
    BY <1>6
  <2> HIDE DEF EntryStacks
  <2> QED
    BY <2>1, <2>2, <2>3
<1>11. s # <<>>
  BY <1>2, <1>5, EmptySeq
<1>12. /\ w.hash = r.hash /\ w.count = r.count /\ w.seen = r.seen
       /\ w.stack = [r.stack EXCEPT ![t] = s] /\ r.stack \in EntryStacks /\ w.stack \in EntryStacks
  BY <1>6, <1>9 DEF Sound, Entries
<1>13. ASSUME Balanced(r) PROVE Balanced(w)
  <2>1. Tallies(w)
    BY <1>12, <1>13 DEF Balanced, Tallies
  <2>2. ASSUME NEW j \in Nat
        PROVE  Counted(w.count, j) + Open(w.stack, j) = TotalIn(w.seen, j)
    <3>1. \A i \in 1 .. Len(q) : s[i].record = q[i].record
      BY <1>4, <1>5
    <3>2. OnStack(s, 0, j) = OnStack(q, 0, j)
      BY <1>1, <1>5, <3>1, OnStackIs
    <3>3. /\ Open(r.stack, j) \in Int /\ Open(w.stack, j) \in Int
          /\ Open(w.stack, j) + OnStack(q, 0, j) = Open(r.stack, j) + OnStack(s, 0, j)
      <4>1. s \in Seq(Entry)
        BY <1>5
      <4>2. \A st \in EntryStacks :
              /\ Open(st, j) \in Int
              /\ Open([st EXCEPT ![t] = s], j) + OnStack(st[t], 0, j) =
                   Open(st, j) + OnStack(s, 0, j)
        BY <4>1, OpenChanges
      <4> QED
        BY <1>12, <4>2
    <3>4. OnStack(q, 0, j) \in Nat
      <4>1. 0 \in 0 .. Len(q)
        BY <1>2
      <4> QED
        BY <1>1, <4>1, OnStackIs
    <3>5. Open(w.stack, j) = Open(r.stack, j)
      BY <3>2, <3>3, <3>4
    <3> QED
      BY <1>12, <1>13, <3>5 DEF Balanced
  <2> QED
    BY <2>1, <2>2 DEF Balanced
<1>14. Develops(r, w)
  <2>1. Grows(r.hash, w.hash)
    BY <1>12, GrowsOn DEF Sound
  <2> QED
    BY <1>13, <2>1 DEF Develops
<1> QED
  BY <1>9, <1>10, <1>11, <1>14 DEF w
-----------------------------------------------------------------------------
(* Frames of a call stack *)

\* u has what is collected after each of the frames that are loaded.
LoadsUp(u, r, active) ==
  /\ u[0] = r /\ \A i \in 1 .. Len(active) : u[i] = LoadedFrame(u[i - 1], active, i)
  /\ Loaded(r, active) = u[Len(active)]

\* There is such a function.
LEMMA LoadsUpExists ==
  ASSUME NEW r, NEW active, Len(active) \in Nat, conf.load
  PROVE  \E u : LoadsUp(u, r, active)
<1> DEFINE Deeper(u, i) == IF i = 0 THEN r ELSE LoadedFrame(u[i - 1], active, i)
           A == {m \in Nat : \E u : u = [i \in 0 .. m |-> Deeper(u, i)]}
           w == CHOOSE u : u = [i \in 0 .. Len(active) |-> Deeper(u, i)]
<1>1. 0 \in A
  <2>1. [i \in 0 .. 0 |-> r] = [i \in 0 .. 0 |-> Deeper([k \in 0 .. 0 |-> r], i)]
    OBVIOUS
  <2> QED
    BY <2>1
<1>2. ASSUME NEW m \in Nat, m \in A PROVE m + 1 \in A
  <2>1. PICK u : u = [i \in 0 .. m |-> Deeper(u, i)]
    BY <1>2
  <2> DEFINE v == [i \in 0 .. m + 1 |-> IF i = m + 1 THEN Deeper(u, i) ELSE u[i]]
  <2>2. \A i \in 0 .. m + 1 : v[i] = Deeper(v, i)
    <3> TAKE i \in 0 .. m + 1
    <3>1. i # 0 => i - 1 \in 0 .. m /\ v[i - 1] = u[i - 1]
      OBVIOUS
    <3>2. Deeper(v, i) = Deeper(u, i)
      BY <3>1
    <3>3. i # m + 1 => i \in 0 .. m
      OBVIOUS
    <3>4. \A k \in 0 .. m : u[k] = Deeper(u, k)
      <4> HIDE DEF Deeper
      <4> QED
        BY <2>1
    <3> HIDE DEF Deeper
    <3> QED
      BY <3>2, <3>3, <3>4
  <2>3. v = [i \in 0 .. m + 1 |-> Deeper(v, i)]
    <3>1. v = [i \in 0 .. m + 1 |-> v[i]]
      OBVIOUS
    <3> HIDE DEF v, Deeper
    <3> QED
      BY <2>2, <3>1
  <2> HIDE DEF v, Deeper
  <2> QED
    BY <2>3
<1>3. Len(active) \in A
  <2> HIDE DEF A
  <2> QED
    BY <1>1, <1>2, InductionOnNat
<1>4. w = [i \in 0 .. Len(active) |-> Deeper(w, i)]
  BY <1>3
<1>5. Loaded(r, active) = w[Len(active)]
  BY DEF Loaded
<1>6. \A i \in 0 .. Len(active) : w[i] = Deeper(w, i)
  <2> HIDE DEF Deeper, w
  <2> QED
    BY <1>4
<1> HIDE DEF w
<1> QED
  BY <1>5, <1>6 DEF LoadsUp

\* Loading the call stack onto the root, which has number Root, keeps what is
\* said of what is collected: it is counted in the records its calls would be,
\* although a parent is chosen the wrong way around for the lowest of them.
LEMMA LoadedSound ==
  ASSUME KeysSuffice, conf.compress \in BOOLEAN, NEW r, Sound(conf.compress, r),
         r.stack[Main] # <<>>, Last(r.stack[Main]).record = Root, r.hash.keys[Root] = RootKey,
         NEW active \in ActiveCalls
  PROVE  /\ Sound(conf.compress, Loaded(r, active)) /\ Develops(r, Loaded(r, active))
         /\ Loaded(r, active).stack[Main] # <<>>
<1>1. Len(active) \in Nat
        /\ \A i \in 1 .. Len(active) : active[i].fn \in Funcs /\ active[i].line \in Nat
  <2>1. active \in Seq([fn : Funcs, line : Nat])
    BY DEF ActiveCalls
  <2>2. Len(active) \in Nat /\ \A i \in 1 .. Len(active) : active[i] \in [fn : Funcs, line : Nat]
    BY <2>1, LenProperties, ElementOfSeq
  <2> QED
    BY <2>2
<1>2. CASE ~conf.load
  BY <1>2, DevelopsOn DEF Loaded
<1>3. CASE conf.load
  <2>1. \E u : LoadsUp(u, r, active)
    BY <1>1, <1>3, LoadsUpExists
  <2>2. PICK u : LoadsUp(u, r, active)
    BY <2>1
  <2> DEFINE A == {n \in Nat : n <= Len(active) =>
                     /\ Sound(conf.compress, u[n]) /\ Develops(r, u[n])
                     /\ u[n].stack[Main] # <<>>}
  <2>3. 0 \in A
    BY <2>2, DevelopsOn DEF LoadsUp
  <2>4. ASSUME NEW m \in Nat, m \in A PROVE m + 1 \in A
    <3> SUFFICES ASSUME m + 1 <= Len(active)
                 PROVE  /\ Sound(conf.compress, u[m + 1]) /\ Develops(r, u[m + 1])
                        /\ u[m + 1].stack[Main] # <<>>
      OBVIOUS
    <3> DEFINE i == m + 1
               v == u[m]
               caller == Last(v.stack[Main])
               fn == Identifier[active[i].fn]
               line == IF i = 1 THEN 0 ELSE active[i - 1].line
               path == Append(caller.path, <<fn, line>>)
               k == KeyOf(fn, UpId(conf.compress, v.hash, caller.record), line)
               parent == IF i = 1 THEN LoadedParent(caller.record)
                         ELSE ParentId(v.hash, caller.record)
    <3>1. i \in 1 .. Len(active) /\ i - 1 = m /\ (i # 1 => i - 1 \in 1 .. Len(active))
      BY <1>1
    <3>2. Sound(conf.compress, v) /\ Develops(r, v) /\ v.stack[Main] # <<>>
      <4>1. m <= Len(active)
        BY <1>1
      <4> QED
        BY <2>4, <4>1
    <3>3. u[i] = LoadedFrame(v, active, i)
      BY <2>2, <3>1 DEF LoadsUp
    <3>4. line \in Nat
      BY <1>1, <3>1
    <3>5. fn \in Nat \ {Root}
      <4>1. active[i].fn \in Funcs
        BY <1>1, <3>1
      <4> QED
        BY <4>1, RecordsAssumption
    <3>6. parent = UpId(conf.compress, v.hash, caller.record)
      <4>1. CASE i = 1
        <5>0. m = 0
          BY <4>1
        <5>1. v = r
          BY <2>2, <5>0 DEF LoadsUp
        <5>2. caller.record = Root /\ v.hash.keys[Root].fn = Root
          BY <5>1 DEF RootKey, KeyOf
        <5> QED
          BY <4>1, <5>2 DEF LoadedParent, UpId
      <4>2. CASE i # 1
        BY <4>2 DEF ParentId, UpId
      <4> QED
        BY <4>1, <4>2
    <3>7. LoadedFrame(v, active, i) = Pushed(v, Main, KeyOf(fn, parent, line), path)
      BY DEF LoadedFrame
    <3> HIDE DEF v, fn, line, parent, i
    <3>8. Main \in Threads
      BY RecordsAssumption
    <3>9. KeyFor(conf.compress, v.hash, v.seen, path, k) /\ path # <<>>
      BY <3>2, <3>4, <3>5, <3>8, CallerIs
    <3>10. LoadedFrame(v, active, i) = Pushed(v, Main, k, path)
      BY <3>6, <3>7
    <3> HIDE DEF path, k
    <3>11. Pushes(conf.compress, v, Main, k, Pushed(v, Main, k, path))
      BY <3>2, <3>8, <3>9, PushedSound
    <3>12. Sound(conf.compress, u[i]) /\ Develops(v, u[i]) /\ u[i].stack[Main] # <<>>
      BY <3>3, <3>8, <3>10, <3>11 DEF Pushes
    <3>13. Develops(r, u[i])
      BY <3>2, <3>12, DevelopsOn
    <3> QED
      BY <3>12, <3>13 DEF i
  <2>5. Len(active) \in A
    <3> HIDE DEF A
    <3> QED
      BY <1>1, <2>3, <2>4, InductionOnNat
  <2> QED
    BY <1>1, <2>2, <2>5 DEF LoadsUp
<1> QED
  BY <1>2, <1>3

\* What lmprof_sample_stack has kept of the frame below: the path to it, which
\* has been followed to a record, and what records are called from it under.
Climbs(compress, r, path, parent, line) ==
  /\ path \in Paths /\ line \in Nat
  /\ \E up \in Nat : /\ <<path, up>> \in DOMAIN r.seen /\ up \in DOMAIN r.hash.keys
                     /\ parent = UpId(compress, r.hash, up)

\* A record that does not exist has no total.
LEMMA NoTotal ==
  ASSUME NEW c, NEW r, Sound(c, r), NEW id, id \notin DOMAIN r.count
  PROVE  TotalIn(r.seen, id) = 0
<1> DEFINE f == [a \in Of(r.seen, id) |-> r.seen[a]]
<1>1. Of(r.seen, id) = {}
  <2> SUFFICES ASSUME NEW a \in DOMAIN r.seen, a[2] = id PROVE FALSE
    BY DEF Of
  <2>1. a[1] \in Paths /\ a[2] \in Nat /\ a = <<a[1], a[2]>>
    BY DEF Sound, Explained
  <2>2. a[2] \in DOMAIN r.hash.keys
    BY <2>1 DEF Sound, Explained
  <2> QED
    BY <2>2 DEF Sound
<1>2. f \in [{} -> Int]
  BY <1>1
<1>3. SumFunction(f) = 0
  <2> HIDE DEF f
  <2> QED
    BY <1>2, FS_EmptySet, SumType
<1> QED
  BY <1>3 DEF TotalIn

\* A sampled frame is counted in the record of its path.
LEMMA SampledSound ==
  ASSUME KeysSuffice, conf.compress \in BOOLEAN, NEW r, Sound(conf.compress, r.work),
         NEW fn, NEW path, NEW leaf \in BOOLEAN, NEW line \in Nat,
         KeyFor(conf.compress, r.work.hash, r.work.seen, path, KeyOf(fn, r.parent, r.line))
  PROVE  LET q == Sampled(r, fn, path, leaf, line)
         IN  /\ Sound(conf.compress, q.work) /\ SampleDevelops(r.work, q.work)
             /\ q.work.stack = r.work.stack
             /\ Climbs(conf.compress, q.work, q.path, q.parent, q.line)
             /\ q.path = path /\ q.line = line
<1> DEFINE k == KeyOf(fn, r.parent, r.line)
           id == Fetched(r.work.hash, k)
           n == IF leaf THEN 1 ELSE 0
           v == Used(r.work, k, path, n)
           add == Counts(r.work, id, leaf)
           counts == [v.count EXCEPT ![id] = IF add THEN @ + 1 ELSE @]
           q == Sampled(r, fn, path, leaf, line)
<1>1. Finds(conf.compress, r.work, path, v, id)
  BY UsedSound
<1>2. path \in Paths
  BY KeyForType DEF Sound
<1>3. /\ q = [work |-> [v EXCEPT !.count[id] = IF add THEN @ + 1 ELSE @],
              parent |-> ParentId(v.hash, id), line |-> line, path |-> path]
  BY DEF Sampled
<1> HIDE DEF k, id, n, v, add, q
<1>4. v = [hash |-> v.hash, stack |-> v.stack, count |-> v.count, seen |-> v.seen]
  BY <1>1 DEF Finds, Sound
<1>5. [v EXCEPT !.count[id] = IF add THEN @ + 1 ELSE @] =
        [hash |-> v.hash, stack |-> v.stack, count |-> counts, seen |-> v.seen]
  BY <1>4
<1>6. /\ q.work = [hash |-> v.hash, stack |-> v.stack, count |-> counts, seen |-> v.seen]
      /\ q.parent = ParentId(v.hash, id) /\ q.line = line /\ q.path = path
  BY <1>3, <1>5
<1>7. DOMAIN counts = DOMAIN v.count
  OBVIOUS
<1> HIDE DEF counts
<1>8. /\ q.work = [hash |-> q.work.hash, stack |-> q.work.stack, count |-> q.work.count,
                   seen |-> q.work.seen]
      /\ q.work.hash = v.hash /\ q.work.stack = v.stack /\ q.work.count = counts
      /\ q.work.seen = v.seen
  BY <1>6
<1>9. Sound(conf.compress, q.work)
  BY <1>1, <1>7, <1>8 DEF Finds, Sound
<1>10. q.parent = UpId(conf.compress, v.hash, id)
  BY <1>6 DEF ParentId, UpId
<1>11. Climbs(conf.compress, q.work, q.path, q.parent, q.line)
  BY <1>1, <1>2, <1>6, <1>8, <1>10 DEF Climbs, Finds
<1>12. ASSUME SampleBalanced(r.work) PROVE SampleBalanced(q.work)
  <2>1. /\ Tallies(v)
        /\ \A j : /\ Counted(v.count, j) = Counted(r.work.count, j)
                  /\ Counted(r.work.count, j) \in Nat /\ TotalIn(r.work.seen, j) \in Int
                  /\ TotalIn(v.seen, j) = TotalIn(r.work.seen, j) + IF j = id THEN n ELSE 0
    <3>1. Tallies(r.work) /\ n \in Nat
      BY <1>12 DEF SampleBalanced, n
    <3>2. v = Used(r.work, k, path, n) /\ id = Fetched(r.work.hash, k)
      BY DEF v, id
    <3>3. KeyFor(conf.compress, r.work.hash, r.work.seen, path, k)
      BY DEF k
    <3> QED
      BY <3>1, <3>2, <3>3, UsedTallies
  <2>2. id \in DOMAIN v.count
    BY <1>1 DEF Finds, Sound
  <2>3. \A j \in DOMAIN v.count : v.count[j] \in Nat
    BY <2>1 DEF Tallies
  <2>4. /\ DOMAIN counts = DOMAIN v.count
        /\ counts[id] = IF add THEN v.count[id] + 1 ELSE v.count[id]
        /\ \A j \in DOMAIN v.count : j # id => counts[j] = v.count[j]
    BY <2>2 DEF counts
  <2>5. Tallies(q.work)
    <3>1. \A j \in DOMAIN counts : counts[j] \in Nat
      BY <2>3, <2>4
    <3> QED
      BY <1>8, <2>1, <3>1 DEF Tallies
  <2>6. \A j \in DOMAIN r.work.count :
          r.work.count[j] \in {TotalIn(r.work.seen, j), TotalIn(r.work.seen, j) + 1} \ {0}
    BY <1>12 DEF SampleBalanced
  <2>7. ASSUME NEW j \in DOMAIN v.count
        PROVE  counts[j] \in {TotalIn(v.seen, j), TotalIn(v.seen, j) + 1} \ {0}
    <3> DEFINE a == TotalIn(r.work.seen, j)
               b == TotalIn(v.seen, j)
    <3>1. /\ v.count[j] = IF j \in DOMAIN r.work.count THEN r.work.count[j] ELSE 0
          /\ v.count[j] \in Nat /\ a \in Int /\ b = a + IF j = id THEN n ELSE 0
      BY <2>1, <2>3 DEF Counted
    <3>2. j \notin DOMAIN r.work.count => a = 0
      BY NoTotal
    <3>3. j \in DOMAIN r.work.count => r.work.count[j] \in {a, a + 1} \ {0}
      BY <2>6
    <3> HIDE DEF a, b
    <3>4. CASE j # id
      <4>1. j \in DOMAIN r.work.count
        <5>1. DOMAIN v.count = DOMAIN v.hash.keys /\ DOMAIN r.work.count = DOMAIN r.work.hash.keys
          BY <1>1 DEF Finds, Sound
        <5>2. v.hash = Fetch(r.work.hash, k)
          <6>1. r.work = [hash |-> r.work.hash, stack |-> r.work.stack, count |-> r.work.count,
                          seen |-> r.work.seen]
            BY DEF Sound
          <6>2. Uses(r.work, k, path, n, Used(r.work, k, path, n), Fetched(r.work.hash, k))
            BY <6>1, UsedIs
          <6> QED
            BY <6>2 DEF Uses, v
        <5>3. Fetches(r.work.hash, k, v.hash, id)
          <6>1. k \in Key
            <7>1. Good(r.work.hash) /\ KeyFor(conf.compress, r.work.hash, r.work.seen, path, k)
              BY DEF Sound, k
            <7> QED
              BY <7>1, KeyForType
          <6> QED
            BY <5>2, <6>1, FetchIs DEF Sound, id
        <5> QED
          BY <3>4, <5>1, <5>3 DEF Fetches
      <4>2. counts[j] = r.work.count[j] /\ b = a
        BY <2>4, <3>1, <3>4, <4>1
      <4> QED
        BY <3>3, <4>1, <4>2 DEF b
    <3>5. CASE j = id
      <4>1. add <=> leaf \/ j \notin DOMAIN r.work.count \/ r.work.count[j] = 0
        BY <3>5 DEF add, Counts
      <4>2. (leaf => b = a + 1) /\ (~leaf => b = a)
        BY <3>1, <3>5 DEF n
      <4>3. counts[j] = IF add THEN v.count[j] + 1 ELSE v.count[j]
        BY <2>4, <3>5
      <4>4. CASE j \notin DOMAIN r.work.count
        <5>1. counts[j] = 1 /\ (b = 1 \/ b + 1 = 1)
          BY <3>1, <3>2, <4>1, <4>2, <4>3, <4>4
        <5> QED
          BY <5>1 DEF b
      <4>5. CASE j \in DOMAIN r.work.count
        <5>1. r.work.count[j] \in Nat /\ r.work.count[j] # 0 /\ (r.work.count[j] = a \/ r.work.count[j] = a + 1)
          BY <3>1, <3>3, <4>5
        <5>2. CASE leaf
          <6>1. counts[j] = r.work.count[j] + 1 /\ b = a + 1
            BY <3>1, <4>1, <4>2, <4>3, <4>5, <5>2
          <6>2. counts[j] # 0 /\ (counts[j] = b \/ counts[j] = b + 1)
            BY <3>1, <5>1, <6>1
          <6> QED
            BY <6>2 DEF b
        <5>3. CASE ~leaf
          <6>1. counts[j] = r.work.count[j] /\ b = a
            BY <3>1, <4>1, <4>2, <4>3, <4>5, <5>1, <5>3
          <6> QED
            BY <5>1, <6>1 DEF b
        <5> QED
          BY <5>2, <5>3
      <4> QED
        BY <4>4, <4>5
    <3> QED
      BY <3>4, <3>5
  <2> QED
    BY <1>8, <2>4, <2>5, <2>7 DEF SampleBalanced
<1>13. SampleDevelops(r.work, q.work)
  BY <1>1, <1>8, <1>12 DEF SampleDevelops, Finds
<1> QED
  BY <1>1, <1>6, <1>8, <1>9, <1>11, <1>13 DEF q, Finds

\* u has what is collected after the root and each of the frames of a sample.
SamplesUp(u, r, active) ==
  /\ u[0] = SampledRoot(r)
  /\ \A i \in 1 .. Len(active) : u[i] = SampledFrame(u[i - 1], active, i)

\* There is such a function.
LEMMA SamplesUpExists ==
  ASSUME NEW r, NEW active, Len(active) \in Nat,
         NEW w, w = CHOOSE u : u = [i \in 0 .. Len(active) |->
                      IF i = 0 THEN SampledRoot(r) ELSE SampledFrame(u[i - 1], active, i)]
  PROVE  SamplesUp(w, r, active)
<1> DEFINE Deeper(u, i) == IF i = 0 THEN SampledRoot(r) ELSE SampledFrame(u[i - 1], active, i)
           A == {m \in Nat : \E u : u = [i \in 0 .. m |-> Deeper(u, i)]}
<1>1. 0 \in A
  <2>1. [i \in 0 .. 0 |-> SampledRoot(r)] =
          [i \in 0 .. 0 |-> Deeper([k \in 0 .. 0 |-> SampledRoot(r)], i)]
    OBVIOUS
  <2> QED
    BY <2>1
<1>2. ASSUME NEW m \in Nat, m \in A PROVE m + 1 \in A
  <2>1. PICK u : u = [i \in 0 .. m |-> Deeper(u, i)]
    BY <1>2
  <2> DEFINE v == [i \in 0 .. m + 1 |-> IF i = m + 1 THEN Deeper(u, i) ELSE u[i]]
  <2>2. \A i \in 0 .. m + 1 : v[i] = Deeper(v, i)
    <3> TAKE i \in 0 .. m + 1
    <3>1. i # 0 => i - 1 \in 0 .. m /\ v[i - 1] = u[i - 1]
      OBVIOUS
    <3>2. Deeper(v, i) = Deeper(u, i)
      BY <3>1
    <3>3. i # m + 1 => i \in 0 .. m
      OBVIOUS
    <3>4. \A k \in 0 .. m : u[k] = Deeper(u, k)
      <4> HIDE DEF Deeper
      <4> QED
        BY <2>1
    <3> HIDE DEF Deeper
    <3> QED
      BY <3>2, <3>3, <3>4
  <2>3. v = [i \in 0 .. m + 1 |-> Deeper(v, i)]
    <3>1. v = [i \in 0 .. m + 1 |-> v[i]]
      OBVIOUS
    <3> HIDE DEF v, Deeper
    <3> QED
      BY <2>2, <3>1
  <2> HIDE DEF v, Deeper
  <2> QED
    BY <2>3
<1>3. Len(active) \in A
  <2> HIDE DEF A
  <2> QED
    BY <1>1, <1>2, InductionOnNat
<1>4. w = [i \in 0 .. Len(active) |-> Deeper(w, i)]
  BY <1>3
<1>5. \A i \in 0 .. Len(active) : w[i] = Deeper(w, i)
  <2> HIDE DEF Deeper
  <2> QED
    BY <1>4
<1> QED
  BY <1>5 DEF SamplesUp

\* A sample keeps what is said of what is collected, and does not touch stacks.
LEMMA SamplesSound ==
  ASSUME KeysSuffice, conf.compress \in BOOLEAN, NEW r, Sound(conf.compress, r),
         NEW active \in ActiveCalls, NEW u, SamplesUp(u, r, active)
  PROVE  /\ Sound(conf.compress, u[Len(active)].work) /\ SampleDevelops(r, u[Len(active)].work)
         /\ u[Len(active)].work.stack = r.stack
<1> DEFINE Up(q) == /\ Sound(conf.compress, q.work) /\ SampleDevelops(r, q.work)
                    /\ q.work.stack = r.stack
                    /\ Climbs(conf.compress, q.work, q.path, q.parent, q.line)
           A == {n \in Nat : n <= Len(active) => Up(u[n])}
<1>1. Len(active) \in Nat
        /\ \A i \in 1 .. Len(active) : active[i].fn \in Funcs /\ active[i].line \in Nat
  <2>1. active \in Seq([fn : Funcs, line : Nat])
    BY DEF ActiveCalls
  <2>2. Len(active) \in Nat /\ \A i \in 1 .. Len(active) : active[i] \in [fn : Funcs, line : Nat]
    BY <2>1, LenProperties, ElementOfSeq
  <2> QED
    BY <2>2
<1>2. 0 \in A
  <2> DEFINE s == [work |-> r, parent |-> Root, line |-> 0]
             leaf == FALSE
  <2>1. s.work = r /\ s.parent = Root /\ s.line = 0
    OBVIOUS
  <2>2. u[0] = Sampled(s, Root, <<>>, leaf, 0)
    BY DEF SamplesUp, SampledRoot
  <2>4. Sound(conf.compress, s.work) /\ 0 \in Nat /\ leaf \in BOOLEAN
    BY <2>1
  <2> HIDE DEF s, leaf
  <2>3. KeyFor(conf.compress, s.work.hash, s.work.seen, <<>>, KeyOf(Root, s.parent, s.line))
    BY <2>1 DEF KeyFor, RootKey
  <2>5. LET q == Sampled(s, Root, <<>>, leaf, 0)
        IN  /\ Sound(conf.compress, q.work) /\ SampleDevelops(s.work, q.work)
            /\ q.work.stack = s.work.stack
            /\ Climbs(conf.compress, q.work, q.path, q.parent, q.line)
    BY <2>3, <2>4, SampledSound
  <2>6. Up(u[0])
    BY <2>1, <2>2, <2>5
  <2> QED
    BY <2>6
<1>3. ASSUME NEW m \in Nat, m \in A PROVE m + 1 \in A
  <2> SUFFICES ASSUME m + 1 <= Len(active) PROVE Up(u[m + 1])
    OBVIOUS
  <2> DEFINE i == m + 1
             s == u[m]
             fn == Identifier[active[i].fn]
             line == IF conf.byLine THEN active[i].line ELSE 0
             leaf == i = Len(active)
             path == Append(s.path, <<fn, s.line>>)
  <2>1. i \in 1 .. Len(active) /\ i - 1 = m /\ m <= Len(active)
    BY <1>1
  <2>2. Up(s)
    BY <1>3, <2>1
  <2>3. u[i] = Sampled(s, fn, path, leaf, line)
    BY <2>1 DEF SamplesUp, SampledFrame
  <2>4. line \in Nat /\ leaf \in BOOLEAN
    BY <1>1, <2>1
  <2>5. fn \in Nat \ {Root}
    <3>1. active[i].fn \in Funcs
      BY <1>1, <2>1
    <3> QED
      BY <3>1, RecordsAssumption
  <2> HIDE DEF fn, line, leaf, s
  <2>6. KeyFor(conf.compress, s.work.hash, s.work.seen, path, KeyOf(fn, s.parent, s.line))
    BY <2>2, <2>5 DEF Climbs, KeyFor
  <2> HIDE DEF path
  <2>7. LET q == Sampled(s, fn, path, leaf, line)
        IN  /\ Sound(conf.compress, q.work) /\ SampleDevelops(s.work, q.work)
            /\ q.work.stack = s.work.stack
            /\ Climbs(conf.compress, q.work, q.path, q.parent, q.line)
    BY <2>2, <2>4, <2>6, SampledSound
  <2>8. SampleDevelops(r, u[i].work)
    BY <2>2, <2>3, <2>7, DevelopsOn
  <2>9. Up(u[i])
    BY <2>2, <2>3, <2>7, <2>8
  <2> QED
    BY <2>9
<1>4. Len(active) \in A
  <2> HIDE DEF A
  <2> QED
    BY <1>1, <1>2, <1>3, InductionOnNat
<1> QED
  BY <1>1, <1>4
-----------------------------------------------------------------------------
(* Paths and records *)

\* Class and SharedPaths, in a graph that is compressed or not.
ClassIn(compress, path) ==
  IF ~compress \/ path = <<>> THEN path
  ELSE <<IF Len(path) = 1 THEN Root ELSE path[Len(path) - 1][1], Last(path)>>

SharedIn(compress, s) ==
  \A a, b \in DOMAIN s : a[2] = b[2] <=> ClassIn(compress, a[1]) = ClassIn(compress, b[1])

\* k has what the class of the path p has.
ClassKey(c, p, k) ==
  \/ p = <<>> /\ k = RootKey
  \/ /\ p # <<>> /\ k.fn # Root /\ k = KeyOf(k.fn, k.parent, k.line)
     /\ ClassIn(c, p) = <<k.parent, <<k.fn, k.line>>>>

\* In a compressed graph so has the key of a path's record.
LEMMA ClassIs ==
  ASSUME NEW c, c = TRUE, NEW h, NEW s, Explained(c, h, s),
         NEW p \in Paths, NEW id \in Nat, <<p, id>> \in DOMAIN s
  PROVE  ClassKey(c, p, h.keys[id])
<1> DEFINE k == h.keys[id]
<1>1. CASE p = <<>>
  <2>1. KeyFor(c, h, s, p, k)
    BY DEF Explained
  <2>2. \A q \in Paths, fn \in Nat, line \in Nat : p # Append(q, <<fn, line>>)
    <3> TAKE q \in Paths, fn \in Nat, line \in Nat
    <3>1. <<fn, line>> \in Nat \X Nat
      OBVIOUS
    <3> QED
      BY <1>1, <3>1, PathAppend
  <2> QED
    BY <1>1, <2>1, <2>2 DEF KeyFor, ClassKey
<1>2. CASE p # <<>>
  <2>1. \E q \in Paths, fn \in Nat \ {Root}, line \in Nat, up \in Nat :
           /\ p = Append(q, <<fn, line>>) /\ <<q, up>> \in DOMAIN s /\ up \in DOMAIN h.keys
           /\ h.keys[id] = KeyOf(fn, UpId(c, h, up), line)
    <3>1. KeyFor(c, h, s, p, h.keys[id])
      BY DEF Explained
    <3> HIDE DEF k
    <3> QED
      BY <1>2, <3>1 DEF KeyFor
  <2>2. PICK q \in Paths, fn \in Nat \ {Root}, line \in Nat, up \in Nat :
           /\ p = Append(q, <<fn, line>>) /\ <<q, up>> \in DOMAIN s /\ up \in DOMAIN h.keys
           /\ k = KeyOf(fn, h.keys[up].fn, line)
    BY <2>1 DEF UpId
  <2>3. k.fn = fn /\ k.parent = h.keys[up].fn /\ k.line = line /\ k = KeyOf(k.fn, k.parent, k.line)
    BY <2>2 DEF KeyOf
  <2>4. <<fn, line>> \in Nat \X Nat
    OBVIOUS
  <2>5. /\ Len(p) = Len(q) + 1 /\ Len(q) \in Nat /\ p[Len(q) + 1] = <<fn, line>>
        /\ \A i \in 1 .. Len(q) : p[i] = q[i]
    BY <2>2, <2>4, PathAppend
  <2>6. ClassIn(c, p) = <<IF Len(p) = 1 THEN Root ELSE p[Len(p) - 1][1], <<fn, line>>>>
    BY <1>2, <2>5 DEF ClassIn, Last
  <2>7. CASE q = <<>>
    <3>1. Len(p) = 1
      BY <2>5, <2>7
    <3>2. h.keys[up].fn = Root
      <4>1. KeyFor(c, h, s, q, h.keys[up])
        BY <2>2 DEF Explained
      <4>2. \A r \in Paths, f \in Nat, l \in Nat : q # Append(r, <<f, l>>)
        <5> TAKE r \in Paths, f \in Nat, l \in Nat
        <5>1. <<f, l>> \in Nat \X Nat
          OBVIOUS
        <5>2. Append(r, <<f, l>>) # <<>>
          BY <5>1, PathAppend
        <5> QED
          BY <2>7, <5>2
      <4>3. h.keys[up] = RootKey
        BY <2>7, <4>1, <4>2 DEF KeyFor
      <4> QED
        BY <4>3 DEF RootKey, KeyOf
    <3>3. ClassIn(c, p) = <<Root, <<fn, line>>>>
      BY <2>6, <3>1
    <3> QED
      BY <1>2, <2>2, <2>3, <3>2, <3>3 DEF ClassKey
  <2>8. CASE q # <<>>
    <3>1. \E r \in Paths, f \in Nat \ {Root}, l \in Nat, v \in Nat :
            /\ q = Append(r, <<f, l>>) /\ <<r, v>> \in DOMAIN s /\ v \in DOMAIN h.keys
            /\ h.keys[up] = KeyOf(f, UpId(c, h, v), l)
      <4>1. KeyFor(c, h, s, q, h.keys[up])
        BY <2>2 DEF Explained
      <4> QED
        BY <2>8, <4>1 DEF KeyFor
    <3>2. PICK r \in Paths, f \in Nat \ {Root}, l \in Nat : q = Append(r, <<f, l>>) /\ h.keys[up].fn = f
      BY <3>1 DEF KeyOf
    <3>3. <<f, l>> \in Nat \X Nat
      OBVIOUS
    <3>4. Len(q) = Len(r) + 1 /\ Len(r) \in Nat /\ q[Len(q)] = <<f, l>>
      BY <3>2, <3>3, PathAppend, SMTT(30)
    <3>5. Len(p) # 1 /\ Len(p) - 1 = Len(q) /\ p[Len(q)] = q[Len(q)]
      BY <2>5, <3>4
    <3>6. p[Len(p) - 1][1] = f
      BY <3>4, <3>5
    <3>7. ClassIn(c, p) = <<f, <<fn, line>>>>
      BY <2>6, <3>5, <3>6
    <3> QED
      BY <1>2, <2>2, <2>3, <3>2, <3>7 DEF ClassKey
  <2> QED
    BY <2>7, <2>8
<1> QED
  BY <1>1, <1>2

\* Every path has a record of its own, no other path's.
Own(s) ==
  \A n \in Nat : \A p, q \in Paths, id, other \in Nat :
    <<p, id>> \in DOMAIN s /\ <<q, other>> \in DOMAIN s /\ Len(p) <= n => (id = other <=> p = q)

\* So it has in a graph that is not compressed, by induction over the paths'
\* lengths.
LEMMA OwnRecords ==
  ASSUME NEW c, c = FALSE, NEW h, Good(h), NEW s, Explained(c, h, s)
  PROVE  Own(s)
<1> DEFINE OwnTo(n) == \A p, q \in Paths, id, other \in Nat :
                         <<p, id>> \in DOMAIN s /\ <<q, other>> \in DOMAIN s /\ Len(p) <= n
                         => (id = other <=> p = q)
           A == {n \in Nat : OwnTo(n)}
<1>0. \A fn, line \in Nat : <<fn, line>> \in Nat \X Nat
  OBVIOUS
<1>1. \A id \in Nat : <<<<>>, id>> \in DOMAIN s => h.keys[id] = RootKey
  <2> TAKE id \in Nat
  <2> HAVE <<<<>>, id>> \in DOMAIN s
  <2>1. <<>> \in Paths
    BY EmptySeq DEF Paths
  <2>2. KeyFor(c, h, s, <<>>, h.keys[id])
    BY <2>1 DEF Explained
  <2>3. \A q \in Paths, fn \in Nat, line \in Nat : <<>> # Append(q, <<fn, line>>)
    BY <1>0, PathAppend
  <2> QED
    BY <2>2, <2>3 DEF KeyFor
<1>2. \A p \in Paths, id \in Nat : <<p, id>> \in DOMAIN s /\ p # <<>> =>
        \E q \in Paths, fn \in Nat \ {Root}, line \in Nat, up \in Nat :
           /\ p = Append(q, <<fn, line>>) /\ <<q, up>> \in DOMAIN s
           /\ h.keys[id] = KeyOf(fn, up, line)
  <2> TAKE p \in Paths, id \in Nat
  <2> HAVE <<p, id>> \in DOMAIN s /\ p # <<>>
  <2>1. \E q \in Paths, fn \in Nat \ {Root}, line \in Nat, up \in Nat :
           /\ p = Append(q, <<fn, line>>) /\ <<q, up>> \in DOMAIN s /\ up \in DOMAIN h.keys
           /\ h.keys[id] = KeyOf(fn, UpId(c, h, up), line)
    <3>1. KeyFor(c, h, s, p, h.keys[id])
      BY DEF Explained
    <3> QED
      BY <3>1 DEF KeyFor
  <2> QED
    BY <2>1 DEF UpId
<1>3. \A p \in Paths, id \in Nat : <<p, id>> \in DOMAIN s => id \in DOMAIN h.keys
  BY DEF Explained
<1>4. \A id, other \in DOMAIN h.keys : h.keys[id] = h.keys[other] => id = other
  BY DEF Good, OneRecord
<1>5. ASSUME NEW p \in Paths, NEW q \in Paths, NEW id \in Nat, NEW other \in Nat,
             <<p, id>> \in DOMAIN s, <<q, other>> \in DOMAIN s, p = <<>> \/ q = <<>>
      PROVE  id = other <=> p = q
  <2>0. \A r \in Paths, i \in Nat : <<r, i>> \in DOMAIN s => (r = <<>> <=> h.keys[i].fn = Root)
    <3> TAKE r \in Paths, i \in Nat
    <3> HAVE <<r, i>> \in DOMAIN s
    <3>1. CASE r = <<>>
      <4>1. h.keys[i] = RootKey
        BY <1>1, <3>1
      <4> QED
        BY <3>1, <4>1 DEF RootKey, KeyOf
    <3>2. CASE r # <<>>
      <4>1. PICK q1 \in Paths, fn \in Nat \ {Root}, line \in Nat, up \in Nat :
              /\ r = Append(q1, <<fn, line>>) /\ <<q1, up>> \in DOMAIN s
              /\ h.keys[i] = KeyOf(fn, up, line)
        BY <1>2, <3>2
      <4> QED
        BY <3>2, <4>1 DEF KeyOf
    <3> QED
      BY <3>1, <3>2
  <2>1. p = <<>> <=> h.keys[id].fn = Root
    BY <1>5, <2>0
  <2>2. q = <<>> <=> h.keys[other].fn = Root
    BY <1>5, <2>0
  <2>3. id = other => p = q
    BY <1>5, <2>1, <2>2
  <2>4. p = q => id = other
    BY <1>1, <1>3, <1>4, <1>5
  <2> QED
    BY <2>3, <2>4
<1>6. ASSUME NEW n \in Nat, n \in A PROVE n + 1 \in A
  <2> SUFFICES ASSUME NEW p \in Paths, NEW q \in Paths, NEW id \in Nat, NEW other \in Nat,
                      <<p, id>> \in DOMAIN s, <<q, other>> \in DOMAIN s, Len(p) <= n + 1,
                      p # <<>>, q # <<>>
               PROVE  id = other <=> p = q
    BY <1>5
  <2>1. PICK p1 \in Paths, fn \in Nat \ {Root}, line \in Nat, up \in Nat :
           /\ p = Append(p1, <<fn, line>>) /\ <<p1, up>> \in DOMAIN s
           /\ h.keys[id] = KeyOf(fn, up, line)
    BY <1>2
  <2>2. PICK q1 \in Paths, fn2 \in Nat \ {Root}, line2 \in Nat, up2 \in Nat :
           /\ q = Append(q1, <<fn2, line2>>) /\ <<q1, up2>> \in DOMAIN s
           /\ h.keys[other] = KeyOf(fn2, up2, line2)
    BY <1>2
  <2>3. <<fn, line>> \in Nat \X Nat /\ <<fn2, line2>> \in Nat \X Nat
    OBVIOUS
  <2>4. Len(p1) <= n
    <3>1. Len(p) = Len(p1) + 1 /\ Len(p1) \in Nat
      BY <2>1, <2>3, PathAppend
    <3> QED
      BY <3>1
  <2>5. up = up2 <=> p1 = q1
    BY <1>6, <2>1, <2>2, <2>4
  <2>6. p = q <=> p1 = q1 /\ <<fn, line>> = <<fn2, line2>>
    <3> DEFINE e == <<fn, line>>
               e2 == <<fn2, line2>>
    <3>1. e \in Nat \X Nat /\ e2 \in Nat \X Nat /\ p = Append(p1, e) /\ q = Append(q1, e2)
      BY <2>1, <2>2, <2>3
    <3> HIDE DEF e, e2
    <3>2. Append(p1, e) = Append(q1, e2) => p1 = q1 /\ e = e2
      BY <3>1, PathAppend
    <3>3. p = q <=> p1 = q1 /\ e = e2
      BY <3>1, <3>2
    <3> QED
      BY <3>3 DEF e, e2
  <2>7. id = other <=> h.keys[id] = h.keys[other]
    BY <1>3, <1>4
  <2>8. h.keys[id] = h.keys[other] <=> fn = fn2 /\ up = up2 /\ line = line2
    BY <2>1, <2>2 DEF KeyOf
  <2>9. <<fn, line>> = <<fn2, line2>> <=> fn = fn2 /\ line = line2
    OBVIOUS
  <2> QED
    BY <2>5, <2>6, <2>7, <2>8, <2>9
<1>7. 0 \in A
  <2>1. \A p \in Paths : Len(p) <= 0 => p = <<>>
    <3> TAKE p \in Paths
    <3>1. p # <<>> => Len(p) \in Nat \ {0}
      BY EmptySeq DEF Paths
    <3> QED
      BY <3>1
  <2> QED
    BY <1>5, <2>1
<1>8. \A n \in Nat : n \in A
  <2> HIDE DEF A
  <2> QED
    BY <1>6, <1>7, InductionOnNat
<1> QED
  BY <1>8 DEF Own

\* Paths share a record if they are of one class, and then only.
LEMMA SharedIs ==
  ASSUME NEW c \in BOOLEAN, NEW h, Good(h), NEW s, Explained(c, h, s)
  PROVE  SharedIn(c, s)
<1>0. DOMAIN s \subseteq Paths \X Nat /\ \A p \in Paths, id \in Nat : <<p, id>> \in DOMAIN s => id \in DOMAIN h.keys
  BY DEF Explained
<1>1. SUFFICES ASSUME NEW p \in Paths, NEW q \in Paths, NEW id \in Nat, NEW other \in Nat,
                      <<p, id>> \in DOMAIN s, <<q, other>> \in DOMAIN s
               PROVE  id = other <=> ClassIn(c, p) = ClassIn(c, q)
  <2>1. \A a \in DOMAIN s : a[1] \in Paths /\ a[2] \in Nat /\ <<a[1], a[2]>> = a
    BY <1>0
  <2> QED
    BY <2>1 DEF SharedIn
<1>2. CASE c = FALSE
  <2>1. Len(p) \in Nat
    BY LenProperties DEF Paths
  <2>2. id = other <=> p = q
    <3>1. Own(s)
      BY <1>2, OwnRecords
    <3>2. Len(p) <= Len(p)
      BY <2>1
    <3> QED
      BY <1>1, <2>1, <3>1, <3>2 DEF Own
  <2> QED
    BY <1>2, <2>2 DEF ClassIn
<1>3. CASE c = TRUE
  <2> DEFINE k == h.keys[id]
             l == h.keys[other]
  <2>1. ClassKey(c, p, k)
    BY <1>1, <1>3, ClassIs
  <2>2. ClassKey(c, q, l)
    BY <1>1, <1>3, ClassIs
  <2>3. id = other <=> k = l
    BY <1>0, <1>1 DEF Good, OneRecord
  <2> HIDE DEF k, l
  <2>4. ClassIn(c, <<>>) = <<>> /\ RootKey.fn = Root
    BY DEF ClassIn, RootKey, KeyOf
  <2>5. k = l <=> ClassIn(c, p) = ClassIn(c, q)
    <3>1. CASE p = <<>> /\ q = <<>>
      BY <2>1, <2>2, <3>1 DEF ClassKey
    <3>2. CASE p = <<>> /\ q # <<>>
      <4>1. k # l
        BY <2>1, <2>2, <2>4, <3>2 DEF ClassKey
      <4>2. <<l.parent, <<l.fn, l.line>>>> # <<>>
        OBVIOUS
      <4> QED
        BY <2>2, <2>4, <3>2, <4>1, <4>2 DEF ClassKey
    <3>3. CASE p # <<>> /\ q = <<>>
      <4>1. k # l
        BY <2>1, <2>2, <2>4, <3>3 DEF ClassKey
      <4>2. <<k.parent, <<k.fn, k.line>>>> # <<>>
        OBVIOUS
      <4> QED
        BY <2>1, <2>4, <3>3, <4>1, <4>2 DEF ClassKey
    <3>4. CASE p # <<>> /\ q # <<>>
      <4>1. /\ k = KeyOf(k.fn, k.parent, k.line) /\ l = KeyOf(l.fn, l.parent, l.line)
            /\ ClassIn(c, p) = <<k.parent, <<k.fn, k.line>>>>
            /\ ClassIn(c, q) = <<l.parent, <<l.fn, l.line>>>>
        BY <2>1, <2>2, <3>4 DEF ClassKey
      <4>2. k = l => ClassIn(c, p) = ClassIn(c, q)
        BY <4>1
      <4>3. ASSUME ClassIn(c, p) = ClassIn(c, q) PROVE k = l
        <5>1. <<k.parent, <<k.fn, k.line>>>> = <<l.parent, <<l.fn, l.line>>>>
          BY <4>1, <4>3
        <5>2. k.parent = l.parent /\ k.fn = l.fn /\ k.line = l.line
          BY <5>1
        <5> QED
          BY <4>1, <5>2
      <4> QED
        BY <4>2, <4>3
    <3> QED
      BY <3>1, <3>2, <3>3, <3>4
  <2> QED
    BY <1>3, <2>3, <2>5
<1> QED
  BY <1>2, <1>3
-----------------------------------------------------------------------------
(* Reports *)

\* s has the members of S, each once.
Lists(s, S) ==
  /\ s \in Seq(Nat)
  /\ \A i \in 1 .. Len(s) : s[i] \in S
  /\ \A id \in S : \E i \in 1 .. Len(s) : s[i] = id
  /\ \A i, j \in 1 .. Len(s) : s[i] = s[j] => i = j

\* Two lists of different members are one.
LEMMA ListsConcat ==
  ASSUME NEW p, NEW S, Lists(p, S), NEW q, NEW T, Lists(q, T), S \cap T = {}
  PROVE  Lists(p \o q, S \cup T)
<1> DEFINE m == Len(p)
           n == Len(q)
           s == p \o q
<1>1. m \in Nat /\ n \in Nat
  BY LenProperties DEF Lists
<1>2. /\ s \in Seq(Nat) /\ Len(s) = m + n
      /\ \A i \in 1 .. m + n : s[i] = IF i <= m THEN p[i] ELSE q[i - m]
  BY ConcatProperties DEF Lists
<1> HIDE DEF m, n, s
<1>3. \A i \in 1 .. m : p[i] \in S
  BY DEF Lists, m
<1>4. \A i \in 1 .. n : q[i] \in T
  BY DEF Lists, n
<1>5. \A i \in 1 .. m + n : /\ i <= m => i \in 1 .. m /\ s[i] = p[i] /\ s[i] \in S
                            /\ ~(i <= m) => i - m \in 1 .. n /\ s[i] = q[i - m] /\ s[i] \in T
  <2> TAKE i \in 1 .. m + n
  <2>1. i <= m => i \in 1 .. m
    BY <1>1
  <2>2. ~(i <= m) => i - m \in 1 .. n
    BY <1>1
  <2> QED
    BY <1>2, <1>3, <1>4, <2>1, <2>2
<1>6. \A id \in S \cup T : \E i \in 1 .. m + n : s[i] = id
  <2>1. ASSUME NEW id \in S PROVE \E i \in 1 .. m + n : s[i] = id
    <3>1. PICK i \in 1 .. m : p[i] = id
      BY DEF Lists, m
    <3>2. i \in 1 .. m + n /\ s[i] = p[i]
      BY <1>1, <1>2
    <3> QED
      BY <3>1, <3>2
  <2>2. ASSUME NEW id \in T PROVE \E i \in 1 .. m + n : s[i] = id
    <3>1. PICK i \in 1 .. n : q[i] = id
      BY DEF Lists, n
    <3>2. m + i \in 1 .. m + n /\ ~(m + i <= m) /\ (m + i) - m = i
      BY <1>1
    <3>3. s[m + i] = q[i]
      BY <1>2, <3>2
    <3> QED
      BY <3>1, <3>2, <3>3
  <2> QED
    BY <2>1, <2>2
<1>7. ASSUME NEW i \in 1 .. m + n, NEW j \in 1 .. m + n, s[i] = s[j] PROVE i = j
  <2>1. i \in Int /\ j \in Int
    BY <1>1
  <2>2. CASE i <= m /\ j <= m
    <3>1. p[i] = p[j] /\ i \in 1 .. m /\ j \in 1 .. m
      BY <1>5, <1>7, <2>2
    <3> QED
      BY <3>1 DEF Lists, m
  <2>3. CASE ~(i <= m) /\ ~(j <= m)
    <3>1. q[i - m] = q[j - m] /\ i - m \in 1 .. n /\ j - m \in 1 .. n
      BY <1>5, <1>7, <2>3
    <3>2. i - m = j - m
      BY <3>1 DEF Lists, n
    <3> QED
      BY <1>1, <2>1, <3>2
  <2>4. CASE i <= m <=> ~(j <= m)
    <3>1. s[i] \in S \cap T
      BY <1>5, <1>7, <2>4
    <3> QED
      BY <3>1
  <2> QED
    BY <2>2, <2>3, <2>4
<1>8. \A i \in 1 .. m + n : s[i] \in S \cup T
  BY <1>5
<1> QED
  BY <1>2, <1>6, <1>7, <1>8 DEF Lists, s

\* u has what FlattenSeq makes of the first of some sequences.
Flattens(u, seqs) ==
  /\ \A i \in 1 .. Len(seqs) : u[i] = IF i = 1 THEN seqs[i] ELSE u[i - 1] \o seqs[i]
  /\ FlattenSeq(seqs) = u[Len(seqs)]

\* There is such a function.
LEMMA FlattensExists ==
  ASSUME NEW seqs, Len(seqs) \in Nat \ {0}
  PROVE  \E u : Flattens(u, seqs)
<1> DEFINE Joined(u, i) == IF i = 1 THEN seqs[i] ELSE u[i - 1] \o seqs[i]
           A == {m \in Nat : \E u : u = [i \in 1 .. m |-> Joined(u, i)]}
           w == CHOOSE u : u = [i \in 1 .. Len(seqs) |-> Joined(u, i)]
<1>1. 0 \in A
  <2>1. \A u : [i \in 1 .. 0 |-> 0] = [i \in 1 .. 0 |-> Joined(u, i)]
    OBVIOUS
  <2>2. \E u : u = [i \in 1 .. 0 |-> Joined(u, i)]
    BY <2>1
  <2> QED
    BY <2>2
<1>2. ASSUME NEW m \in Nat, m \in A PROVE m + 1 \in A
  <2>1. PICK u : u = [i \in 1 .. m |-> Joined(u, i)]
    BY <1>2
  <2> DEFINE v == [i \in 1 .. m + 1 |-> IF i = m + 1 THEN Joined(u, i) ELSE u[i]]
  <2>2. \A i \in 1 .. m + 1 : v[i] = Joined(v, i)
    <3> TAKE i \in 1 .. m + 1
    <3>1. i # 1 => i - 1 \in 1 .. m /\ v[i - 1] = u[i - 1]
      OBVIOUS
    <3>2. Joined(v, i) = Joined(u, i)
      BY <3>1
    <3>3. i # m + 1 => i \in 1 .. m
      OBVIOUS
    <3>4. \A k \in 1 .. m : u[k] = Joined(u, k)
      <4> HIDE DEF Joined
      <4> QED
        BY <2>1
    <3> HIDE DEF Joined
    <3> QED
      BY <3>2, <3>3, <3>4
  <2>3. v = [i \in 1 .. m + 1 |-> Joined(v, i)]
    <3>1. v = [i \in 1 .. m + 1 |-> v[i]]
      OBVIOUS
    <3> HIDE DEF v, Joined
    <3> QED
      BY <2>2, <3>1
  <2> HIDE DEF v, Joined
  <2> QED
    BY <2>3
<1>3. Len(seqs) \in A
  <2> HIDE DEF A
  <2> QED
    BY <1>1, <1>2, InductionOnNat
<1>4. w = [i \in 1 .. Len(seqs) |-> Joined(w, i)]
  BY <1>3
<1>5. FlattenSeq(seqs) = w[Len(seqs)]
  BY DEF FlattenSeq
<1>6. \A i \in 1 .. Len(seqs) : w[i] = Joined(w, i)
  <2> HIDE DEF Joined, w
  <2> QED
    BY <1>4
<1> HIDE DEF w
<1> QED
  BY <1>5, <1>6 DEF Flattens

\* What several lists have.
AmongFirst(sets, n) == {id \in Nat : \E b \in 1 .. n : id \in sets[b]}

\* Lists of different members, one after another, are a list of all of them.
LEMMA FlattenLists ==
  ASSUME NEW seqs, NEW n \in Nat \ {0}, Len(seqs) = n, NEW sets,
         \A b \in 1 .. n : Lists(seqs[b], sets[b]) /\ sets[b] \subseteq Nat,
         \A b, d \in 1 .. n : b # d => sets[b] \cap sets[d] = {}
  PROVE  Lists(FlattenSeq(seqs), AmongFirst(sets, n))
<1>1. PICK u : Flattens(u, seqs)
  BY FlattensExists
<1> DEFINE A == {m \in Nat : m + 1 <= n => Lists(u[m + 1], AmongFirst(sets, m + 1))}
<1>2. 0 \in A
  <2>1. u[1] = seqs[1] /\ 1 \in 1 .. n
    BY <1>1 DEF Flattens
  <2>2. AmongFirst(sets, 1) = sets[1]
    BY <2>1 DEF AmongFirst
  <2> QED
    BY <2>1, <2>2
<1>3. ASSUME NEW m \in Nat, m \in A PROVE m + 1 \in A
  <2> SUFFICES ASSUME (m + 1) + 1 <= n
               PROVE  Lists(u[(m + 1) + 1], AmongFirst(sets, (m + 1) + 1))
    OBVIOUS
  <2> DEFINE l == m + 1
             k == (m + 1) + 1
  <2>1. l \in 1 .. n /\ k \in 1 .. n /\ k # 1 /\ k - 1 = l /\ k \notin 1 .. l
        /\ \A b \in 1 .. l : b \in 1 .. n /\ b # k
    OBVIOUS
  <2>2. Lists(u[l], AmongFirst(sets, l))
    BY <1>3
  <2>3. \A b : b \in 1 .. k <=> b \in 1 .. l \/ b = k
    OBVIOUS
  <2> HIDE DEF l, k
  <2>4. u[k] = u[l] \o seqs[k]
    BY <1>1, <2>1 DEF Flattens
  <2>5. AmongFirst(sets, l) \cap sets[k] = {}
    BY <2>1 DEF AmongFirst
  <2>6. AmongFirst(sets, k) = AmongFirst(sets, l) \cup sets[k]
    BY <2>1, <2>3 DEF AmongFirst
  <2>7. Lists(seqs[k], sets[k])
    BY <2>1
  <2>8. Lists(u[k], AmongFirst(sets, k))
    BY <2>2, <2>4, <2>5, <2>6, <2>7, ListsConcat
  <2> QED
    BY <2>8 DEF k
<1>4. n - 1 \in Nat /\ (n - 1) + 1 = n
  OBVIOUS
<1>5. n - 1 \in A
  <2> HIDE DEF A
  <2> QED
    BY <1>2, <1>3, <1>4, InductionOnNat
<1>6. Lists(u[n], AmongFirst(sets, n))
  BY <1>4, <1>5
<1> QED
  BY <1>1, <1>6 DEF Flattens

\* lmprof_hash_report comes to every record of the hash once.
LEMMA OrderLists ==
  ASSUME NEW h, Good(h)
  PROVE  Lists(FlattenSeq([b \in 1 .. BucketCount |-> h.chains[b - 1]]), DOMAIN h.keys)
<1> DEFINE seqs == [b \in 1 .. BucketCount |-> h.chains[b - 1]]
           sets == [b \in 1 .. BucketCount |-> {id \in DOMAIN h.keys : BucketOf(h.keys[id]) = b - 1}]
           n == BucketCount
<1>1. n \in Nat \ {0} /\ \A b \in 1 .. n : b - 1 \in Buckets
  BY RecordHashAssumption DEF Buckets
<1>2. /\ h.chains \in [Buckets -> Seq(Nat)] /\ DOMAIN h.keys \subseteq Nat
      /\ h.keys \in [DOMAIN h.keys -> Key]
  BY DEF Good, Typed
<1>3. \A id \in DOMAIN h.keys : BucketOf(h.keys[id]) \in Buckets
  BY <1>2, RecordHashAssumption
<1>4. seqs \in Seq(Seq(Nat)) /\ Len(seqs) = n
  <2>1. seqs \in [1 .. n -> Seq(Nat)]
    BY <1>1, <1>2
  <2> HIDE DEF seqs, n
  <2>2. seqs \in Seq(Seq(Nat))
    BY <1>1, <2>1, SeqDef
  <2>3. DOMAIN seqs = 1 .. n /\ DOMAIN seqs = 1 .. Len(seqs) /\ Len(seqs) \in Nat
    BY <2>1, <2>2, LenProperties
  <2> QED
    BY <1>1, <2>2, <2>3
<1>5. ASSUME NEW b \in 1 .. n PROVE Lists(seqs[b], sets[b]) /\ sets[b] \subseteq Nat
  <2> DEFINE d == b - 1
             s == h.chains[d]
             S == {id \in DOMAIN h.keys : BucketOf(h.keys[id]) = d}
  <2>1. d \in Buckets /\ s \in Seq(Nat) /\ DOMAIN s = 1 .. Len(s)
    <3>1. d \in Buckets /\ s \in Seq(Nat)
      BY <1>1, <1>2
    <3> QED
      BY <3>1, LenProperties
  <2>2. seqs[b] = s /\ sets[b] = S
    OBVIOUS
  <2> HIDE DEF d
  <2>3. \A i \in 1 .. Len(s) : s[i] \in S
    BY <2>1 DEF Good, InBuckets
  <2>4. \A i, j \in 1 .. Len(s) : s[i] = s[j] => i = j
    BY <2>1 DEF Good, InBuckets
  <2>5. \A id \in S : \E i \in 1 .. Len(s) : s[i] = id
    BY <2>1 DEF Good, InChains, Chain
  <2> HIDE DEF s, S
  <2>6. Lists(s, S)
    BY <2>1, <2>3, <2>4, <2>5 DEF Lists
  <2>7. S \subseteq Nat
    BY <1>2 DEF S
  <2> HIDE DEF seqs, sets
  <2> QED
    BY <2>2, <2>6, <2>7
<1>6. \A b, d \in 1 .. n : b # d => sets[b] \cap sets[d] = {}
  BY <1>1
<1>7. AmongFirst(sets, n) = DOMAIN h.keys
  <2>1. \A id \in DOMAIN h.keys : \E b \in 1 .. n : id \in sets[b]
    <3> TAKE id \in DOMAIN h.keys
    <3>1. PICK d \in Buckets : BucketOf(h.keys[id]) = d
      BY <1>3
    <3>2. d + 1 \in 1 .. n /\ (d + 1) - 1 = d
      BY <1>1 DEF Buckets
    <3>3. id \in sets[d + 1]
      BY <3>1, <3>2
    <3> HIDE DEF sets
    <3> QED
      BY <3>2, <3>3
  <2>2. \A b \in 1 .. n : sets[b] \subseteq DOMAIN h.keys
    OBVIOUS
  <2> HIDE DEF sets, n
  <2> QED
    BY <1>2, <2>1, <2>2 DEF AmongFirst
<1> HIDE DEF sets, n
<1>8. Lists(FlattenSeq(seqs), AmongFirst(sets, n))
  <2> HIDE DEF seqs
  <2> QED
    BY <1>1, <1>4, <1>5, <1>6, FlattenLists
<1> QED
  BY <1>7, <1>8 DEF n

\* report has every record that was used, once, with all that it has counted.
ReportIn(samples, s, counts, rows) ==
  /\ \A a \in DOMAIN s : Cardinality({i \in DOMAIN rows : rows[i].id = a[2]}) = 1
  /\ \A i \in DOMAIN rows :
       /\ rows[i].id \in DOMAIN counts
       /\ rows[i].count - TotalIn(s, rows[i].id) \in IF samples THEN 0 .. 1 ELSE {0}

\* Stacks are popped before the records are reported.
LEMMA ReportedIs ==
  ASSUME NEW c, NEW r, Sound(c, r), NEW samples \in BOOLEAN, CountsIn(samples, r),
         samples => r.stack = [t \in Threads |-> <<>>]
  PROVE  LET w == PoppedAll(r)
         IN  ReportIn(samples, w.seen, w.count, Reported(w.hash, w.count))
<1> DEFINE w == PoppedAll(r)
           counts == [id \in DOMAIN r.count |-> r.count[id] + Open(r.stack, id)]
           order == FlattenSeq([b \in 1 .. BucketCount |-> r.hash.chains[b - 1]])
           rows == Reported(r.hash, counts)
<1>1. w.hash = r.hash /\ w.seen = r.seen /\ w.count = counts
  <2>1. r = [hash |-> r.hash, stack |-> r.stack, count |-> r.count, seen |-> r.seen]
    BY DEF Sound
  <2> QED
    BY <2>1 DEF PoppedAll
<1>2. /\ Good(r.hash) /\ Explained(c, r.hash, r.seen) /\ DOMAIN r.count = DOMAIN r.hash.keys
      /\ DOMAIN r.hash.keys \subseteq Nat /\ Tallies(r)
  BY DEF Sound, Good, Typed, CountsIn, Balanced, SampleBalanced
<1>3. Lists(order, DOMAIN r.hash.keys)
  BY <1>2, OrderLists
<1>4. rows = [i \in DOMAIN order |-> Row(r.hash, counts, order[i])]
  BY DEF Reported
<1>5. DOMAIN order = 1 .. Len(order)
  BY <1>3, LenProperties DEF Lists
<1> HIDE DEF w, counts, order, rows
<1>6. /\ DOMAIN rows = 1 .. Len(order)
      /\ \A i \in 1 .. Len(order) : rows[i].id = order[i] /\ rows[i].count = counts[order[i]]
  BY <1>4, <1>5 DEF Row
<1>7. ASSUME NEW a \in DOMAIN r.seen
      PROVE  Cardinality({i \in DOMAIN rows : rows[i].id = a[2]}) = 1
  <2>1. a \in Paths \X Nat
    BY <1>2 DEF Explained
  <2>2. PICK p \in Paths, id \in Nat : a = <<p, id>>
    BY <2>1
  <2>3. id \in DOMAIN r.hash.keys /\ a[2] = id
    BY <1>2, <2>2 DEF Explained
  <2>4. PICK k \in 1 .. Len(order) : order[k] = id
    BY <1>3, <2>3 DEF Lists
  <2>5. \A i \in 1 .. Len(order) : order[i] = id => i = k
    BY <1>3, <2>4 DEF Lists
  <2>6. {i \in DOMAIN rows : rows[i].id = a[2]} = {k}
    BY <1>6, <2>3, <2>4, <2>5
  <2> QED
    BY <2>6, FS_Singleton
<1>8. ASSUME NEW i \in DOMAIN rows
      PROVE  /\ rows[i].id \in DOMAIN counts
             /\ rows[i].count - TotalIn(r.seen, rows[i].id) \in IF samples THEN 0 .. 1 ELSE {0}
  <2>1. order[i] \in DOMAIN r.count
    BY <1>2, <1>3, <1>6 DEF Lists
  <2>2. PICK id \in DOMAIN r.count : id = order[i]
    BY <2>1
  <2>3. rows[i].id = id /\ id \in DOMAIN counts /\ rows[i].count = r.count[id] + Open(r.stack, id)
    BY <1>6, <2>2 DEF counts
  <2>4. id \in Nat /\ r.count[id] \in Nat
    BY <1>2 DEF Tallies
  <2>5. TotalIn(r.seen, id) \in Int
    <3>1. IsFiniteSet(DOMAIN r.seen) /\ (\A a \in DOMAIN r.seen : r.seen[a] \in Nat) /\ 0 \in Nat
      BY <1>2 DEF Tallies
    <3> QED
      BY <3>1, TotalNoted
  <2>6. CASE samples
    <3>1. r.count[id] \in {TotalIn(r.seen, id), TotalIn(r.seen, id) + 1}
      BY <2>6 DEF CountsIn, SampleBalanced
    <3>2. Open(r.stack, id) = 0
      BY <2>6, OpenNone
    <3>3. rows[i].count - TotalIn(r.seen, id) \in 0 .. 1
      BY <2>3, <2>4, <2>5, <3>1, <3>2
    <3> QED
      BY <2>3, <2>6, <3>3
  <2>7. CASE ~samples
    <3>1. r.count[id] + Open(r.stack, id) = TotalIn(r.seen, id)
      <4>1. Counted(r.count, id) + Open(r.stack, id) = TotalIn(r.seen, id)
        BY <2>4, <2>7 DEF CountsIn, Balanced
      <4> QED
        BY <4>1 DEF Counted
    <3>2. rows[i].count - TotalIn(r.seen, id) = 0
      BY <2>3, <2>5, <3>1
    <3> QED
      BY <2>3, <2>7, <3>2
  <2> QED
    BY <2>6, <2>7
<1>9. ReportIn(samples, r.seen, counts, rows)
  BY <1>7, <1>8 DEF ReportIn
<1> QED
  BY <1>1, <1>9 DEF w, rows

\* Connected, of any report.
ConnectedIn(compress, rows) ==
  LET name(q) == IF compress THEN q.func ELSE q.id
      names == {name(q) : q \in Range(rows)}
  IN  \A reached \in SUBSET names :
        (\A q \in Range(rows) : q.func = Root \/ q.parent \in reached => name(q) \in reached)
        => reached = names

\* An empty report is.
LEMMA NothingConnected == \A c : ConnectedIn(c, <<>>)
<1>1. Range(<<>>) = {}
  BY DEF Range
<1> QED
  BY <1>1 DEF ConnectedIn

\* Every record has been followed to, by a path that is reached before it.
LEMMA ReportedConnected ==
  ASSUME NEW c \in BOOLEAN, NEW r, Sound(c, r), NEW counts
  PROVE  ConnectedIn(c, Reported(r.hash, counts))
<1> DEFINE h == r.hash
           s == r.seen
           rows == Reported(h, counts)
           row(id) == Row(h, counts, id)
           name(q) == IF c THEN q.func ELSE q.id
           names == {name(q) : q \in Range(rows)}
<1>1. /\ Good(h) /\ Explained(c, h, s) /\ Followed(h, s) /\ DOMAIN h.keys \subseteq Nat
  BY DEF Sound, Good, Typed
<1>2. Range(rows) = {row(id) : id \in DOMAIN h.keys}
  <2> DEFINE order == FlattenSeq([b \in 1 .. BucketCount |-> h.chains[b - 1]])
  <2>1. Lists(order, DOMAIN h.keys)
    BY <1>1, OrderLists
  <2>2. rows = [i \in DOMAIN order |-> row(order[i])]
    BY DEF Reported
  <2>3. DOMAIN order = 1 .. Len(order)
    BY <2>1, LenProperties DEF Lists
  <2> HIDE DEF order, rows, row
  <2>4. \A q : q \in Range(rows) <=> \E i \in 1 .. Len(order) : q = row(order[i])
    BY <2>2, <2>3 DEF Range
  <2>5. \A i \in 1 .. Len(order) : order[i] \in DOMAIN h.keys
    BY <2>1 DEF Lists
  <2>6. \A id \in DOMAIN h.keys : \E i \in 1 .. Len(order) : order[i] = id
    BY <2>1 DEF Lists
  <2> QED
    BY <2>4, <2>5, <2>6
<1>3. \A id : /\ row(id).func = h.keys[id].fn /\ row(id).parent = h.keys[id].parent
              /\ name(row(id)) = UpId(c, h, id)
  BY DEF Row, UpId
<1> HIDE DEF rows, row, name, h, s
<1>4. ASSUME NEW reached \in SUBSET names,
             \A q \in Range(rows) : q.func = Root \/ q.parent \in reached => name(q) \in reached
      PROVE  reached = names
  <2>1. \A id \in DOMAIN h.keys : h.keys[id].fn = Root \/ h.keys[id].parent \in reached
                                  => UpId(c, h, id) \in reached
    BY <1>2, <1>3, <1>4
  <2> DEFINE A == {n \in Nat : \A p \in Paths, id \in Nat :
                     <<p, id>> \in DOMAIN s /\ Len(p) = n => UpId(c, h, id) \in reached}
  <2>2. \A p \in Paths, id \in Nat : <<p, id>> \in DOMAIN s =>
          id \in DOMAIN h.keys /\ KeyFor(c, h, s, p, h.keys[id])
    BY <1>1 DEF Explained
  <2>3. 0 \in A
    <3> SUFFICES ASSUME NEW p \in Paths, NEW id \in Nat, <<p, id>> \in DOMAIN s, Len(p) = 0
                 PROVE  UpId(c, h, id) \in reached
      OBVIOUS
    <3>1. ASSUME NEW q \in Paths, NEW fn \in Nat, NEW line \in Nat PROVE p # Append(q, <<fn, line>>)
      <4>1. <<fn, line>> \in Nat \X Nat
        OBVIOUS
      <4>2. Len(Append(q, <<fn, line>>)) = Len(q) + 1 /\ Len(q) \in Nat
        BY <4>1, PathAppend
      <4> QED
        BY <4>2
    <3>2. id \in DOMAIN h.keys /\ KeyFor(c, h, s, p, h.keys[id])
      BY <2>2
    <3>3. h.keys[id] = RootKey
      BY <3>1, <3>2 DEF KeyFor
    <3>4. h.keys[id].fn = Root
      BY <3>3 DEF RootKey, KeyOf
    <3> QED
      BY <2>1, <3>2, <3>4
  <2>4. ASSUME NEW n \in Nat, n \in A PROVE n + 1 \in A
    <3> SUFFICES ASSUME NEW p \in Paths, NEW id \in Nat, <<p, id>> \in DOMAIN s, Len(p) = n + 1
                 PROVE  UpId(c, h, id) \in reached
      OBVIOUS
    <3>1. id \in DOMAIN h.keys /\ KeyFor(c, h, s, p, h.keys[id])
      BY <2>2
    <3>2. p # <<>>
      OBVIOUS
    <3>3. PICK q \in Paths, fn \in Nat \ {Root}, line \in Nat, up \in Nat :
            /\ p = Append(q, <<fn, line>>) /\ <<q, up>> \in DOMAIN s /\ up \in DOMAIN h.keys
            /\ h.keys[id] = KeyOf(fn, UpId(c, h, up), line)
      BY <3>1, <3>2 DEF KeyFor
    <3>4. Len(q) = n
      <4>1. <<fn, line>> \in Nat \X Nat
        OBVIOUS
      <4>2. Len(p) = Len(q) + 1 /\ Len(q) \in Nat
        BY <3>3, <4>1, PathAppend
      <4> QED
        BY <4>2
    <3>5. UpId(c, h, up) \in reached
      BY <2>4, <3>3, <3>4
    <3>6. h.keys[id].parent = UpId(c, h, up)
      BY <3>3 DEF KeyOf
    <3> QED
      BY <2>1, <3>1, <3>5, <3>6
  <2>5. \A n \in Nat : n \in A
    <3> HIDE DEF A
    <3> QED
      BY <2>3, <2>4, InductionOnNat
  <2>6. ASSUME NEW id \in DOMAIN h.keys PROVE UpId(c, h, id) \in reached
    <3>1. PICK p \in Paths : <<p, id>> \in DOMAIN s
      BY <1>1 DEF Followed
    <3>2. Len(p) \in Nat /\ id \in Nat
      BY <1>1, LenProperties DEF Paths
    <3> QED
      BY <2>5, <3>1, <3>2
  <2>7. names \subseteq reached
    BY <1>2, <1>3, <2>6
  <2> QED
    BY <2>7
<1> QED
  BY <1>4 DEF ConnectedIn, names, name, rows, h
-----------------------------------------------------------------------------
(* The inductive invariant *)

\* No object loads call stacks in a second session: it would number the root
\* of that session otherwise, and one load names its parent Root.
LoadsOnce == \A cf \in Confs : cf.load => ~cf.kept \/ cf.sessions <= 1

RecordsInv ==
  /\ conf \in Confs /\ session \in 0 .. conf.sessions /\ steps \in 0 .. conf.limit
  /\ running \in BOOLEAN /\ calls \in CallsOf
  /\ Good(hash)
  /\ running => session > 0 /\ Sound(conf.compress, Work) /\ CountsIn(conf.samples, Work)
  /\ ~running => hash = NewHash(hash.next) /\ stack = [t \in Threads |-> <<>>]
  /\ running /\ ~conf.samples => stack[Main] # <<>>
  /\ conf.samples => stack = [t \in Threads |-> <<>>]
  /\ running => report = <<>>
  /\ ReportsAll /\ Connected
  /\ SharedIn(conf.compress, seen)
  /\ conf.load /\ ~running /\ session < conf.sessions => hash.next = 0

\* What the options of a profiler are.
LEMMA ConfIs ==
  ASSUME conf \in Confs
  PROVE  /\ conf.compress \in BOOLEAN /\ conf.load \in BOOLEAN /\ conf.samples \in BOOLEAN
         /\ conf.kept \in BOOLEAN /\ conf.byLine \in BOOLEAN
         /\ conf.sessions \in Nat /\ conf.limit \in Nat
  BY RecordsAssumption DEF AllConfs

\* r is what may be left of what has been collected while a session goes on.
Leaves(r) ==
  /\ Sound(conf.compress, r) /\ CountsIn(conf.samples, r) /\ Grows(hash, r.hash)
  /\ ~conf.samples => r.stack[Main] # <<>>
  /\ conf.samples => r.stack = [t \in Threads |-> <<>>]

\* So may what a hook, or a sample, makes of it.
LEMMA LeavesOn ==
  ASSUME RecordsInv, running
  PROVE  /\ Leaves(Work)
         /\ conf.samples =>
              \A r : Sound(conf.compress, r) /\ SampleDevelops(Work, r) /\ r.stack = stack => Leaves(r)
         /\ ~conf.samples =>
              \A r : Sound(conf.compress, r) /\ Develops(Work, r) /\ r.stack[Main] # <<>> => Leaves(r)
<1>1. /\ Sound(conf.compress, Work) /\ CountsIn(conf.samples, Work)
      /\ Work.hash = hash /\ Work.stack = stack /\ Good(hash)
      /\ ~conf.samples => stack[Main] # <<>>
      /\ conf.samples => stack = [t \in Threads |-> <<>>]
  BY DEF RecordsInv, Work
<1>2. Leaves(Work)
  <2>1. Grows(hash, hash)
    BY <1>1, GrowsOn
  <2> QED
    BY <1>1, <2>1 DEF Leaves
<1>3. ASSUME NEW r, Sound(conf.compress, r), conf.samples, SampleDevelops(Work, r), r.stack = stack
      PROVE  Leaves(r)
  BY <1>1, <1>3 DEF Leaves, SampleDevelops, CountsIn
<1>4. ASSUME NEW r, Sound(conf.compress, r), ~conf.samples, Develops(Work, r), r.stack[Main] # <<>>
      PROVE  Leaves(r)
  BY <1>1, <1>4 DEF Leaves, Develops, CountsIn
<1> QED
  BY <1>2, <1>3, <1>4

\* The invariant of what a hook leaves, while the session goes on.
LEMMA LeavesInv ==
  ASSUME RecordsInv, NEW r, Leave(r), Leaves(r),
         conf' = conf, running' = TRUE, session' \in 1 .. conf.sessions,
         steps' \in 0 .. conf.limit, calls' \in CallsOf, report' = <<>>
  PROVE  RecordsInv' /\ Grows(hash, hash')
<1>0. /\ Sound(conf.compress, r) /\ CountsIn(conf.samples, r) /\ Grows(hash, r.hash)
      /\ ~conf.samples => r.stack[Main] # <<>>
      /\ conf.samples => r.stack = [t \in Threads |-> <<>>]
  BY DEF Leaves
<1>1. hash' = r.hash /\ stack' = r.stack /\ count' = r.count /\ seen' = r.seen
  BY DEF Leave
<1>2. Work' = r
  <2>1. r = [hash |-> r.hash, stack |-> r.stack, count |-> r.count, seen |-> r.seen]
    BY <1>0 DEF Sound
  <2>2. Work' = [hash |-> hash', stack |-> stack', count |-> count', seen |-> seen']
    BY DEF Work
  <2> QED
    BY <1>1, <2>1, <2>2
<1>3. Sound(conf'.compress, Work') /\ CountsIn(conf'.samples, Work')
  BY <1>0, <1>2
<1>4. Good(hash')
  BY <1>0, <1>1 DEF Sound
<1>5. SharedIn(conf'.compress, seen')
  <2>1. conf.compress \in BOOLEAN /\ Good(r.hash) /\ Explained(conf.compress, r.hash, r.seen)
    BY <1>0, ConfIs DEF RecordsInv, Sound
  <2>2. SharedIn(conf.compress, r.seen)
    BY <2>1, SharedIs
  <2> QED
    BY <1>1, <2>2
<1>6. conf' \in Confs /\ session' \in 0 .. conf'.sessions /\ steps' \in 0 .. conf'.limit
      /\ session' > 0
  BY ConfIs DEF RecordsInv
<1> QED
  <2>1. ReportsAll' /\ Connected'
    <3>1. ConnectedIn(conf'.compress, report')
      BY NothingConnected
    <3> QED
      BY <3>1 DEF ReportsAll, Connected, ConnectedIn, Name
  <2> QED
    BY <1>0, <1>1, <1>3, <1>4, <1>5, <1>6, <2>1 DEF RecordsInv

\* The invariant of what is left when a session ends.
LEMMA ShutdownInv ==
  ASSUME LoadsOnce, RecordsInv, running, NEW next \in Nat, Shutdown(next),
         calls' \in CallsOf, SharedIn(conf.compress, seen'), ReportsAll', Connected'
  PROVE  RecordsInv' /\ \E n \in Nat : Clear(n)
<1>1. /\ running' = FALSE /\ stack' = [t \in Threads |-> <<>>]
      /\ conf' = conf /\ session' = session /\ steps' = steps
      /\ hash' = NewHash(IF conf.kept THEN next ELSE 0)
  BY DEF Shutdown, Clear
<1>2. PICK m \in Nat : m = IF conf.kept THEN next ELSE 0
  OBVIOUS
<1>3. hash' = NewHash(m) /\ hash'.next = m /\ Good(hash')
  BY <1>1, <1>2, NewGood
<1>4. conf'.load /\ session' < conf'.sessions => hash'.next = 0
  <2> SUFFICES ASSUME conf.load, session < conf.sessions PROVE m = 0
    BY <1>1, <1>3
  <2>1. ~conf.kept \/ conf.sessions <= 1
    BY DEF LoadsOnce, RecordsInv
  <2>2. conf.sessions \in Nat /\ session \in Nat /\ session > 0
    BY ConfIs DEF RecordsInv
  <2>3. ~conf.kept
    BY <2>1, <2>2
  <2> QED
    BY <1>2, <2>3
<1>5. RecordsInv'
  BY <1>1, <1>3, <1>4 DEF RecordsInv
<1>6. Clear(m)
  BY <1>2 DEF Shutdown
<1> QED
  BY <1>2, <1>5, <1>6

\* A call stack that is longer, shorter or on another line is one.
LEMMA CallsStay ==
  ASSUME calls \in CallsOf, NEW t \in Threads
  PROVE  /\ \A f \in Funcs : [calls EXCEPT ![t] = Append(@, Active(f))] \in CallsOf
         /\ calls[t] # <<>> => [calls EXCEPT ![t] = Front(@)] \in CallsOf
         /\ \A line \in Nat : calls[t] # <<>> =>
              [calls EXCEPT ![t][Len(calls[t])].line = line] \in CallsOf
<1> DEFINE S == [fn : Funcs, line : Nat]
           s == calls[t]
<1>1. s \in Seq(S) /\ Len(s) \in Nat
  BY LenProperties DEF CallsOf, ActiveCalls
<1>2. \A q \in Seq(S) : [calls EXCEPT ![t] = q] \in CallsOf
  BY DEF CallsOf, ActiveCalls
<1>3. ASSUME NEW f \in Funcs PROVE [calls EXCEPT ![t] = Append(@, Active(f))] \in CallsOf
  <2>1. Active(f) \in S
    BY ActiveIs
  <2>2. Append(s, Active(f)) \in Seq(S)
    BY <1>1, <2>1, AppendProperties
  <2> HIDE DEF S
  <2> QED
    BY <1>2, <2>2
<1>4. ASSUME s # <<>> PROVE [calls EXCEPT ![t] = Front(@)] \in CallsOf
  <2>1. Len(s) \in Nat \ {0}
    BY <1>1, <1>4, EmptySeq
  <2>2. Len(s) - 1 \in 0 .. Len(s)
    BY <2>1
  <2>3. Front(s) \in Seq(S)
    BY <1>1, <2>2, PrefixType DEF Front
  <2> HIDE DEF S
  <2> QED
    BY <1>2, <2>3
<1>5. ASSUME NEW line \in Nat, s # <<>>
      PROVE  [calls EXCEPT ![t][Len(calls[t])].line = line] \in CallsOf
  <2> DEFINE n == Len(s)
             x == s[n]
             e == [x EXCEPT !.line = line]
             q == [s EXCEPT ![n] = e]
  <2>1. n \in Nat \ {0} /\ n \in 1 .. n
    <3>1. n \in Nat \ {0}
      BY <1>1, <1>5, EmptySeq
    <3> QED
      BY <3>1
  <2>2. x \in S
    BY <1>1, <2>1, ElementOfSeq
  <2>3. e \in S
    <3> HIDE DEF x
    <3> QED
      BY <2>2
  <2>4. q \in Seq(S)
    <3> HIDE DEF e, S, n, s
    <3> QED
      BY <1>1, <2>1, <2>3, ExceptSeq DEF n
  <2>5. [calls EXCEPT ![t][Len(calls[t])].line = line] = [calls EXCEPT ![t] = q]
    OBVIOUS
  <2> HIDE DEF S, q
  <2> QED
    BY <1>2, <2>4, <2>5
<1> QED
  BY <1>3, <1>4, <1>5

\* state_start begins the session with the root, or with a sample to come.
LEMMA StartInv ==
  ASSUME KeysSuffice, LoadsOnce, RecordsInv, Start
  PROVE  RecordsInv' /\ Grows(hash, hash')
<1> DEFINE new == [Work EXCEPT !.count = <<>>, !.seen = <<>>]
           r == IF conf.samples THEN new ELSE Loaded(NewStack(new, Main), calls'[Main])
<1>1. /\ ~running /\ session < conf.sessions /\ session' = session + 1 /\ running' = TRUE
      /\ steps' = 0 /\ conf' = conf /\ Leave(r) /\ report' = <<>>
      /\ calls' = [calls EXCEPT ![Main] = Append(@, Active(Starter))]
  BY DEF Start
<1>2. /\ conf.compress \in BOOLEAN /\ conf.sessions \in Nat /\ conf.limit \in Nat
      /\ session \in 0 .. conf.sessions /\ Main \in Threads /\ Starter \in Funcs
      /\ calls \in CallsOf
  BY ConfIs, RecordsAssumption DEF RecordsInv
<1>3. new = [hash |-> hash, stack |-> stack, count |-> <<>>, seen |-> <<>>]
  <2> DEFINE x == Work
             e == <<>>
  <2>1. x = [hash |-> hash, stack |-> stack, count |-> count, seen |-> seen]
    BY DEF Work
  <2>2. new = [x EXCEPT !.count = e, !.seen = e]
    BY DEF x, e
  <2> HIDE DEF new, x, e
  <2>3. new = [hash |-> hash, stack |-> stack, count |-> e, seen |-> e]
    BY <2>1, <2>2
  <2> QED
    BY <2>3 DEF e
<1>4. hash = NewHash(hash.next) /\ hash.next \in Nat /\ Good(hash)
      /\ stack = [t \in Threads |-> <<>>]
  BY <1>1 DEF RecordsInv, Good, Typed
<1>5. DOMAIN hash.keys = {}
  <2>1. hash.keys = [id \in {} |-> 0]
    BY <1>4, NewGood
  <2> QED
    BY <2>1
<1>6. Sound(conf.compress, new)
  <2>1. DOMAIN <<>> = {}
    OBVIOUS
  <2>2. Explained(conf.compress, hash, <<>>)
    BY <2>1 DEF Explained
  <2>3. stack \in EntryStacks /\ \A t \in Threads : stack[t] = <<>>
    BY <1>4, EmptySeq DEF EntryStacks
  <2>4. Entries(stack, <<>>) /\ Followed(hash, <<>>)
    BY <1>5, <2>3 DEF Entries, Followed
  <2>5. /\ new = [hash |-> new.hash, stack |-> new.stack, count |-> new.count, seen |-> new.seen]
        /\ new.hash = hash /\ new.stack = stack /\ new.count = <<>> /\ new.seen = <<>>
    BY <1>3
  <2> HIDE DEF new
  <2> QED
    BY <1>4, <1>5, <2>1, <2>2, <2>4, <2>5 DEF Sound
<1>7. new.hash = hash /\ new.stack[Main] = <<>> /\ Grows(hash, hash)
  BY <1>2, <1>3, <1>4, GrowsOn, ZenonT(30)
<1>8. new.stack = stack
  BY <1>3
<1>9. CountsIn(conf.samples, new)
  <2>1. new.stack = stack /\ new.count = <<>> /\ new.seen = <<>> /\ DOMAIN <<>> = {}
    <3> DEFINE e == <<>>
    <3>1. new = [hash |-> hash, stack |-> stack, count |-> e, seen |-> e] /\ DOMAIN e = {}
      BY <1>3
    <3> HIDE DEF new, e
    <3>2. new.stack = stack /\ new.count = e /\ new.seen = e
      BY <3>1
    <3> QED
      BY <3>1, <3>2 DEF e
  <2>2. Tallies(new)
    <3>1. IsFiniteSet(DOMAIN new.seen)
      BY <2>1, FS_EmptySet
    <3> QED
      BY <2>1, <3>1 DEF Tallies
  <2>3. \A id : Open(stack, id) = 0 /\ TotalIn(new.seen, id) = 0
    <3> SUFFICES ASSUME NEW id PROVE Open(stack, id) = 0 /\ TotalIn(new.seen, id) = 0
      OBVIOUS
    <3> DEFINE of == [a \in Of(new.seen, id) |-> new.seen[a]]
    <3>1. Open(stack, id) = 0
      BY <1>4, OpenNone
    <3>2. Of(new.seen, id) = {}
      BY <2>1 DEF Of
    <3>3. of \in [{} -> Int] /\ \A a \in {} : of[a] = 0
      BY <3>2
    <3>4. TotalIn(new.seen, id) = SumFunction(of)
      BY DEF TotalIn
    <3> HIDE DEF of
    <3>5. SumFunction(of) = 0
      <4>1. IsFiniteSet({})
        BY FS_EmptySet
      <4> QED
        BY <3>3, <4>1, SumZeros
    <3> QED
      BY <3>1, <3>4, <3>5
  <2>4. Balanced(new)
    BY <2>1, <2>2, <2>3 DEF Balanced, Counted
  <2>5. SampleBalanced(new)
    BY <2>1, <2>2 DEF SampleBalanced
  <2> QED
    BY <2>4, <2>5 DEF CountsIn
<1> HIDE DEF new
<1>10. calls' \in CallsOf
  BY <1>1, <1>2, CallsStay
<1>11. ASSUME ~conf.samples
      PROVE  Sound(conf.compress, r) /\ r.stack[Main] # <<>> /\ Develops(new, r)
  <2> DEFINE v == NewStack(new, Main)
  <2>1. KeyFor(conf.compress, new.hash, new.seen, <<>>, RootKey)
    BY DEF KeyFor
  <2>2. Pushes(conf.compress, new, Main, RootKey, Pushed(new, Main, RootKey, <<>>))
    BY <1>2, <1>6, <1>7, <2>1, PushedSound
  <2>3. Pushes(conf.compress, new, Main, RootKey, v)
    BY <2>2 DEF NewStack
  <2> HIDE DEF v
  <2>4. /\ Sound(conf.compress, v) /\ v.stack[Main] # <<>> /\ Develops(new, v)
        /\ v.hash.keys[Last(v.stack[Main]).record] = RootKey
        /\ Last(v.stack[Main]).record = hash.next
    BY <1>2, <1>5, <1>7, <2>3 DEF Pushes
  <2>5. calls'[Main] \in ActiveCalls
    BY <1>2, <1>10 DEF CallsOf
  <2>6. r = Loaded(v, calls'[Main])
    BY <1>11 DEF v
  <2>7. CASE conf.load
    <3>1. hash.next = Root
      BY <1>1, <2>7 DEF RecordsInv, Root
    <3>2. /\ Sound(conf.compress, r) /\ r.stack[Main] # <<>> /\ Develops(v, r)
      BY <1>2, <2>4, <2>5, <2>6, <3>1, LoadedSound
    <3> QED
      BY <1>6, <2>4, <3>2, DevelopsOn
  <2>8. CASE ~conf.load
    BY <2>4, <2>6, <2>8 DEF Loaded
  <2> QED
    BY <2>7, <2>8
<1>12. Leaves(r)
  <2>1. conf.samples => r = new /\ new.stack = [t \in Threads |-> <<>>]
    BY <1>4, <1>8
  <2> HIDE DEF r
  <2> QED
    BY <1>6, <1>7, <1>11, <1>9, <2>1 DEF Leaves, Develops, CountsIn
<1> HIDE DEF r
<1>13. session' \in 1 .. conf.sessions /\ steps' \in 0 .. conf.limit
  BY <1>1, <1>2
<1> QED
  BY <1>1, <1>10, <1>12, <1>13, LeavesInv

\* So does every step of the program that a hook is called for, or is not.
LEMMA HooksInv ==
  ASSUME KeysSuffice, RecordsInv, NEW t \in Threads,
         \/ \E f \in Funcs : Call(t, f)
         \/ Return(t)
         \/ Unwind(t)
         \/ \E line \in LinesOf[IF calls[t] = <<>> THEN Starter ELSE Last(calls[t]).fn] : Line(t, line)
  PROVE  RecordsInv' /\ Grows(hash, hash')
<1>1. /\ conf.compress \in BOOLEAN /\ conf.sessions \in Nat /\ conf.limit \in Nat
      /\ session \in 0 .. conf.sessions /\ Main \in Threads /\ Starter \in Funcs
      /\ calls \in CallsOf /\ steps \in 0 .. conf.limit
  BY ConfIs, RecordsAssumption DEF RecordsInv
<1>2. ASSUME Thread(t), Step
      PROVE  /\ running /\ running' = TRUE /\ conf' = conf /\ session' \in 1 .. conf.sessions
             /\ report' = <<>>
             /\ steps' \in 0 .. conf.limit
             /\ Sound(conf.compress, Work) /\ Leaves(Work)
             /\ (~conf.samples => stack[Main] # <<>>)
  <2>1. running /\ steps < conf.limit /\ steps' = steps + 1
        /\ UNCHANGED <<conf, session, running, report>>
    BY <1>2 DEF Thread, Step
  <2>2. report = <<>> /\ session > 0 /\ Sound(conf.compress, Work) /\ (~conf.samples => stack[Main] # <<>>)
    BY <2>1 DEF RecordsInv
  <2>3. running' = TRUE
    BY <2>1 DEF RecordsInv
  <2>4. Leaves(Work)
    BY <2>1, LeavesOn
  <2> QED
    BY <1>1, <2>1, <2>2, <2>3, <2>4
<1>3. ASSUME UNCHANGED profile PROVE Leave(Work)
  BY <1>3 DEF Leave, Work, profile
<1>4. ASSUME NEW f \in Funcs, Call(t, f) PROVE RecordsInv' /\ Grows(hash, hash')
  <2>1. Thread(t) /\ Step /\ calls' \in CallsOf
    BY <1>1, <1>4, CallsStay DEF Call
  <2>2. CASE conf.samples
    <3>1. Leave(Work)
      BY <1>3, <1>4, <2>2 DEF Call
    <3> QED
      BY <1>2, <2>1, <2>2, <3>1, LeavesInv
  <2>3. CASE ~conf.samples
    <3>1. Leave(CallHook(t, f))
      BY <1>4, <2>3 DEF Call
    <3>2. /\ Sound(conf.compress, CallHook(t, f)) /\ Develops(Work, CallHook(t, f))
          /\ CallHook(t, f).stack[Main] # <<>>
      BY <1>1, <1>2, <2>1, <2>3, CallHookSound
    <3>3. Leaves(CallHook(t, f))
      BY <1>2, <2>1, <2>3, <3>2, LeavesOn
    <3> QED
      BY <1>2, <2>1, <3>1, <3>3, LeavesInv
  <2> QED
    BY <2>2, <2>3
<1>5. ASSUME Return(t) PROVE RecordsInv' /\ Grows(hash, hash')
  <2>1. Thread(t) /\ Step /\ calls' \in CallsOf
    BY <1>1, <1>5, CallsStay DEF Return
  <2>2. CASE conf.samples
    <3>1. Leave(Work)
      BY <1>3, <1>5, <2>2 DEF Return
    <3> QED
      BY <1>2, <2>1, <2>2, <3>1, LeavesInv
  <2>3. CASE ~conf.samples
    <3> DEFINE fn == Identifier[Last(calls[t]).fn]
               r == Prehook(t)
               n == Kept(r, t, fn)
    <3>1. Leave(Popped(r, t, n))
      BY <1>5, <2>3 DEF Return
    <3>2. /\ Sound(conf.compress, r) /\ Develops(Work, r) /\ r.stack[t] # <<>>
          /\ \A u \in Threads : (stack[u] # <<>> \/ u = t) <=> r.stack[u] # <<>>
      BY <1>1, <1>2, <2>1, PrehookSound
    <3> HIDE DEF fn, r
    <3>3. n \in 1 .. Len(r.stack[t])
      BY <1>1, <3>2, KeptIn
    <3> HIDE DEF n
    <3>4. /\ Sound(conf.compress, Popped(r, t, n)) /\ Develops(r, Popped(r, t, n))
          /\ \A u \in Threads : r.stack[u] # <<>> => Popped(r, t, n).stack[u] # <<>>
      BY <1>1, <3>2, <3>3, PoppedSound
    <3>5. Popped(r, t, n).stack[Main] # <<>>
      BY <1>1, <1>2, <2>1, <2>3, <3>2, <3>4
    <3>6. Develops(Work, Popped(r, t, n))
      BY <1>2, <2>1, <3>2, <3>4, DevelopsOn
    <3>7. Leaves(Popped(r, t, n))
      BY <1>2, <2>1, <2>3, <3>4, <3>5, <3>6, LeavesOn
    <3> QED
      BY <1>2, <2>1, <3>1, <3>7, LeavesInv
  <2> QED
    BY <2>2, <2>3
<1>6. ASSUME Unwind(t) PROVE RecordsInv' /\ Grows(hash, hash')
  <2>1. Thread(t) /\ Step /\ calls' \in CallsOf /\ Leave(Work)
    BY <1>1, <1>3, <1>6, CallsStay DEF Unwind
  <2> QED
    BY <1>2, <2>1, LeavesInv
<1>7. ASSUME NEW line, line \in LinesOf[IF calls[t] = <<>> THEN Starter ELSE Last(calls[t]).fn],
             Line(t, line)
      PROVE  RecordsInv' /\ Grows(hash, hash')
  <2>1. calls[t] # <<>> /\ Thread(t) /\ Step
        /\ calls' = [calls EXCEPT ![t][Len(calls[t])].line = line]
    BY <1>7 DEF Line
  <2>2. Last(calls[t]).fn \in Funcs
    <3>1. calls[t] \in Seq([fn : Funcs, line : Nat])
      BY <1>1 DEF CallsOf, ActiveCalls
    <3>2. Len(calls[t]) \in 1 .. Len(calls[t])
      <4>1. Len(calls[t]) \in Nat \ {0}
        BY <2>1, <3>1, EmptySeq
      <4> QED
        BY <4>1
    <3>3. Last(calls[t]) \in [fn : Funcs, line : Nat]
      BY <3>1, <3>2, ElementOfSeq DEF Last
    <3> QED
      BY <3>3
  <2>3. line \in Nat
    BY <1>7, <2>1, <2>2, RecordsAssumption
  <2>4. calls' \in CallsOf
    BY <1>1, <2>1, <2>3, CallsStay
  <2> DEFINE r == Prehook(t)
             w == [r EXCEPT !.stack[t][Len(r.stack[t])].line = line]
  <2>5. /\ Sound(conf.compress, r) /\ Develops(Work, r) /\ r.stack[t] # <<>>
        /\ \A u \in Threads : (stack[u] # <<>> \/ u = t) <=> r.stack[u] # <<>>
    BY <1>1, <1>2, <2>1, PrehookSound
  <2>6. CASE conf.lines
    <3>1. Leave(w)
      BY <1>7, <2>6 DEF Line
    <3> HIDE DEF r
    <3>2. /\ Sound(conf.compress, w) /\ Develops(r, w)
          /\ \A u \in Threads : r.stack[u] # <<>> => w.stack[u] # <<>>
      BY <1>1, <2>3, <2>5, LineSound
    <3> HIDE DEF w
    <3>3. ~conf.samples
      BY <2>6, RecordsAssumption DEF RecordsInv
    <3>4. w.stack[Main] # <<>>
      BY <1>1, <1>2, <2>1, <2>5, <3>2, <3>3
    <3>5. Develops(Work, w)
      BY <1>2, <2>1, <2>5, <3>2, DevelopsOn
    <3>6. Leaves(w)
      BY <1>2, <2>1, <3>2, <3>3, <3>4, <3>5, LeavesOn
    <3> QED
      BY <1>2, <2>1, <2>4, <3>1, <3>6, LeavesInv
  <2>7. CASE ~conf.lines
    <3>1. Leave(Work)
      BY <1>3, <1>7, <2>7 DEF Line
    <3> QED
      BY <1>2, <2>1, <2>4, <3>1, LeavesInv
  <2> QED
    BY <2>6, <2>7
<1> QED
  BY <1>4, <1>5, <1>6, <1>7

\* So does a sample.
LEMMA SampleInv ==
  ASSUME KeysSuffice, RecordsInv, NEW t \in Threads, Sample(t)
  PROVE  RecordsInv' /\ Grows(hash, hash')
<1> DEFINE w == CHOOSE u : u = [i \in 0 .. Len(calls[t]) |->
                  IF i = 0 THEN SampledRoot(Work) ELSE SampledFrame(u[i - 1], calls[t], i)]
           r == w[Len(calls[t])].work
<1>1. Thread(t) /\ conf.samples /\ calls' = calls /\ Step /\ Leave(r)
  BY DEF Sample
<1>2. /\ conf.compress \in BOOLEAN /\ conf.sessions \in Nat /\ conf.limit \in Nat
      /\ session \in 0 .. conf.sessions /\ calls \in CallsOf /\ steps \in 0 .. conf.limit
  BY ConfIs DEF RecordsInv
<1>3. running /\ steps < conf.limit /\ steps' = steps + 1
      /\ UNCHANGED <<conf, session, running, report>>
  BY <1>1 DEF Thread, Step
<1>4. session > 0 /\ Sound(conf.compress, Work) /\ running' = TRUE /\ report' = <<>>
  BY <1>3 DEF RecordsInv
<1>5. calls[t] \in ActiveCalls /\ Len(calls[t]) \in Nat
  BY <1>2, LenProperties DEF CallsOf, ActiveCalls
<1>6. SamplesUp(w, Work, calls[t])
  BY <1>5, SamplesUpExists
<1> HIDE DEF w
<1>7. Sound(conf.compress, r) /\ SampleDevelops(Work, r) /\ r.stack = stack
  <2>1. Work.stack = stack
    BY DEF Work
  <2> QED
    BY <1>2, <1>4, <1>5, <1>6, <2>1, SamplesSound
<1> HIDE DEF r
<1>8. Leaves(r)
  BY <1>1, <1>3, <1>7, LeavesOn
<1>9. session' \in 1 .. conf.sessions /\ steps' \in 0 .. conf.limit
  BY <1>2, <1>3, <1>4
<1> QED
  BY <1>1, <1>2, <1>3, <1>4, <1>9, <1>8, LeavesInv

\* So do the ends of a session.
LEMMA EndsInv ==
  ASSUME KeysSuffice, LoadsOnce, RecordsInv, (\E t \in Threads : Stop(t)) \/ Quit \/ OutOfMemory
  PROVE  RecordsInv' /\ \E n \in Nat : Clear(n)
<1>1. /\ conf.compress \in BOOLEAN /\ calls \in CallsOf /\ hash.next \in Nat /\ Main \in Threads
      /\ SharedIn(conf.compress, seen) /\ running /\ report = <<>>
      /\ conf.samples \in BOOLEAN /\ (conf.samples => stack = [t \in Threads |-> <<>>])
  BY ConfIs, RecordsAssumption DEF RecordsInv, Good, Typed, Stop, Quit, OutOfMemory
<1>2. Sound(conf.compress, Work) /\ CountsIn(conf.samples, Work) /\ Work.stack = stack
  BY <1>1 DEF RecordsInv, Work
<1>3. ASSUME NEW t \in Threads, Stop(t) PROVE RecordsInv' /\ \E n \in Nat : Clear(n)
  <2> DEFINE r == IF conf.samples THEN Work ELSE Prehook(t)
             popped == PoppedAll(r)
  <2>1. /\ Shutdown(popped.hash.next) /\ calls' = calls /\ seen' = popped.seen
        /\ count' = popped.count /\ report' = Reported(popped.hash, popped.count)
    BY <1>3 DEF Stop
  <2>2. Sound(conf.compress, r) /\ CountsIn(conf.samples, r)
        /\ (conf.samples => r.stack = [u \in Threads |-> <<>>])
    <3>1. CASE conf.samples
      BY <1>1, <1>2, <3>1
    <3>2. CASE ~conf.samples
      <4>1. Sound(conf.compress, r) /\ Develops(Work, r)
        BY <1>1, <1>2, <3>2, PrehookSound
      <4> HIDE DEF r
      <4> QED
        BY <1>2, <3>2, <4>1 DEF Develops, CountsIn
    <3> QED
      BY <3>1, <3>2
  <2> HIDE DEF r
  <2>3. ReportIn(conf.samples, popped.seen, popped.count, Reported(popped.hash, popped.count))
    BY <1>1, <2>2, ReportedIs
  <2>4. ReportsAll'
    <3>1. ReportIn(conf.samples, seen', count', report') /\ conf' = conf
      BY <2>1, <2>3 DEF Shutdown
    <3>2. ReportIn(conf'.samples, seen', count', report')
      BY <3>1
    <3> QED
      BY <3>2 DEF ReportIn, ReportsAll, Total, TotalIn, Of
  <2>5. popped.hash = r.hash /\ popped.seen = r.seen
    <3>1. r = [hash |-> r.hash, stack |-> r.stack, count |-> r.count, seen |-> r.seen]
      BY <2>2 DEF Sound
    <3> QED
      BY <3>1 DEF PoppedAll
  <2> HIDE DEF popped
  <2>6. r.hash.next \in Nat /\ Good(r.hash) /\ Explained(conf.compress, r.hash, r.seen)
    BY <2>2 DEF Sound, Good, Typed
  <2>7. SharedIn(conf.compress, r.seen)
    BY <1>1, <2>6, SharedIs
  <2>8. Connected'
    <3>1. ConnectedIn(conf.compress, Reported(popped.hash, popped.count))
      BY <1>1, <2>2, <2>5, ReportedConnected
    <3>2. conf' = conf
      BY <2>1 DEF Shutdown
    <3>3. ConnectedIn(conf'.compress, report')
      BY <2>1, <3>1, <3>2
    <3> QED
      BY <3>3 DEF Connected, ConnectedIn, Name
  <2>9. Shutdown(r.hash.next) /\ SharedIn(conf.compress, seen') /\ calls' \in CallsOf
    BY <1>1, <2>1, <2>5, <2>7
  <2> QED
    BY <1>1, <2>6, <2>9, <2>4, <2>8, ShutdownInv
<1>4. ASSUME Quit PROVE RecordsInv' /\ \E n \in Nat : Clear(n)
  <2>1. Shutdown(hash.next) /\ calls' \in CallsOf /\ SharedIn(conf.compress, seen')
    BY <1>1, <1>4 DEF Quit
  <2>2. ReportsAll' /\ Connected'
    <3>1. ConnectedIn(conf'.compress, report')
      BY <1>1, <1>4, NothingConnected DEF Quit
    <3> QED
      BY <1>1, <1>4, <3>1 DEF Quit, ReportsAll, Connected, ConnectedIn, Name
  <2> QED
    BY <1>1, <2>1, <2>2, ShutdownInv
<1>5. ASSUME OutOfMemory PROVE RecordsInv' /\ \E n \in Nat : Clear(n)
  <2>1. PICK failed \in {0, 1} : Shutdown(hash.next + failed)
    BY <1>5 DEF OutOfMemory
  <2>2. SharedIn(conf.compress, seen') /\ calls' = IF Starting THEN [calls EXCEPT ![Main] = Front(@)] ELSE calls
    BY <1>1, <1>5 DEF OutOfMemory
  <2>3. calls' \in CallsOf
    <3>1. Starting => calls[Main] # <<>>
      BY DEF Starting
    <3> QED
      BY <1>1, <2>2, <3>1, CallsStay
  <2>4. hash.next + failed \in Nat
    BY <1>1
  <2>5. ReportsAll' /\ Connected'
    <3>1. ConnectedIn(conf'.compress, report')
      BY <1>1, <1>5, NothingConnected DEF OutOfMemory
    <3> QED
      BY <1>1, <1>5, <3>1 DEF OutOfMemory, ReportsAll, Connected, ConnectedIn, Name
  <2> QED
    BY <1>1, <2>1, <2>2, <2>3, <2>4, <2>5, ShutdownInv
<1> QED
  BY <1>3, <1>4, <1>5
-----------------------------------------------------------------------------
(* The theorems *)

\* A profiler has collected nothing at first.
LEMMA InitInv == Init => RecordsInv
<1> SUFFICES ASSUME Init PROVE RecordsInv
  OBVIOUS
<1>1. /\ conf \in Confs /\ session = 0 /\ running = FALSE /\ steps = 0
      /\ stack = [t \in Threads |-> <<>>] /\ seen = <<>> /\ report = <<>>
      /\ hash = NewHash(0) /\ hash.next = 0 /\ Good(hash)
  BY NewGood DEF Init, HashInit
<1>2. session \in 0 .. conf.sessions /\ steps \in 0 .. conf.limit
  BY <1>1, ConfIs
<1>3. SharedIn(conf.compress, seen)
  <2>1. DOMAIN <<>> = {}
    OBVIOUS
  <2> QED
    BY <1>1, <2>1 DEF SharedIn
<1>4. calls \in CallsOf
  <2> DEFINE base == [i \in DOMAIN BaseFrames |-> Active(BaseFrames[i])]
  <2>1. BaseFrames \in Seq(Funcs)
    BY RecordsAssumption
  <2>2. Len(BaseFrames) \in Nat /\ DOMAIN BaseFrames = 1 .. Len(BaseFrames)
        /\ \A i \in 1 .. Len(BaseFrames) : BaseFrames[i] \in Funcs
    BY <2>1, LenProperties, ElementOfSeq
  <2>3. base \in [1 .. Len(BaseFrames) -> [fn : Funcs, line : Nat]]
    BY <2>2, ActiveIs
  <2> HIDE DEF base
  <2>4. base \in ActiveCalls
    BY <2>2, <2>3, SeqDef, ZenonT(30) DEF ActiveCalls
  <2>5. <<>> \in ActiveCalls
    BY EmptySeq DEF ActiveCalls
  <2>6. calls = [t \in Threads |-> IF t = Main THEN base ELSE <<>>]
    BY DEF Init, base
  <2> QED
    BY <2>4, <2>5, <2>6 DEF CallsOf
<1>5. ReportsAll /\ Connected
  <2>1. ConnectedIn(conf.compress, report)
    BY <1>1, NothingConnected
  <2> QED
    BY <1>1, <2>1 DEF ReportsAll, Connected, ConnectedIn, Name
<1> QED
  BY <1>1, <1>2, <1>3, <1>4, <1>5 DEF RecordsInv

\* Every step keeps the invariant, and adds records to the hash or clears it.
LEMMA StepKeeps ==
  ASSUME KeysSuffice, LoadsOnce, RecordsInv, Next
  PROVE  RecordsInv' /\ (Grows(hash, hash') \/ \E n \in Nat : Clear(n))
<1>1. CASE Start
  BY <1>1, StartInv
<1>2. ASSUME NEW t \in Threads,
             \/ \E f \in Funcs : Call(t, f)
             \/ Return(t)
             \/ Unwind(t)
             \/ \E line \in LinesOf[IF calls[t] = <<>> THEN Starter ELSE Last(calls[t]).fn] :
                  Line(t, line)
      PROVE  RecordsInv' /\ Grows(hash, hash')
  BY <1>2, HooksInv
<1>3. ASSUME NEW t \in Threads, Sample(t) PROVE RecordsInv' /\ Grows(hash, hash')
  BY <1>3, SampleInv
<1>4. CASE (\E t \in Threads : Stop(t)) \/ Quit \/ OutOfMemory
  BY <1>4, EndsInv
<1> QED
  BY <1>1, <1>2, <1>3, <1>4 DEF Next

\* The invariant holds in every state, for any functions, threads, identifiers,
\* lines and options, if no object loads stacks in a second session.
THEOREM RecordsAlwaysInv ==
  ASSUME KeysSuffice, LoadsOnce
  PROVE  Spec => []RecordsInv
<1>1. Init => RecordsInv
  BY InitInv
<1>2. RecordsInv /\ [Next]_vars => RecordsInv'
  <2> SUFFICES ASSUME RecordsInv, [Next]_vars PROVE RecordsInv'
    OBVIOUS
  <2>1. CASE UNCHANGED vars
    <3>1. Work' = Work /\ ReportsAll' = ReportsAll /\ Connected' = Connected
      BY <2>1 DEF vars, profile, Work, ReportsAll, Total, Connected, Name
    <3> QED
      BY <2>1, <3>1 DEF vars, profile, program, RecordsInv
  <2> QED
    BY <2>1, StepKeeps
<1> QED
  BY <1>1, <1>2, PTL DEF Spec

\* Every variable holds a value of its kind: profile stacks have the root's entry
\* below all others, and point to records of the hash (graph_prehook, KeptIn).
THEOREM RecordsAlwaysTypeOK ==
  ASSUME KeysSuffice, LoadsOnce
  PROVE  Spec => []TypeOK
<1>1. RecordsInv => TypeOK
  <2> SUFFICES ASSUME RecordsInv PROVE TypeOK
    OBVIOUS
  <2>1. /\ conf \in Confs /\ session \in 0 .. conf.sessions /\ steps \in 0 .. conf.limit + 1
        /\ running \in BOOLEAN /\ (running /\ ~conf.samples => stack[Main] # <<>>)
    BY ConfIs DEF RecordsInv
  <2>2. CASE ~running
    <3>1. \A t \in Threads : stack[t] = <<>>
      BY <2>2 DEF RecordsInv
    <3> QED
      BY <2>1, <2>2, <3>1 DEF TypeOK
  <2>3. CASE running
    <3>1. /\ Explained(conf.compress, hash, seen) /\ DOMAIN count = DOMAIN hash.keys
          /\ Entries(stack, seen)
      BY <2>3 DEF RecordsInv, Sound, Work
    <3>2. ASSUME NEW t \in Threads, stack[t] # <<>>, NEW i \in DOMAIN stack[t]
          PROVE  /\ stack[t][i].record \in DOMAIN hash.keys
                 /\ i = 1 => hash.keys[stack[t][i].record] = RootKey
                 /\ i # 1 => hash.keys[stack[t][i].record] # RootKey
                 /\ 1 \in DOMAIN stack[t]
      <4>1. stack[t] \in Seq(Entry)
        BY <3>1 DEF Entries, EntryStacks
      <4>2. Len(stack[t]) \in Nat \ {0} /\ DOMAIN stack[t] = 1 .. Len(stack[t])
        BY <3>2, <4>1, EmptySeq, LenProperties
      <4>3. stack[t][i] \in Entry
        BY <4>1, <4>2, ElementOfSeq
      <4> DEFINE p == stack[t][i].path
                 id == stack[t][i].record
      <4>4. p \in Paths /\ id \in Nat
        BY <4>3 DEF Entry
      <4>5. <<p, id>> \in DOMAIN seen /\ (p = <<>> <=> i = 1)
        BY <3>1, <4>2 DEF Entries
      <4> HIDE DEF p, id
      <4>6. id \in DOMAIN hash.keys /\ KeyFor(conf.compress, hash, seen, p, hash.keys[id])
        BY <3>1, <4>4, <4>5 DEF Explained
      <4>7. (p = <<>> => hash.keys[id] = RootKey) /\ (p # <<>> => hash.keys[id] # RootKey)
        <5>1. CASE p = <<>>
          <6>1. \A q \in Paths, fn \in Nat, line \in Nat : <<>> # Append(q, <<fn, line>>)
            <7> TAKE q \in Paths, fn \in Nat, line \in Nat
            <7>1. <<fn, line>> \in Nat \X Nat
              OBVIOUS
            <7> QED
              BY <7>1, PathAppend
          <6> QED
            BY <4>6, <5>1, <6>1 DEF KeyFor
        <5>2. CASE p # <<>>
          <6>1. PICK q \in Paths, fn \in Nat \ {Root}, line \in Nat, up \in Nat :
                  /\ p = Append(q, <<fn, line>>) /\ <<q, up>> \in DOMAIN seen
                  /\ up \in DOMAIN hash.keys
                  /\ hash.keys[id] = KeyOf(fn, UpId(conf.compress, hash, up), line)
            BY <4>6, <5>2 DEF KeyFor
          <6>2. hash.keys[id].fn # RootKey.fn
            BY <6>1 DEF RootKey, KeyOf
          <6> QED
            BY <5>2, <6>2
        <5> QED
          BY <5>1, <5>2
      <4>8. 1 \in DOMAIN stack[t]
        BY <4>2
      <4> QED
        BY <4>5, <4>6, <4>7, <4>8 DEF p, id
    <3>3. ASSUME NEW t \in Threads, stack[t] # <<>>
          PROVE  /\ hash.keys[stack[t][1].record] = RootKey
                 /\ \A i \in DOMAIN stack[t] : /\ stack[t][i].record \in DOMAIN hash.keys
                                               /\ i > 1 => stack[t][i].record # stack[t][1].record
      <4>1. stack[t] \in Seq(Entry)
        BY <3>1 DEF Entries, EntryStacks
      <4>2. 1 \in DOMAIN stack[t] /\ DOMAIN stack[t] = 1 .. Len(stack[t]) /\ Len(stack[t]) \in Nat
        BY <3>3, <4>1, EmptySeq, LenProperties
      <4>3. hash.keys[stack[t][1].record] = RootKey
        BY <3>2, <3>3, <4>2
      <4>4. ASSUME NEW i \in DOMAIN stack[t], i > 1
            PROVE  stack[t][i].record # stack[t][1].record
        <5>1. i # 1
          BY <4>2, <4>4
        <5>2. hash.keys[stack[t][i].record] # RootKey
          BY <3>2, <3>3, <4>4, <5>1
        <5> QED
          BY <4>3, <5>2
      <4> QED
        BY <3>2, <3>3, <4>3, <4>4
    <3> QED
      BY <2>1, <2>3, <3>1, <3>3 DEF TypeOK
  <2> QED
    BY <2>2, <2>3
<1> QED
  BY <1>1, RecordsAlwaysInv, PTL

\* Calls, loaded frames and sampled frames are counted in one record if and
\* only if they are of one path, or in a compressed graph of one function
\* called from one function: whatever thread they are on, whatever identifiers
\* collide, however lookups move records about (P_ID, lmprof_fetch_record).
THEOREM RecordsAlwaysShared ==
  ASSUME KeysSuffice, LoadsOnce
  PROVE  Spec => []SharedPaths
<1>1. RecordsInv => SharedPaths
  BY DEF RecordsInv, SharedIn, ClassIn, SharedPaths, Class
<1> QED
  BY <1>1, RecordsAlwaysInv, PTL

\* Records stay in the buckets of their keys, once each, in every session.
THEOREM RecordsAlwaysChained ==
  ASSUME KeysSuffice, LoadsOnce
  PROVE  Spec => []Chained
<1>1. RecordsInv => Chained
  BY DEF RecordsInv, Good, Typed, InBuckets, InChains, OneRecord, Chained
<1> QED
  BY <1>1, RecordsAlwaysInv, PTL

\* A record has counted every time it was pushed and is no longer on a stack,
\* although events are missing; in a sampled graph the samples it was the top
\* of, and one more at most (lmprof_stack_measured_pop, lmprof_sample_stack).
THEOREM RecordsAlwaysCounted ==
  ASSUME KeysSuffice, LoadsOnce
  PROVE  Spec => []CallsCounted
<1>1. RecordsInv => CallsCounted
  <2> SUFFICES ASSUME RecordsInv, running, NEW id \in DOMAIN count
               PROVE  IF conf.samples THEN count[id] \in {Total(id), Total(id) + 1} \ {0}
                      ELSE count[id] + Open(stack, id) = Total(id)
    BY DEF CallsCounted
  <2>1. /\ CountsIn(conf.samples, Work) /\ DOMAIN count = DOMAIN hash.keys
        /\ DOMAIN hash.keys \subseteq Nat
        /\ Work.count = count /\ Work.stack = stack /\ Work.seen = seen
    BY DEF RecordsInv, Sound, Work, Good, Typed
  <2>2. Total(id) = TotalIn(seen, id)
    BY DEF Total, TotalIn, Of
  <2>3. CASE conf.samples
    <3>1. SampleBalanced(Work)
      BY <2>1, <2>3 DEF CountsIn
    <3>2. count[id] \in {TotalIn(seen, id), TotalIn(seen, id) + 1} \ {0}
      BY <2>1, <3>1 DEF SampleBalanced
    <3> QED
      BY <2>2, <2>3, <3>2
  <2>4. CASE ~conf.samples
    <3>1. Balanced(Work)
      BY <2>1, <2>4 DEF CountsIn
    <3>2. Counted(count, id) + Open(stack, id) = TotalIn(seen, id)
      BY <2>1, <3>1 DEF Balanced
    <3> QED
      BY <2>2, <2>4, <3>2 DEF Counted
  <2> QED
    BY <2>3, <2>4
<1> QED
  BY <1>1, RecordsAlwaysInv, PTL

\* Whatever the hooks do, the hash they share is a map that gives each key one
\* identifier and keeps it for the session, so that the profile stacks' pointers
\* to records stay good (lmprof_hash_get, lmprof_clear_state).
THEOREM RecordsActAsMap ==
  ASSUME KeysSuffice, LoadsOnce
  PROVE  Spec => ActsAsMap
<1>1. Init => Map!MInit
  <2> SUFFICES ASSUME Init PROVE Map!MInit
    OBVIOUS
  <2>1. hash.keys = [id \in {} |-> 0] /\ hash.next = 0
    BY NewGood DEF Init, HashInit
  <2>2. DOMAIN Lookup = {}
    BY <2>1 DEF Lookup, Held
  <2> QED
    BY <2>1, <2>2 DEF Map!MInit
<1>2. RecordsInv /\ RecordsInv' /\ [Next]_vars =>
        [Map!MGrow \/ Map!MClear]_<<Lookup, hash.next>>
  <2> SUFFICES ASSUME RecordsInv, RecordsInv', [Next]_vars
               PROVE  [Map!MGrow \/ Map!MClear]_<<Lookup, hash.next>>
    OBVIOUS
  <2>1. Good(hash) /\ Good(hash')
    BY DEF RecordsInv
  <2>2. CASE Grows(hash, hash')
    BY <2>1, <2>2, GrowsMaps
  <2>3. CASE \E n \in Nat : Clear(n)
    BY <2>1, <2>3, ClearMaps
  <2>4. CASE UNCHANGED vars
    <3>1. hash' = hash
      BY <2>4 DEF vars, profile
    <3>2. Grows(hash, hash')
      BY <2>1, <3>1, GrowsOn
    <3> QED
      BY <2>1, <3>2, GrowsMaps
  <2> QED
    BY <2>2, <2>3, <2>4, StepKeeps
<1> QED
  BY <1>1, <1>2, RecordsAlwaysInv, PTL DEF Spec, ActsAsMap, Map!MSpec

\* A report has the records of its session, each once, with all that they
\* counted, those still open at stop as well, however lookups have ordered the
\* buckets (pop_remaining_stacks, lmprof_hash_report).
THEOREM RecordsAlwaysReport ==
  ASSUME KeysSuffice, LoadsOnce
  PROVE  Spec => []ReportsAll
<1>1. RecordsInv => ReportsAll
  BY DEF RecordsInv
<1> QED
  BY <1>1, RecordsAlwaysInv, PTL

\* The graph of a report is connected: every record is reached from the root by
\* the parents that the records name, by identifiers of records or in a
\* compressed graph of functions (P_ID, graph_hash_callback).
THEOREM RecordsAlwaysConnected ==
  ASSUME KeysSuffice, LoadsOnce
  PROVE  Spec => []Connected
<1>1. RecordsInv => Connected
  BY DEF RecordsInv
<1> QED
  BY <1>1, RecordsAlwaysInv, PTL
=============================================================================
