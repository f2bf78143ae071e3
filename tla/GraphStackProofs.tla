-------------------------- MODULE GraphStackProofs --------------------------
(***************************************************************************)
(* Proofs about GraphStack, for any functions and threads, any clock and   *)
(* any depth: the profile stacks nest and their roots stay; they follow    *)
(* the calls of Lua's threads; and the records add up and count all calls. *)
(***************************************************************************)
EXTENDS GraphStack, LuaCallsProofs, FiniteSetTheorems

\* Entries whose records are those of K.
EntriesOf(K) == [rec : K, start : 0 .. MaxTime, path : 0 .. MaxTime]

\* The intervals that a stack measures nest, at time n.
NestedAt(s, n) ==
  \A i \in DOMAIN s :
    s[i].start + s[i].path <= IF i < Len(s) THEN s[i + 1].start ELSE n

\* As long as a return or stop is popping there is something to pop.
SomethingToPop == popping # None => stack[popping.thread] # <<>>

\* Until stop, every stack has the root at its bottom.
RootAtBottom ==
  status \in {"running", "error"} =>
    \A t \in Threads : stack[t] # <<>> => stack[t][1].rec = RootKey

IInv == TypeOK /\ Nested /\ SomethingToPop /\ RootAtBottom

\* RootStays, of one step.
RootsKept ==
  status' = "running" =>
    \A t \in alive : stack[t] # <<>> =>
      /\ stack'[t] # <<>>
      /\ stack'[t][1].rec = RootKey
      /\ stack'[t][1].start = stack[t][1].start

-----------------------------------------------------------------------------
(* Hooks *)

\* Stacks stay well typed when records are added.
LEMMA EntriesMonotonic ==
  ASSUME NEW K, NEW L, K \subseteq L
  PROVE  Seq(EntriesOf(K)) \subseteq Seq(EntriesOf(L))
<1>1. EntriesOf(K) \subseteq EntriesOf(L)
  BY DEF EntriesOf
<1> QED
  BY <1>1, SeqMonotonic

\* Looking records up adds those that were missing and keeps the others.
LEMMA FetchedType ==
  ASSUME ProfileTypeOK, NEW K
  PROVE  /\ DOMAIN Fetched(K) = DOMAIN records \cup K
         /\ \A k \in DOMAIN records \cup K :
              Fetched(K)[k] \in [count : Nat, node : Nat, path : Nat]
BY DEF Fetched, Zero, ProfileTypeOK

\* A new stack has the root at its bottom and measures from now on.
LEMMA NewStackType ==
  ASSUME now \in 0 .. MaxTime, NEW fr \in Seq(CallFrames(Funcs))
  PROVE  /\ NewStack(fr) \in Seq(EntriesOf(NewKeys(fr)))
         /\ NewStack(fr) # <<>> /\ NewStack(fr)[1].rec = RootKey
         /\ NestedAt(NewStack(fr), now)
<1> DEFINE depth == IF ~loadStack THEN 0
                    ELSE IF Len(fr) < MaxStack THEN Len(fr) ELSE MaxStack - 1
           e(i) == Entry(IF i = 1 THEN RootKey ELSE Chain(fr)[i - 1])
<1>0. now \in 0 .. MaxTime /\ now \in Nat /\ 0 \in 0 .. MaxTime
  BY GraphStackAssumption
<1>1. depth \in Nat /\ (depth # 0 => loadStack /\ depth <= Len(fr))
  BY GraphStackAssumption, LenProperties
<1>2. \A i \in 1 .. depth + 1 : e(i) \in EntriesOf(NewKeys(fr))
  <2> TAKE i \in 1 .. depth + 1
  <2>1. CASE i = 1
    <3>1. RootKey \in NewKeys(fr)
      BY DEF NewKeys
    <3> QED
      BY <1>0, <2>1, <3>1 DEF Entry, EntriesOf
  <2>2. CASE i # 1
    <3>1. loadStack /\ i - 1 \in 1 .. Len(fr)
      BY <1>1, <2>2, LenProperties
    <3>2. Chain(fr)[i - 1] \in NewKeys(fr)
      BY <3>1 DEF NewKeys
    <3> QED
      BY <1>0, <2>2, <3>2 DEF Entry, EntriesOf
  <2> QED
    BY <2>1, <2>2
<1>3. NewStack(fr) = [i \in 1 .. depth + 1 |-> e(i)]
  BY DEF NewStack
<1> HIDE DEF depth
<1>4. NewStack(fr) \in Seq(EntriesOf(NewKeys(fr))) /\ Len(NewStack(fr)) = depth + 1
  <2>1. NewStack(fr) \in [1 .. depth + 1 -> EntriesOf(NewKeys(fr))]
    BY <1>2, <1>3
  <2> HIDE DEF e
  <2> QED
    BY <1>1, <2>1
<1>5. \A i \in 1 .. depth + 1 : NewStack(fr)[i].start = now /\ NewStack(fr)[i].path = 0
  BY <1>3 DEF Entry
<1>6. NestedAt(NewStack(fr), now)
  BY <1>0, <1>1, <1>4, <1>5 DEF NestedAt
<1> QED
  BY <1>1, <1>3, <1>4, <1>6 DEF Entry

\* After graph_prehook thread t has a stack; others' may have been freed.
LEMMA PrehookType ==
  ASSUME IInv, status = "running", NEW t \in Threads, NEW fr \in Seq(CallFrames(Funcs)),
         NEW collect \in BOOLEAN
  PROVE  LET s == Prehook(t, fr, collect)
             K == DOMAIN records \cup PrehookKeys(t, fr)
         IN  /\ s \in [Threads -> Seq(EntriesOf(K))] /\ s[t] # <<>>
             /\ \A u \in Threads : NestedAt(s[u], now)
             /\ \A u \in Threads : s[u] # <<>> => s[u][1].rec = RootKey
             /\ \A u \in alive : stack[u] # <<>> => s[u] = stack[u]
             /\ PrehookLost(t, collect) \in [Threads -> Seq(EntriesOf(K))]
<1> DEFINE s == Prehook(t, fr, collect)
           K == DOMAIN records \cup PrehookKeys(t, fr)
           old == EntriesOf(DOMAIN records)
<1>0. ProfileTypeOK /\ LuaTypeOK
  BY DEF IInv, TypeOK
<1>1. stack \in [Threads -> Seq(old)] /\ lost \in [Threads -> Seq(old)]
  BY <1>0 DEF ProfileTypeOK, Entries, EntriesOf
<1>2. Seq(old) \subseteq Seq(EntriesOf(K))
  BY EntriesMonotonic
<1>3. /\ stack[t] = <<>> => NewStack(fr) \in Seq(EntriesOf(K))
      /\ NewStack(fr) # <<>> /\ NewStack(fr)[1].rec = RootKey
      /\ NestedAt(NewStack(fr), now)
  <2>1. stack[t] = <<>> => NewKeys(fr) \subseteq K
    BY DEF PrehookKeys
  <2>2. now \in 0 .. MaxTime
    BY <1>0 DEF ProfileTypeOK
  <2> QED
    BY <2>1, <2>2, NewStackType, EntriesMonotonic
<1>4. <<>> \in Seq(EntriesOf(K)) /\ NestedAt(<<>>, now)
  BY EmptySeq DEF NestedAt
<1>5. s \in [Threads -> Seq(EntriesOf(K))] /\ s[t] # <<>>
  BY <1>1, <1>2, <1>3, <1>4 DEF Prehook
<1>6. \A u \in Threads : NestedAt(s[u], now)
  BY <1>3, <1>4 DEF Prehook, IInv, Nested, NestedAt
<1>7. \A u \in Threads : s[u] # <<>> => s[u][1].rec = RootKey
  BY <1>3 DEF Prehook, IInv, RootAtBottom
<1>8. \A u \in alive : stack[u] # <<>> => s[u] = stack[u]
  BY <1>0 DEF Prehook, LuaTypeOK
<1>9. PrehookLost(t, collect) \in [Threads -> Seq(EntriesOf(K))]
  <2>1. \A u \in Threads : stack[u] \o lost[u] \in Seq(old) /\ lost[u] \in Seq(old)
    BY <1>1, ConcatProperties
  <2> QED
    BY <1>2, <2>1 DEF PrehookLost
<1> QED
  BY <1>5, <1>6, <1>7, <1>8, <1>9

\* An entry pushed now nests in those below it.
LEMMA AppendNested ==
  ASSUME NEW K, NEW s \in Seq(EntriesOf(K)), NEW n \in Nat, NestedAt(s, n),
         NEW e \in EntriesOf(K), e.start = n, e.path = 0
  PROVE  /\ Append(s, e) \in Seq(EntriesOf(K)) /\ Append(s, e) # <<>>
         /\ NestedAt(Append(s, e), n)
         /\ s # <<>> => Append(s, e)[1] = s[1]
<1> DEFINE r == Append(s, e)
<1>1. /\ r \in Seq(EntriesOf(K)) /\ r # <<>> /\ Len(r) = Len(s) + 1
      /\ \A i \in 1 .. Len(s) : r[i] = s[i]
      /\ r[Len(s) + 1] = e
  BY AppendProperties
<1>2. Len(s) \in Nat /\ DOMAIN s = 1 .. Len(s) /\ DOMAIN r = 1 .. Len(s) + 1
  BY <1>1, LenProperties
<1> HIDE DEF r
<1>3. ASSUME NEW i \in 1 .. Len(s) + 1
      PROVE  r[i].start + r[i].path <= IF i < Len(r) THEN r[i + 1].start ELSE n
  <2>1. CASE i = Len(s) + 1
    BY <1>1, <1>2, <2>1
  <2>2. CASE i = Len(s)
    BY <1>1, <1>2, <2>2 DEF NestedAt
  <2>3. CASE i < Len(s)
    BY <1>1, <1>2, <2>3 DEF NestedAt
  <2>4. i = Len(s) + 1 \/ i = Len(s) \/ i < Len(s)
    <3>1. Len(s) \in Nat
      BY <1>2
    <3> QED
      BY <1>3, <3>1
  <2> QED
    BY <2>1, <2>2, <2>3, <2>4
<1>4. NestedAt(r, n)
  BY <1>2, <1>3 DEF NestedAt
<1>5. s # <<>> => r[1] = s[1]
  BY <1>1, <1>2, EmptySeq
<1> QED
  BY <1>1, <1>4, <1>5 DEF r

\* r is what popping leaves of the stack s at time n.
PopIsNested(K, s, n, r) ==
  /\ r \in Seq(EntriesOf(K)) /\ r # <<>> /\ NestedAt(r, n)
  /\ r[1].rec = s[1].rec /\ r[1].start = s[1].start

\* Popping an entry and adding its time to the one below leaves a stack that
\* nests: the sum stays within the time since the lower entry was pushed.
LEMMA PopNested ==
  ASSUME NEW K, NEW s \in Seq(EntriesOf(K)), NEW n \in 0 .. MaxTime,
         NestedAt(s, n), Len(s) # 1, s # <<>>
  PROVE  PopIsNested(K, s, n, [Pop(s) EXCEPT ![Len(s) - 1].path = @ + (n - Top(s).start)])
<1> DEFINE m == Len(s) - 1
           e == [rec |-> s[m].rec, start |-> s[m].start,
                 path |-> s[m].path + (n - s[Len(s)].start)]
           r == [Pop(s) EXCEPT ![m].path = @ + (n - Top(s).start)]
<1>0. MaxTime \in Nat
  BY GraphStackAssumption
<1>1. /\ Len(s) \in Nat /\ m \in Nat \ {0} /\ m \in 1 .. Len(s) /\ Len(s) = m + 1
      /\ DOMAIN s = 1 .. Len(s)
  <2>1. Len(s) \in Nat \ {0}
    BY EmptySeq
  <2>2. DOMAIN s = 1 .. Len(s)
    BY LenProperties
  <2> QED
    BY <2>1, <2>2
<1>2. \A i \in 1 .. Len(s) : s[i] \in EntriesOf(K)
  BY ElementOfSeq
<1>3. /\ s[m] \in EntriesOf(K) /\ s[Len(s)] \in EntriesOf(K)
      /\ s[m].start + s[m].path <= s[Len(s)].start
      /\ s[Len(s)].start + s[Len(s)].path <= n
  <2>1. \A i \in 1 .. Len(s) :
          s[i].start + s[i].path <= IF i < Len(s) THEN s[i + 1].start ELSE n
    BY <1>1 DEF NestedAt
  <2>2. m \in 1 .. Len(s) /\ Len(s) \in 1 .. Len(s) /\ m < Len(s) /\ m + 1 = Len(s)
        /\ ~(Len(s) < Len(s))
    BY <1>1
  <2> HIDE DEF m
  <2>3. s[m].start + s[m].path <= s[m + 1].start
    BY <2>1, <2>2
  <2>4. s[Len(s)].start + s[Len(s)].path <= n
    BY <2>1, <2>2
  <2> QED
    BY <1>2, <2>2, <2>3, <2>4
<1>4. e \in EntriesOf(K) /\ e.start + e.path <= n
  <2>1. /\ s[m].rec \in K /\ s[m].start \in Nat /\ s[m].path \in Nat
        /\ s[m].start \in 0 .. MaxTime
        /\ s[Len(s)].start \in Nat /\ s[Len(s)].path \in Nat
    BY <1>3 DEF EntriesOf
  <2> DEFINE p == s[m].path + (n - s[Len(s)].start)
  <2>2. p \in 0 .. MaxTime /\ s[m].start + p <= n
    <3>1. PICK a \in Nat, b \in Nat, c \in Nat :
            a = s[m].start /\ b = s[m].path /\ c = s[Len(s)].start
      BY <2>1
    <3>2. a + b <= c /\ c <= n
      BY <1>3, <2>1, <3>1
    <3>3. p = b + (n - c)
      BY <3>1
    <3>4. n \in Nat /\ n <= MaxTime
      BY <1>0
    <3> HIDE DEF p
    <3>5. p \in Nat /\ a + p <= n
      BY <3>2, <3>3, <3>4
    <3>6. p <= MaxTime
      BY <1>0, <3>4, <3>5
    <3> QED
      BY <1>0, <3>1, <3>5, <3>6
  <2> HIDE DEF p
  <2> QED
    BY <2>1, <2>2 DEF EntriesOf, p
<1>5. Pop(s) \in Seq(EntriesOf(K)) /\ Len(Pop(s)) = m /\ \A i \in 1 .. m : Pop(s)[i] = s[i]
  BY <1>1, PrefixType DEF Pop
<1>6. r = [Pop(s) EXCEPT ![m] = e]
  <2>1. Pop(s)[m] = s[m] /\ m \in DOMAIN Pop(s)
    BY <1>1, <1>5, LenProperties
  <2>2. [s[m] EXCEPT !.path = s[m].path + (n - s[Len(s)].start)] = e
    BY <1>3, SMTT(30) DEF EntriesOf
  <2> QED
    BY <2>1, <2>2 DEF Top
<1> HIDE DEF m, e, r
<1>7. /\ r \in Seq(EntriesOf(K)) /\ Len(r) = m
      /\ \A i \in 1 .. m : r[i] = IF i = m THEN e ELSE s[i]
  BY <1>1, <1>4, <1>5, <1>6, ExceptSeq
<1>8. r # <<>> /\ DOMAIN r = 1 .. m
  BY <1>1, <1>7, LenProperties, EmptySeq
<1>9. e.start = s[m].start /\ e.rec = s[m].rec
  BY DEF e
<1>10. ASSUME NEW i \in 1 .. m
       PROVE  r[i].start + r[i].path <= IF i < Len(r) THEN r[i + 1].start ELSE n
  <2>1. CASE i = m
    BY <1>4, <1>7, <2>1
  <2>2. CASE i < m
    <3>1. r[i] = s[i] /\ r[i + 1].start = s[i + 1].start
      BY <1>1, <1>7, <1>9, <2>2
    <3>2. s[i].start + s[i].path <= s[i + 1].start
      BY <1>1, <2>2 DEF NestedAt
    <3> QED
      BY <1>7, <2>2, <3>1, <3>2
  <2> QED
    BY <1>1, <2>1, <2>2
<1>11. NestedAt(r, n)
  BY <1>8, <1>10 DEF NestedAt
<1>12. r[1].rec = s[1].rec /\ r[1].start = s[1].start
  BY <1>1, <1>7, <1>9
<1> QED
  BY <1>7, <1>8, <1>11, <1>12 DEF r, m, PopIsNested
-----------------------------------------------------------------------------
(* Steps *)

\* A call event, whichever thread makes it, on whatever calls.
LEMMA CallHookStep ==
  ASSUME IInv, Idle, NEW t \in Threads, NEW fr \in Seq(CallFrames(Funcs)), NEW f,
         NEW collect \in BOOLEAN, CallHook(t, fr, f, collect),
         UNCHANGED <<now, options, popping>>
  PROVE  ProfileTypeOK' /\ Nested' /\ SomethingToPop' /\ RootAtBottom' /\ RootsKept
<1> DEFINE s == Prehook(t, fr, collect)
           K == DOMAIN records \cup PrehookKeys(t, fr)
           key == Key(f, Top(s[t]).rec)
           L == K \cup {key}
<1>0. ProfileTypeOK /\ LuaTypeOK /\ status = "running" /\ popping = None
  BY DEF IInv, TypeOK, Idle
<1>1. /\ s \in [Threads -> Seq(EntriesOf(K))] /\ s[t] # <<>>
      /\ \A u \in Threads : NestedAt(s[u], now)
      /\ \A u \in Threads : s[u] # <<>> => s[u][1].rec = RootKey
      /\ \A u \in alive : stack[u] # <<>> => s[u] = stack[u]
      /\ PrehookLost(t, collect) \in [Threads -> Seq(EntriesOf(K))]
  BY <1>0, PrehookType
<1>2. /\ stack' = s \/ stack' = [s EXCEPT ![t] = Append(@, Entry(key))]
      /\ records' = Fetched(PrehookKeys(t, fr) \cup {key})
      /\ lost' = PrehookLost(t, collect)
      /\ status' \in {"running", "error"}
  BY <1>0 DEF CallHook
<1>3. DOMAIN records' = L /\ \A k \in L : records'[k] \in [count : Nat, node : Nat, path : Nat]
  <2>1. DOMAIN records \cup (PrehookKeys(t, fr) \cup {key}) = L
    OBVIOUS
  <2> HIDE DEF L, key
  <2> QED
    BY <1>0, <1>2, <2>1, FetchedType
<1> HIDE DEF s, K
<1>4. Seq(EntriesOf(K)) \subseteq Seq(EntriesOf(L))
  BY EntriesMonotonic
<1>5. now \in Nat /\ now \in 0 .. MaxTime /\ 0 \in 0 .. MaxTime
  BY <1>0, GraphStackAssumption DEF ProfileTypeOK
<1>6. Entry(key) \in EntriesOf(L) /\ Entry(key).start = now /\ Entry(key).path = 0
  BY <1>5 DEF Entry, EntriesOf
<1> HIDE DEF L, key
<1>7. PICK r : r = Append(s[t], Entry(key))
  OBVIOUS
<1>8. /\ r \in Seq(EntriesOf(L)) /\ r # <<>> /\ NestedAt(r, now) /\ r[1] = s[t][1]
  <2>1. s[t] \in Seq(EntriesOf(L)) /\ NestedAt(s[t], now) /\ s[t] # <<>>
    BY <1>1, <1>4
  <2>2. PICK q, e : q = s[t] /\ e = Entry(key)
    OBVIOUS
  <2>3. PICK n : n = now
    OBVIOUS
  <2>4. NestedAt(q, n) /\ n \in Nat
    BY <1>5, <2>1, <2>2, <2>3
  <2>5. q \in Seq(EntriesOf(L)) /\ e \in EntriesOf(L) /\ e.start = n /\ e.path = 0 /\ q # <<>>
    BY <1>6, <2>1, <2>2, <2>3
  <2>6. Append(q, e) \in Seq(EntriesOf(L)) /\ Append(q, e) # <<>> /\ NestedAt(Append(q, e), n)
        /\ Append(q, e)[1] = q[1]
    BY <2>4, <2>5, AppendNested
  <2> QED
    BY <1>7, <2>2, <2>3, <2>6
<1>9. /\ stack' \in [Threads -> Seq(EntriesOf(L))]
      /\ \A u \in Threads : stack'[u] = s[u] \/ (u = t /\ stack'[u] = r)
  BY <1>1, <1>2, <1>4, <1>7, <1>8
<1>10. ProfileTypeOK'
  <2>1. lost' \in [Threads -> Seq(EntriesOf(L))]
    BY <1>1, <1>2, <1>4
  <2> QED
    BY <1>0, <1>2, <1>3, <1>9, <2>1 DEF ProfileTypeOK, Entries, EntriesOf, options
<1>11. \A u \in Threads : NestedAt(stack'[u], now)
  BY <1>1, <1>8, <1>9
<1>12. Nested'
  BY <1>11 DEF Nested, NestedAt
<1>13. RootAtBottom'
  BY <1>1, <1>8, <1>9 DEF RootAtBottom
<1>14. RootsKept
  <2> SUFFICES ASSUME NEW u \in alive, stack[u] # <<>>
               PROVE  /\ stack'[u] # <<>> /\ stack'[u][1].rec = RootKey
                      /\ stack'[u][1].start = stack[u][1].start
    BY DEF RootsKept
  <2>1. u \in Threads /\ s[u] = stack[u]
    BY <1>0, <1>1 DEF LuaTypeOK
  <2> QED
    BY <1>1, <1>8, <1>9, <2>1
<1> QED
  BY <1>0, <1>10, <1>12, <1>13, <1>14 DEF SomethingToPop

\* What the return events of thread t pop.
PoppingOf(t) == [thread : {t}, fn : Funcs \cup {TailReturn, None}, tails : Nat]

\* graph_prehook before a return or stop.
LEMMA PrehookStep ==
  ASSUME IInv, Idle, NEW t \in Threads, NEW fr \in Seq(CallFrames(Funcs)),
         NEW collect \in BOOLEAN,
         HookPrepares(t, fr, collect), UNCHANGED <<now, options>>,
         status' \in {"running", "stopping"},
         popping' = None \/ popping' \in PoppingOf(t)
  PROVE  ProfileTypeOK' /\ Nested' /\ SomethingToPop' /\ RootAtBottom' /\ RootsKept
<1> DEFINE s == Prehook(t, fr, collect)
           K == DOMAIN records \cup PrehookKeys(t, fr)
<1>0. ProfileTypeOK /\ LuaTypeOK /\ status = "running"
  BY DEF IInv, TypeOK, Idle
<1>1. /\ s \in [Threads -> Seq(EntriesOf(K))] /\ s[t] # <<>>
      /\ \A u \in Threads : NestedAt(s[u], now)
      /\ \A u \in Threads : s[u] # <<>> => s[u][1].rec = RootKey
      /\ \A u \in alive : stack[u] # <<>> => s[u] = stack[u]
      /\ PrehookLost(t, collect) \in [Threads -> Seq(EntriesOf(K))]
  BY <1>0, PrehookType
<1>2. DOMAIN records' = K /\ \A k \in K : records'[k] \in [count : Nat, node : Nat, path : Nat]
  BY <1>0, FetchedType DEF HookPrepares
<1>3. stack' = s /\ lost' = PrehookLost(t, collect)
  BY DEF HookPrepares
<1> HIDE DEF s, K
<1>4. ProfileTypeOK'
  BY <1>0, <1>1, <1>2, <1>3 DEF ProfileTypeOK, Entries, EntriesOf, options, PoppingOf
<1>5. Nested' /\ RootAtBottom' /\ SomethingToPop'
  BY <1>1, <1>3 DEF Nested, NestedAt, RootAtBottom, SomethingToPop, PoppingOf
<1>6. RootsKept
  BY <1>0, <1>1, <1>3 DEF RootsKept, LuaTypeOK
<1> QED
  BY <1>4, <1>5, <1>6

\* The pop of an entry: no subtraction falls below zero, and the root and its
\* start stay unless the root itself is popped.
LEMMA PopStep ==
  ASSUME IInv, NEW t \in Threads, stack[t] # <<>>, MeasuredPop(t),
         UNCHANGED <<now, lost>>
  PROVE  /\ stack' \in [Threads -> Seq(Entries)]' /\ lost' \in [Threads -> Seq(Entries)]'
         /\ \A k \in DOMAIN records' :
              records'[k] \in [count : Nat, node : Nat, path : Nat]
         /\ Nested'
         /\ \A u \in Threads \ {t} : stack'[u] = stack[u]
         /\ Len(stack[t]) = 1 => stack'[t] = <<>>
         /\ Len(stack[t]) # 1 => /\ stack'[t] # <<>>
                                /\ stack'[t][1].rec = stack[t][1].rec
                                /\ stack'[t][1].start = stack[t][1].start
<1> DEFINE K == DOMAIN records
<1>0. ProfileTypeOK /\ now \in 0 .. MaxTime /\ now \in Nat /\ MaxTime \in Nat
  BY GraphStackAssumption DEF IInv, TypeOK, ProfileTypeOK
<1>1. PICK s, n : s = stack[t] /\ n = now
  OBVIOUS
<1>2. /\ s \in Seq(EntriesOf(K)) /\ s # <<>> /\ NestedAt(s, n) /\ n \in 0 .. MaxTime
      /\ \A u \in Threads : NestedAt(stack[u], now)
      /\ stack \in [Threads -> Seq(EntriesOf(K))] /\ lost \in [Threads -> Seq(EntriesOf(K))]
  BY <1>0, <1>1 DEF IInv, Nested, NestedAt, ProfileTypeOK, Entries, EntriesOf
<1>3. PICK e : e = s[Len(s)]
  OBVIOUS
<1>4. /\ Len(s) \in Nat \ {0} /\ DOMAIN s = 1 .. Len(s)
  <2>1. Len(s) \in Nat \ {0}
    BY <1>2, EmptySeq
  <2>2. DOMAIN s = 1 .. Len(s)
    BY <1>2, LenProperties
  <2> QED
    BY <2>1, <2>2
<1>5. /\ e \in EntriesOf(K) /\ e.rec \in K
      /\ e.start \in Nat /\ e.path \in Nat /\ e.start + e.path <= now
  <2>1. Len(s) \in 1 .. Len(s)
    BY <1>4
  <2>2. e \in EntriesOf(K)
    BY <1>2, <1>3, <2>1, ElementOfSeq
  <2>3. e.start + e.path <= IF Len(s) < Len(s) THEN s[Len(s) + 1].start ELSE n
    BY <1>2, <1>3, <1>4, <2>1 DEF NestedAt
  <2>4. ~(Len(s) < Len(s))
    BY <1>4
  <2> QED
    BY <1>1, <2>2, <2>3, <2>4 DEF EntriesOf
<1>6. PICK r : r = [Pop(s) EXCEPT ![Len(s) - 1].path = @ + (n - Top(s).start)]
  OBVIOUS
<1>7. Len(s) # 1 => /\ r \in Seq(EntriesOf(K)) /\ r # <<>> /\ NestedAt(r, n)
                    /\ r[1].rec = s[1].rec /\ r[1].start = s[1].start
  <2>1. SUFFICES ASSUME Len(s) # 1 PROVE PopIsNested(K, s, n, r)
    BY DEF PopIsNested
  <2> HIDE DEF K
  <2> QED
    BY <1>2, <1>6, <2>1, PopNested
<1>8. /\ stack' = [stack EXCEPT ![t] = IF Len(s) = 1 THEN <<>> ELSE r]
      /\ records' = [records EXCEPT ![e.rec] =
                       [count |-> @.count + 1,
                        node |-> @.node + ((now - e.start) - e.path),
                        path |-> @.path + (now - e.start)]]
  BY <1>1, <1>3, <1>6 DEF MeasuredPop, Top
<1> HIDE DEF K
<1>9. /\ stack' \in [Threads -> Seq(EntriesOf(K))]
      /\ \A u \in Threads \ {t} : stack'[u] = stack[u]
      /\ stack'[t] = IF Len(s) = 1 THEN <<>> ELSE r
  BY <1>2, <1>7, <1>8, EmptySeq
<1>10. DOMAIN records' = K
  BY <1>8 DEF K
<1>11. \A k \in K : records'[k] \in [count : Nat, node : Nat, path : Nat]
  <2>1. \A k \in K : records[k] \in [count : Nat, node : Nat, path : Nat]
    BY <1>0 DEF ProfileTypeOK, K
  <2> DEFINE total == now - e.start
             own == (now - e.start) - e.path
  <2>2. total \in Nat /\ own \in Nat
    BY <1>0, <1>5
  <2>3. \A k \in K : k # e.rec => records'[k] = records[k]
    BY <1>8 DEF K
  <2>4. records'[e.rec] = [count |-> records[e.rec].count + 1,
                           node |-> records[e.rec].node + own,
                           path |-> records[e.rec].path + total]
    BY <1>5, <1>8 DEF K
  <2> HIDE DEF total, own
  <2>5. records'[e.rec] \in [count : Nat, node : Nat, path : Nat]
    <3>1. PICK x \in [count : Nat, node : Nat, path : Nat] : x = records[e.rec]
      BY <1>5, <2>1
    <3>2. x.count + 1 \in Nat /\ x.node + own \in Nat /\ x.path + total \in Nat
      BY <2>2
    <3> QED
      BY <2>4, <3>1, <3>2
  <2> QED
    BY <2>1, <2>3, <2>5
<1>12. \A u \in Threads : NestedAt(stack'[u], now)
  <2>1. NestedAt(<<>>, now)
    BY DEF NestedAt
  <2> QED
    BY <1>1, <1>2, <1>7, <1>9, <2>1
<1> QED
  BY <1>1, <1>2, <1>7, <1>9, <1>10, <1>11, <1>12 DEF Nested, NestedAt, Entries, EntriesOf

\* Every action of the program or the profiler keeps the calls well typed.
LEMMA LuaStep ==
  ASSUME IInv, Next
  PROVE  LuaTypeOK'
<1>0. LuaTypeOK /\ ProfileTypeOK /\ SomethingToPop
  BY DEF IInv, TypeOK
<1>1. /\ calls \in [Threads -> Seq(CallFrames(Funcs))] /\ invoked \in [Funcs -> Nat]
      /\ alive \subseteq Threads /\ caught \subseteq Threads /\ hostErr \subseteq Threads
  BY <1>0 DEF LuaTypeOK, CallFrames
<1>2. ASSUME UNCHANGED lua PROVE LuaTypeOK'
  BY <1>0, <1>2 DEF LuaTypeOK, lua
<1>3. ASSUME NEW t \in Threads, NEW f \in Funcs, NEW collect \in BOOLEAN,
             Call(t, f, collect) \/ TailCall(t, f, collect)
      PROVE  LuaTypeOK'
  <2>1. /\ invoked' = [invoked EXCEPT ![f] = @ + 1]
        /\ UNCHANGED <<alive, caught, hostErr>>
        /\ \/ calls' = [calls EXCEPT ![t] = Called(@, f)]
           \/ calls[t] # <<>> /\ calls' = [calls EXCEPT ![t] = TailCalled(@, f)]
    BY <1>3 DEF Call, TailCall
  <2>2. PICK s : s = calls[t] /\ s \in Seq(CallFrames(Funcs))
    BY <1>1
  <2>3. calls' \in [Threads -> Seq(CallFrames(Funcs))]
    <3>1. /\ Called(s, f) \in Seq(CallFrames(Funcs))
          /\ s # <<>> => TailCalled(s, f) \in Seq(CallFrames(Funcs))
      BY <2>2, CallsType
    <3> QED
      BY <1>1, <2>1, <2>2, <3>1
  <2> QED
    BY <1>1, <2>1, <2>3 DEF LuaTypeOK, CallFrames
<1>4. ASSUME NEW t \in Threads, calls[t] # <<>>, Leave(t), UNCHANGED <<hostErr, invoked>>
      PROVE  LuaTypeOK'
  <2>1. PICK s : s = calls[t] /\ s \in Seq(CallFrames(Funcs)) /\ s # <<>>
    BY <1>1, <1>4
  <2>2. calls' = [calls EXCEPT ![t] = Left(s)] /\ Left(s) \in Seq(CallFrames(Funcs))
    BY <1>4, <2>1, LeftType DEF Leave
  <2>3. calls' \in [Threads -> Seq(CallFrames(Funcs))]
    BY <1>1, <2>2
  <2> QED
    BY <1>1, <1>4, <2>3 DEF Leave, LuaTypeOK, CallFrames
<1>5. ASSUME NEW t \in Threads, Raise(t) PROVE LuaTypeOK'
  <2>1. PICK s : s = calls[t] /\ s \in Seq(CallFrames(Funcs))
    BY <1>1
  <2>2. calls' = [calls EXCEPT ![t] = Unwound(s, Pcalls)]
    BY <1>5, <2>1 DEF Raise
  <2>3. calls' \in [Threads -> Seq(CallFrames(Funcs))]
    BY <1>1, <2>1, <2>2, CallsType
  <2>4. caught' \subseteq Threads /\ hostErr' \subseteq Threads /\ alive' \subseteq Threads
    BY <1>1, <1>5 DEF Raise
  <2> QED
    BY <1>1, <1>5, <2>3, <2>4 DEF Raise, LuaTypeOK, CallFrames
<1>6. ASSUME NEW t \in Threads, ThreadStep(t) PROVE LuaTypeOK'
  <2>1. ASSUME NEW collect \in BOOLEAN, Return(t, collect) PROVE LuaTypeOK'
    BY <1>4, <2>1 DEF Return
  <2>2. ASSUME ReturnUnseen(t) PROVE LuaTypeOK'
    BY <1>4, <2>2 DEF ReturnUnseen
  <2>3. ASSUME NEW collect \in BOOLEAN, Stop(t, collect) \/ PopRemaining(t) PROVE LuaTypeOK'
    BY <1>2, <2>3 DEF Stop, PopRemaining
  <2> QED
    BY <1>3, <1>5, <1>6, <2>1, <2>2, <2>3 DEF ThreadStep
<1> QED
  BY <1>2, <1>6 DEF Next, Tick, PopReturned, Stopped

\* Every action keeps the rest of the inductive invariant and the roots.
LEMMA ProfileStep ==
  ASSUME IInv, Next
  PROVE  ProfileTypeOK' /\ Nested' /\ SomethingToPop' /\ RootAtBottom' /\ RootsKept
<1> DEFINE Goal == ProfileTypeOK' /\ Nested' /\ SomethingToPop' /\ RootAtBottom' /\ RootsKept
<1>0. /\ LuaTypeOK /\ ProfileTypeOK /\ Nested /\ SomethingToPop /\ RootAtBottom
      /\ calls \in [Threads -> Seq(CallFrames(Funcs))]
  BY DEF IInv, TypeOK, LuaTypeOK, CallFrames
<1>9. calls' \in [Threads -> Seq(CallFrames(Funcs))]
  BY LuaStep DEF LuaTypeOK, CallFrames
<1>1. CASE UNCHANGED <<now, options, status, stack, records, popping, lost>>
  <2>1. ProfileTypeOK' /\ Nested' /\ SomethingToPop' /\ RootAtBottom'
    BY <1>0, <1>1 DEF ProfileTypeOK, Entries, options, Nested, SomethingToPop, RootAtBottom
  <2>2. RootsKept
    BY <1>0, <1>1 DEF RootsKept, RootAtBottom, LuaTypeOK
  <2> QED
    BY <2>1, <2>2
<1>2. CASE Tick
  <2>1. now' = now + 1 /\ now < MaxTime /\ now \in 0 .. MaxTime /\ MaxTime \in Nat
        /\ UNCHANGED <<options, status, stack, records, popping, lost>>
    BY <1>0, <1>2, GraphStackAssumption DEF Tick, ProfileTypeOK
  <2>2. ProfileTypeOK' /\ SomethingToPop' /\ RootAtBottom'
    <3>1. now' \in 0 .. MaxTime
      BY <2>1
    <3> QED
      BY <1>0, <2>1, <3>1
         DEF ProfileTypeOK, Entries, options, SomethingToPop, RootAtBottom
  <2>3. Nested'
    <3> SUFFICES ASSUME NEW t \in Threads, NEW i \in DOMAIN stack[t]
                 PROVE  stack[t][i].start + stack[t][i].path
                          <= IF i < Len(stack[t]) THEN stack[t][i + 1].start ELSE now + 1
      BY <2>1 DEF Nested
    <3>1. stack[t][i].start + stack[t][i].path
            <= IF i < Len(stack[t]) THEN stack[t][i + 1].start ELSE now
      BY <1>0 DEF Nested
    <3>2. stack[t][i] \in Entries
      <4>1. stack[t] \in Seq(Entries)
        BY <1>0 DEF ProfileTypeOK
      <4> QED
        BY <4>1, ElementOfSeq, LenProperties
    <3>3. stack[t][i].start + stack[t][i].path \in Nat
      BY <2>1, <3>2 DEF Entries
    <3> QED
      BY <2>1, <3>1, <3>3
  <2>4. RootsKept
    BY <1>0, <2>1 DEF RootsKept, RootAtBottom, LuaTypeOK
  <2> QED
    BY <2>2, <2>3, <2>4
<1>3. ASSUME NEW t \in Threads, NEW f \in Funcs, NEW collect \in BOOLEAN,
             Call(t, f, collect) \/ TailCall(t, f, collect)
      PROVE  Goal
  <2>1. PICK fr \in Seq(CallFrames(Funcs)) : fr = calls'[t]
    BY <1>9
  <2>2. /\ CallHook(t, calls'[t], f, collect) /\ Idle
        /\ UNCHANGED <<now, options, popping>>
    BY <1>3 DEF Call, TailCall, MayCall
  <2>3. CallHook(t, fr, f, collect)
    BY <2>1, <2>2
       DEF CallHook
  <2> QED
    BY <2>2, <2>3, CallHookStep
<1>4. ASSUME NEW t \in Threads, NEW collect \in BOOLEAN,
             Return(t, collect) \/ Stop(t, collect)
      PROVE  Goal
  <2>1. PICK fr \in Seq(CallFrames(Funcs)) : fr = calls[t]
    BY <1>0
  <2>2. HookPrepares(t, calls[t], collect) /\ Idle /\ UNCHANGED <<now, options>>
    BY <1>4 DEF Return, Stop, MayCall
  <2>3. HookPrepares(t, fr, collect)
    BY <2>1, <2>2
       DEF HookPrepares, Prehook, PrehookKeys, NewStack, NewKeys, Chain
  <2>4. status' \in {"running", "stopping"}
    BY <1>4 DEF Return, Stop, Idle
  <2>5. popping' = None \/ popping' \in PoppingOf(t)
    <3>1. CASE Stop(t, collect)
      BY <3>1 DEF Stop, MayCall, Idle
    <3>2. CASE Return(t, collect)
      <4>1. fr # <<>>
        BY <2>1, <3>2 DEF Return
      <4>2. Len(fr) \in Nat /\ Len(Left(fr)) \in 0 .. Len(fr) - 1
        BY <4>1, LeftType
      <4>3. Top(fr).fn \in Funcs
        <5>1. Len(fr) \in 1 .. Len(fr)
          BY <4>1, EmptySeq
        <5> QED
          <6>1. fr[Len(fr)] \in CallFrames(Funcs)
            BY <5>1, ElementOfSeq
          <6> QED
            BY <6>1 DEF Top, CallFrames
      <4>4. popping' = [thread |-> t, fn |-> Top(fr).fn,
                        tails |-> IF vm = "puc51" THEN Len(fr) - 1 - Len(Left(fr)) ELSE 0]
        BY <2>1, <3>2 DEF Return
      <4> QED
        BY <4>2, <4>3, <4>4 DEF PoppingOf
    <3> QED
      BY <1>4, <3>1, <3>2
  <2> QED
    BY <2>2, <2>3, <2>4, <2>5, PrehookStep
<1>5. ASSUME NEW t \in Threads, stack[t] # <<>>, MeasuredPop(t),
             UNCHANGED <<now, options, status, lost>>,
             popping' = None \/ popping' \in PoppingOf(t)
      PROVE  ProfileTypeOK' /\ Nested'
  <2>1. /\ stack' \in [Threads -> Seq(Entries)]' /\ lost' \in [Threads -> Seq(Entries)]'
        /\ \A k \in DOMAIN records' :
             records'[k] \in [count : Nat, node : Nat, path : Nat]
        /\ Nested'
    BY <1>5, PopStep
  <2>2. popping' = None
        \/ popping' \in [thread : Threads, fn : Funcs \cup {TailReturn, None}, tails : Nat]
    BY <1>5 DEF PoppingOf
  <2> QED
    BY <1>0, <1>5, <2>1, <2>2 DEF ProfileTypeOK, options
<1>6. CASE PopReturned
  <2>1. /\ status = "running" /\ status' = "running"
        /\ popping \in [thread : Threads, fn : Funcs \cup {TailReturn, None}, tails : Nat]
        /\ UNCHANGED <<now, options, status, lost>>
    BY <1>0, <1>6 DEF PopReturned, ProfileTypeOK
  <2>2. PICK t \in Threads : t = popping.thread
    BY <2>1
  <2>3. stack[t] # <<>>
    BY <1>0, <1>6, <2>2 DEF SomethingToPop, PopReturned
  <2>4. CASE Len(stack[t]) = 1
    <3>1. UNCHANGED <<now, options, status, stack, records, lost>> /\ popping' = None
      BY <1>6, <2>2, <2>4 DEF PopReturned
    <3>2. ProfileTypeOK' /\ Nested' /\ SomethingToPop' /\ RootAtBottom'
      BY <1>0, <3>1 DEF ProfileTypeOK, Entries, options, Nested, SomethingToPop, RootAtBottom
    <3>3. RootsKept
      BY <1>0, <2>1, <3>1 DEF RootsKept, RootAtBottom, LuaTypeOK
    <3> QED
      BY <3>2, <3>3
  <2>5. CASE Len(stack[t]) # 1
    <3>1. MeasuredPop(t)
      BY <1>6, <2>2, <2>5 DEF PopReturned, MeasuredPop
    <3>2. /\ \A u \in Threads \ {t} : stack'[u] = stack[u]
          /\ stack'[t] # <<>> /\ stack'[t][1].rec = stack[t][1].rec
          /\ stack'[t][1].start = stack[t][1].start
      BY <2>1, <2>3, <2>5, <3>1, PopStep
    <3>3. popping' = None \/ popping' \in PoppingOf(t)
      <4>1. PICK q : q = popping
        OBVIOUS
      <4>2. /\ q \in [thread : Threads, fn : Funcs \cup {TailReturn, None}, tails : Nat]
            /\ q.thread = t
        BY <2>1, <2>2, <4>1
      <4>3. \/ popping' = None \/ popping' = q
            \/ q.tails # 0 /\ popping' = [q EXCEPT !.fn = TailReturn, !.tails = @ - 1]
        BY <1>6, <2>2, <2>5, <4>1 DEF PopReturned
      <4>4. CASE q.tails # 0 /\ popping' = [q EXCEPT !.fn = TailReturn, !.tails = @ - 1]
        <5>1. q.tails - 1 \in Nat
          BY <4>2, <4>4
        <5>2. popping' = [thread |-> t, fn |-> TailReturn, tails |-> q.tails - 1]
          BY <4>2, <4>4
        <5> QED
          BY <5>1, <5>2 DEF PoppingOf
      <4>5. CASE popping' = q
        BY <4>2, <4>5 DEF PoppingOf
      <4> QED
        BY <4>3, <4>4, <4>5
    <3>4. ProfileTypeOK' /\ Nested'
      BY <1>5, <2>1, <2>3, <3>1, <3>3
    <3>5. SomethingToPop' /\ RootAtBottom'
      BY <1>0, <2>1, <2>3, <3>2, <3>3 DEF SomethingToPop, RootAtBottom, PoppingOf
    <3>6. RootsKept
      BY <1>0, <2>1, <3>2 DEF RootsKept, RootAtBottom, LuaTypeOK
    <3> QED
      BY <3>4, <3>5, <3>6
  <2> QED
    BY <2>4, <2>5
<1>7. ASSUME NEW t \in Threads, PopRemaining(t) PROVE Goal
  <2>1. /\ status' = "stopping" /\ stack[t] # <<>> /\ MeasuredPop(t)
        /\ UNCHANGED <<now, options, status, lost>>
    BY <1>7 DEF PopRemaining
  <2>2. popping' = None \/ popping' \in PoppingOf(t)
    BY <1>7 DEF PopRemaining, PoppingOf
  <2>3. ProfileTypeOK' /\ Nested'
    BY <1>5, <2>1, <2>2
  <2>4. SomethingToPop'
    <3>1. popping' # None => Len(stack[t]) # 1 /\ popping'.thread = t
      BY <1>7, <2>2 DEF PopRemaining, PoppingOf
    <3>2. Len(stack[t]) # 1 => stack'[t] # <<>>
      BY <2>1, PopStep
    <3> QED
      BY <3>1, <3>2 DEF SomethingToPop
  <2>5. RootAtBottom' /\ RootsKept
    BY <2>1 DEF RootAtBottom, RootsKept
  <2> QED
    BY <2>3, <2>4, <2>5
<1>8. CASE Stopped
  <2>1. UNCHANGED <<now, options, stack, records, popping, lost>> /\ status' = "stopped"
    BY <1>8 DEF Stopped
  <2> QED
    BY <1>0, <2>1 DEF ProfileTypeOK, Entries, options, Nested, SomethingToPop,
                      RootAtBottom, RootsKept
<1>10. ASSUME NEW t \in Threads, ReturnUnseen(t) \/ Raise(t) PROVE Goal
  BY <1>1, <1>10 DEF ReturnUnseen, Raise
<1>11. ASSUME NEW t \in Threads, ThreadStep(t) PROVE Goal
  BY <1>3, <1>4, <1>7, <1>10, <1>11 DEF ThreadStep
<1> HIDE DEF Goal
<1>12. Goal
  BY <1>2, <1>6, <1>8, <1>11 DEF Next, Goal
<1> QED
  BY <1>12 DEF Goal
-----------------------------------------------------------------------------
(* Theorems *)

\* A profiler just started has one stack, that of the main thread.
LEMMA InitIInv ==
  ASSUME Init
  PROVE  IInv
<1>0. /\ Main \in Threads /\ BaseFrames \in Seq(Funcs) /\ MaxTime \in Nat
      /\ 0 \in 0 .. MaxTime /\ Len(BaseFrames) \in Nat
      /\ DOMAIN BaseFrames = 1 .. Len(BaseFrames)
  BY GraphStackAssumption, LenProperties
<1>1. calls \in [Threads -> Seq(CallFrames(Funcs))]
  <2> DEFINE main == [i \in DOMAIN BaseFrames |-> Frame(BaseFrames[i], loadStack)]
  <2>1. loadStack \in BOOLEAN
    BY GraphStackAssumption DEF Init
  <2>2. \A i \in DOMAIN BaseFrames : main[i] \in CallFrames(Funcs)
    <3> TAKE i \in DOMAIN BaseFrames
    <3>1. BaseFrames[i] \in Funcs
      BY <1>0, ElementOfSeq
    <3> QED
      BY <2>1, <3>1 DEF Frame, CallFrames
  <2>3. main \in Seq(CallFrames(Funcs))
    <3>1. main \in [1 .. Len(BaseFrames) -> CallFrames(Funcs)]
      BY <1>0, <2>2
    <3> HIDE DEF main
    <3> QED
      BY <1>0, <3>1
  <2>4. calls = [t \in Threads |-> IF t # Main THEN <<>> ELSE main]
    BY DEF Init
  <2> HIDE DEF main
  <2> QED
    BY <2>3, <2>4, EmptySeq
<1>2. PICK fr \in Seq(CallFrames(Funcs)) : fr = calls[Main]
  BY <1>0, <1>1
<1>3. /\ records = [k \in NewKeys(fr) |-> Zero]
      /\ stack = [t \in Threads |-> IF t = Main THEN NewStack(fr) ELSE <<>>]
  BY <1>2 DEF Init, NewKeys, NewStack, Chain
<1>4. PICK s : s = NewStack(fr)
  OBVIOUS
<1>5. PICK K : K = NewKeys(fr)
  OBVIOUS
<1>6. s \in Seq(EntriesOf(K)) /\ s # <<>> /\ s[1].rec = RootKey /\ NestedAt(s, now)
  <2>1. /\ NewStack(fr) \in Seq(EntriesOf(NewKeys(fr)))
        /\ NewStack(fr) # <<>> /\ NewStack(fr)[1].rec = RootKey
        /\ NestedAt(NewStack(fr), now)
    <3>1. now \in 0 .. MaxTime
      BY <1>0 DEF Init
    <3> QED
      BY <3>1, NewStackType
  <2> QED
    BY <1>4, <1>5, <2>1
<1>7. /\ records = [k \in K |-> Zero]
      /\ stack = [t \in Threads |-> IF t = Main THEN s ELSE <<>>]
  BY <1>3, <1>4, <1>5
<1>8. ProfileTypeOK
  <2>1. stack \in [Threads -> Seq(Entries)] /\ lost \in [Threads -> Seq(Entries)]
    <3>1. DOMAIN records = K /\ Entries = EntriesOf(K)
      BY <1>7 DEF Entries, EntriesOf
    <3> QED
      BY <1>6, <1>7, <3>1, EmptySeq DEF Init
  <2>2. \A k \in DOMAIN records : records[k] \in [count : Nat, node : Nat, path : Nat]
    BY <1>7 DEF Zero
  <2> QED
    BY <1>0, <2>1, <2>2 DEF ProfileTypeOK, Init
<1>9. LuaTypeOK
  <2>1. invoked \in [Funcs -> Nat]
    <3>1. \A f \in Funcs :
            Cardinality({i \in DOMAIN BaseFrames : BaseFrames[i] = f}) \in Nat
      <4> TAKE f \in Funcs
      <4> DEFINE T == {i \in DOMAIN BaseFrames : BaseFrames[i] = f}
      <4>1. IsFiniteSet(1 .. Len(BaseFrames))
        BY <1>0, FS_Interval
      <4>2. T \subseteq 1 .. Len(BaseFrames)
        BY <1>0
      <4> HIDE DEF T
      <4>3. IsFiniteSet(T)
        BY <4>1, <4>2, FS_Subset
      <4>4. Cardinality(T) \in Nat
        BY <4>3, FS_CardinalityType
      <4> QED
        BY <4>4 DEF T
    <3> QED
      BY <3>1 DEF Init
  <2> QED
    BY <1>1, <2>1 DEF LuaTypeOK, Init, CallFrames
<1>10. Nested /\ SomethingToPop /\ RootAtBottom
  <2>1. NestedAt(<<>>, now)
    BY DEF NestedAt
  <2>2. \A t \in Threads : NestedAt(stack[t], now)
    BY <1>6, <1>7, <2>1
  <2> QED
    BY <1>6, <1>7, <2>2 DEF Nested, NestedAt, SomethingToPop, RootAtBottom, Init
<1> QED
  BY <1>8, <1>9, <1>10 DEF IInv, TypeOK

\* Every step keeps the inductive invariant, and the roots of the stacks.
LEMMA NextIInv ==
  ASSUME IInv, [Next]_vars
  PROVE  IInv' /\ [RootsKept]_vars
<1>1. CASE Next
  BY <1>1, LuaStep, ProfileStep DEF IInv, TypeOK
<1>2. CASE UNCHANGED vars
  BY <1>2 DEF vars, options, lua, IInv, TypeOK, LuaTypeOK, ProfileTypeOK, Entries,
              Nested, SomethingToPop, RootAtBottom
<1> QED
  BY <1>1, <1>2

\* The inductive invariant holds in every state.
THEOREM Invariant == Spec => []IInv
<1>1. Init => IInv
  BY InitIInv
<1>2. IInv /\ [Next]_vars => IInv'
  BY NextIInv
<1> QED
  BY <1>1, <1>2, PTL DEF Spec

\* Every variable holds a value of its kind, and so no subtraction of
\* lmprof_stack_measured_pop wraps around: a measurement is never negative.
THEOREM TypeCorrect == Spec => []TypeOK
<1>1. IInv => TypeOK
  BY DEF IInv
<1> QED
  BY <1>1, Invariant, PTL

\* The intervals measured on a stack nest, whatever events errors, tail calls,
\* coroutines and LuaJIT's C functions leave out.
THEOREM StacksNest == Spec => []Nested
<1>1. IInv => Nested
  BY DEF IInv
<1> QED
  BY <1>1, Invariant, PTL

\* Until stop no event pops the root of a living thread's stack.
THEOREM RootAlwaysStays == Spec => RootStays
<1>1. IInv /\ [Next]_vars => [RootsKept]_vars
  BY NextIInv
<1> QED
  BY <1>1, Invariant, PTL DEF Spec, RootStays, RootsKept
-----------------------------------------------------------------------------
(* Attribution *)

\* The functions of a stack's entries.
FnsIn(s) == [i \in DOMAIN s |-> s[i].rec[1]]

\* What a return event has yet to pop for the calls c that it leaves: the call of
\* fn, or that of a tail return, and those of the tail returns after it.
Pops(g, n, fn, tails, c) ==
  \E d \in Seq(CallFrames(Funcs)) :
    /\ Len(d) = Len(c) + tails + 1 /\ c = SubSeq(d, 1, Len(c))
    /\ IF fn = TailReturn THEN Follows(g, n, d, Pcalls, FALSE)
       ELSE Top(d).fn = fn /\ \E b \in BOOLEAN : Follows(g, n, d, Pcalls, b)

\* The stack s of a thread with the calls c follows them; b: the top call has
\* just caught an error.
Attributes(s, c, b) ==
  IF s = <<>> THEN c = <<>> ELSE Follows(FnsIn(s), Len(s), c, Pcalls, b)

\* Under PUC Lua every stack follows the calls, but for what is being popped.
Attributed ==
  status = "running" /\ vm = "puc51" =>
    \A t \in alive \ hostErr :
      IF popping = None \/ popping.thread # t
      THEN Attributes(stack[t], calls[t], t \in caught)
      ELSE /\ stack[t] # <<>> /\ t \notin caught
           /\ Pops(FnsIn(stack[t]), Len(stack[t]), popping.fn, popping.tails, calls[t])

\* The functions of entries.
LEMMA FnsInType ==
  ASSUME NEW E, NEW s \in Seq(E)
  PROVE  \A i \in 1 .. Len(s) : FnsIn(s)[i] = s[i].rec[1]
<1>1. DOMAIN s = 1 .. Len(s)
  BY LenProperties
<1> QED
  BY <1>1 DEF FnsIn

\* A beginning of a beginning.
LEMMA PrefixOfPrefix ==
  ASSUME NEW S, NEW s \in Seq(S), NEW m \in 0 .. Len(s), NEW k \in 0 .. m
  PROVE  SubSeq(SubSeq(s, 1, m), 1, k) = SubSeq(s, 1, k)
<1>1. Len(s) \in Nat
  BY LenProperties
<1>2. PICK r \in Seq(S) : r = SubSeq(s, 1, m) /\ Len(r) = m /\ \A i \in 1 .. m : r[i] = s[i]
  <2>1. /\ SubSeq(s, 1, m) \in Seq(S) /\ Len(SubSeq(s, 1, m)) = m
        /\ \A i \in 1 .. m : SubSeq(s, 1, m)[i] = s[i]
    BY PrefixType
  <2> QED
    BY <2>1
<1>3. k \in 0 .. Len(r) /\ k \in 0 .. Len(s) /\ \A i \in 1 .. k : i \in 1 .. m
  BY <1>1, <1>2
<1>4. PICK a \in Seq(S) : a = SubSeq(r, 1, k) /\ Len(a) = k /\ \A i \in 1 .. k : a[i] = r[i]
  BY <1>3, PrefixType, ZenonT(30)
<1>5. PICK b \in Seq(S) : b = SubSeq(s, 1, k) /\ Len(b) = k /\ \A i \in 1 .. k : b[i] = s[i]
  BY <1>3, PrefixType, ZenonT(30)
<1>6. \A i \in 1 .. k : a[i] = b[i]
  BY <1>2, <1>3, <1>4, <1>5
<1>7. a = b
  BY <1>4, <1>5, <1>6, SeqEqual
<1> QED
  BY <1>2, <1>4, <1>5, <1>7

\* One round of the loop that answers a return event.
LEMMA PopRound ==
  ASSUME NEW c \in Seq(CallFrames(Funcs)), NEW g, NEW n \in Nat \ {0}, NEW fn,
         NEW tails \in Nat, Pops(g, n, fn, tails, c)
  PROVE  /\ n = 1 => Follows(g, 1, c, Pcalls, FALSE)
         /\ n # 1 /\ fn \notin {TailReturn, g[n]} => Pops(g, n - 1, fn, tails, c)
         /\ n # 1 /\ fn \in {TailReturn, g[n]} =>
              IF tails = 0 THEN Follows(g, n - 1, c, Pcalls, FALSE)
              ELSE Pops(g, n - 1, TailReturn, tails - 1, c)
<1>1. PICK d \in Seq(CallFrames(Funcs)) :
        /\ Len(d) = Len(c) + tails + 1 /\ c = SubSeq(d, 1, Len(c))
        /\ IF fn = TailReturn THEN Follows(g, n, d, Pcalls, FALSE)
           ELSE Top(d).fn = fn /\ \E b \in BOOLEAN : Follows(g, n, d, Pcalls, b)
  BY DEF Pops
<1>2. PICK k \in Nat : k = Len(c)
  BY LenProperties
<1>3. /\ Len(d) = k + tails + 1 /\ Len(d) - 1 = k + tails /\ k \in 0 .. Len(d) /\ d # <<>>
      /\ k + tails \in 0 .. Len(d) /\ k \in 0 .. k + tails
  <2>1. Len(d) = k + tails + 1
    BY <1>1, <1>2
  <2>2. d # <<>>
    BY <2>1, EmptySeq
  <2> QED
    BY <2>1, <2>2
<1>4. CASE Follows(g, n, d, Pcalls, FALSE)
  <2>1. /\ n > 1 => Follows(g, n - 1, Pop(d), Pcalls, FALSE) /\ g[n] = Top(d).fn
        /\ n = 1 => \A l \in 0 .. Len(d) : Follows(g, 1, SubSeq(d, 1, l), Pcalls, FALSE)
    BY <1>3, <1>4, FollowsLast
  <2>2. n = 1 => Follows(g, 1, c, Pcalls, FALSE)
    BY <1>1, <1>2, <1>3, <2>1
  <2>3. ASSUME n # 1
        PROVE  /\ fn \in {TailReturn, g[n]}
               /\ IF tails = 0 THEN Follows(g, n - 1, c, Pcalls, FALSE)
                  ELSE Pops(g, n - 1, TailReturn, tails - 1, c)
    <3>1. Follows(g, n - 1, Pop(d), Pcalls, FALSE) /\ fn \in {TailReturn, g[n]}
      <4>1. n > 1
        BY <2>3
      <4> QED
        BY <1>1, <2>1, <4>1
    <3>2. PICK e \in Seq(CallFrames(Funcs)) :
            e = Pop(d) /\ e = SubSeq(d, 1, k + tails) /\ Len(e) = k + tails
      <4>1. Pop(d) = SubSeq(d, 1, k + tails)
        BY <1>3 DEF Pop
      <4>2. PICK l \in 0 .. Len(d) : l = k + tails
        BY <1>3
      <4>3. SubSeq(d, 1, l) \in Seq(CallFrames(Funcs)) /\ Len(SubSeq(d, 1, l)) = l
        BY PrefixType
      <4> QED
        BY <4>1, <4>2, <4>3
    <3>3. c = SubSeq(e, 1, k)
      BY <1>1, <1>2, <1>3, <3>2, PrefixOfPrefix
    <3>4. CASE tails = 0
      <4>1. e = c
        BY <1>1, <1>2, <3>2, <3>4
      <4> QED
        BY <3>1, <3>2, <3>4, <4>1
    <3>5. CASE tails # 0
      <4>1. Len(e) = Len(c) + (tails - 1) + 1 /\ c = SubSeq(e, 1, Len(c))
        BY <1>2, <3>2, <3>3
      <4>2. Follows(g, n - 1, e, Pcalls, FALSE)
        BY <3>1, <3>2
      <4>3. Pops(g, n - 1, TailReturn, tails - 1, c)
        BY <4>1, <4>2 DEF Pops
      <4> QED
        BY <3>1, <3>5, <4>3
    <3> QED
      BY <3>4, <3>5
  <2> QED
    BY <2>2, <2>3
<1>5. CASE ~Follows(g, n, d, Pcalls, FALSE)
  <2>1. fn # TailReturn /\ Top(d).fn = fn /\ Follows(g, n, d, Pcalls, TRUE)
    BY <1>1, <1>5
  <2>2. n > 1 /\ g[n] \notin Pcalls /\ Follows(g, n - 1, d, Pcalls, TRUE)
    BY <1>5, <2>1, FollowsAbove
  <2>3. fn \in Pcalls
    BY <2>1 DEF Follows
  <2>4. fn \notin {TailReturn, g[n]}
    BY <2>1, <2>2, <2>3
  <2>5. Pops(g, n - 1, fn, tails, c)
    BY <1>1, <2>1, <2>2 DEF Pops
  <2>6. n # 1
    BY <2>2
  <2> QED
    BY <2>4, <2>5, <2>6, Zenon
<1> QED
  BY <1>4, <1>5

\* What is left to pop depends on the entries only.
LEMMA PopsAgree ==
  ASSUME NEW g, NEW h, NEW n \in Nat, \A i \in 1 .. n : h[i] = g[i], NEW fn, NEW tails, NEW c,
         Pops(g, n, fn, tails, c)
  PROVE  Pops(h, n, fn, tails, c)
<1>1. PICK d \in Seq(CallFrames(Funcs)) :
        /\ Len(d) = Len(c) + tails + 1 /\ c = SubSeq(d, 1, Len(c))
        /\ IF fn = TailReturn THEN Follows(g, n, d, Pcalls, FALSE)
           ELSE Top(d).fn = fn /\ \E b \in BOOLEAN : Follows(g, n, d, Pcalls, b)
  BY DEF Pops
<1>2. Len(d) \in Nat
  BY LenProperties
<1>3. \A b \in BOOLEAN : Follows(g, n, d, Pcalls, b) => Follows(h, n, d, Pcalls, b)
  BY <1>2, FollowsAgree
<1> QED
  BY <1>1, <1>3 DEF Pops

\* The entries of s below its top one, whose time x is added to theirs.
Popped(s, x) == [Pop(s) EXCEPT ![Len(s) - 1].path = x]

\* The entries that are left keep their functions.
LEMMA PoppedFns ==
  ASSUME NEW K, NEW s \in Seq(EntriesOf(K)), Len(s) # 1, s # <<>>, NEW x,
         NEW r, r = Popped(s, x)
  PROVE  /\ Len(r) = Len(s) - 1
         /\ \A i \in 1 .. Len(s) - 1 : FnsIn(r)[i] = FnsIn(s)[i]
<1> DEFINE m == Len(s) - 1
<1>1. Len(s) \in Nat /\ m \in Nat \ {0} /\ m \in 0 .. Len(s) /\ DOMAIN s = 1 .. Len(s)
  BY EmptySeq, LenProperties
<1>2. PICK p \in Seq(EntriesOf(K)) : /\ p = Pop(s) /\ Len(p) = m /\ DOMAIN p = 1 .. m
                                     /\ \A i \in 1 .. m : p[i] = s[i]
  <2>1. PICK l \in 0 .. Len(s) : l = m /\ Pop(s) = SubSeq(s, 1, l)
    BY <1>1 DEF Pop
  <2>2. /\ SubSeq(s, 1, l) \in Seq(EntriesOf(K)) /\ Len(SubSeq(s, 1, l)) = l
        /\ \A i \in 1 .. l : SubSeq(s, 1, l)[i] = s[i]
    BY PrefixType
  <2>3. DOMAIN SubSeq(s, 1, l) = 1 .. Len(SubSeq(s, 1, l))
    BY <2>2, LenProperties
  <2> QED
    BY <2>1, <2>2, <2>3
<1>3. \A i \in 1 .. m : p[i] \in EntriesOf(K)
  BY <1>2, ElementOfSeq
<1>4. r = [p EXCEPT ![m].path = x]
  BY <1>2 DEF Popped
<1> HIDE DEF m
<1>5. DOMAIN r = 1 .. m /\ \A i \in 1 .. m : r[i].rec = p[i].rec
  BY <1>2, <1>3, <1>4 DEF EntriesOf
<1>6. Len(r) = m
  BY <1>1, <1>5, <1>2, <1>4
<1>7. \A i \in 1 .. m : FnsIn(r)[i] = r[i].rec[1] /\ FnsIn(s)[i] = s[i].rec[1]
  BY <1>1, <1>5 DEF FnsIn, m
<1>8. \A i \in 1 .. m : FnsIn(r)[i] = FnsIn(s)[i]
  <2> TAKE i \in 1 .. m
  <2>1. r[i].rec = s[i].rec
    BY <1>2, <1>5
  <2>2. FnsIn(r)[i] = r[i].rec[1] /\ FnsIn(s)[i] = s[i].rec[1]
    BY <1>7
  <2> QED
    BY <2>1, <2>2, Zenon
<1> QED
  BY <1>6, <1>8 DEF m

\* The threads other than t are as before.
LEMMA OthersAttributed ==
  ASSUME Attributed, status = "running", vm = "puc51", UNCHANGED vm,
         alive' \subseteq alive, hostErr \subseteq hostErr', NEW t,
         popping = None \/ popping.thread = t, popping' = None \/ popping'.thread = t,
         \A u \in alive \ {t} : /\ calls'[u] = calls[u] /\ stack'[u] = stack[u]
                                /\ u \in caught' <=> u \in caught,
         t \in alive' \ hostErr' =>
           IF popping' = None THEN Attributes(stack'[t], calls'[t], t \in caught')
           ELSE /\ stack'[t] # <<>> /\ t \notin caught'
                /\ Pops(FnsIn(stack'[t]), Len(stack'[t]), popping'.fn, popping'.tails, calls'[t])
  PROVE  Attributed'
<1> SUFFICES ASSUME NEW u \in alive' \ hostErr'
             PROVE  IF popping' = None \/ popping'.thread # u
                    THEN Attributes(stack'[u], calls'[u], u \in caught')
                    ELSE /\ stack'[u] # <<>> /\ u \notin caught'
                         /\ Pops(FnsIn(stack'[u]), Len(stack'[u]), popping'.fn, popping'.tails,
                                 calls'[u])
  BY DEF Attributed
<1>1. CASE u = t
  BY <1>1
<1>2. CASE u # t
  <2>1. u \in alive \ hostErr
    OBVIOUS
  <2>2. calls'[u] = calls[u] /\ stack'[u] = stack[u] /\ (u \in caught') = (u \in caught)
    BY <1>2, <2>1
  <2>3. Attributes(stack[u], calls[u], u \in caught)
    BY <1>2, <2>1 DEF Attributed
  <2>4. popping' = None \/ popping'.thread # u
    BY <1>2
  <2> QED
    BY <2>2, <2>3, <2>4
<1> QED
  BY <1>1, <1>2

\* A stack just made follows no calls.
LEMMA NewFollows ==
  ASSUME loadStack = FALSE, NEW fr
  PROVE  Len(NewStack(fr)) = 1 /\ \A g, c : c = <<>> => Follows(g, 1, c, Pcalls, FALSE)
<1>1. PICK r : r = NewStack(fr) /\ r = [i \in 1 .. 0 + 1 |-> r[i]]
  BY DEF NewStack
<1>2. Len(r) = 0 + 1
  BY <1>1
<1>3. ASSUME NEW g, NEW c, c = <<>>
      PROVE  Follows(g, 1, c, Pcalls, FALSE)
  <2>1. c \in Seq(CallFrames(Funcs)) /\ \A i \in 1 .. Len(c) : c[i].seen = FALSE
    BY <1>3
  <2> QED
    BY <2>1, FollowsNone
<1>4. Len(NewStack(fr)) = 1
  BY <1>1, <1>2
<1> QED
  BY <1>3, <1>4

\* After graph_prehook the stack of the running thread follows its calls.
LEMMA PrehookAttributes ==
  ASSUME IInv, status = "running", TRUE \notin LoadStacks, NEW t \in Threads,
         NEW fr \in Seq(CallFrames(Funcs)), NEW collect \in BOOLEAN,
         NEW s, s = Prehook(t, fr, collect)
  PROVE  /\ s[t] \in Seq(EntriesOf(DOMAIN records \cup PrehookKeys(t, fr))) /\ s[t] # <<>>
         /\ \A c : \A b \in BOOLEAN :
              Attributes(stack[t], c, b) /\ (c # <<>> \/ b = FALSE)
              => Follows(FnsIn(s[t]), Len(s[t]), c, Pcalls, b)
<1>1. s[t] \in Seq(EntriesOf(DOMAIN records \cup PrehookKeys(t, fr))) /\ s[t] # <<>>
  <2>1. LET r == Prehook(t, fr, collect)
            K == DOMAIN records \cup PrehookKeys(t, fr)
        IN  r \in [Threads -> Seq(EntriesOf(K))] /\ r[t] # <<>>
    BY PrehookType
  <2> QED
    BY <2>1
<1>2. s[t] = IF stack[t] = <<>> THEN NewStack(fr) ELSE stack[t]
  BY DEF Prehook
<1>3. loadStack = FALSE
  BY GraphStackAssumption DEF IInv, TypeOK, ProfileTypeOK
<1>4. Len(NewStack(fr)) = 1 /\ \A g, c : c = <<>> => Follows(g, 1, c, Pcalls, FALSE)
  BY <1>3, NewFollows
<1>5. ASSUME NEW c, NEW b \in BOOLEAN, Attributes(stack[t], c, b), c # <<>> \/ b = FALSE
      PROVE  Follows(FnsIn(s[t]), Len(s[t]), c, Pcalls, b)
  BY <1>2, <1>4, <1>5 DEF Attributes
<1> QED
  BY <1>1, <1>5

\* A call event.
LEMMA CallAttributed ==
  ASSUME IInv, Attributed, Idle, vm = "puc51", TRUE \notin LoadStacks,
         NEW t \in alive \ caught, NEW f \in Funcs, NEW collect \in BOOLEAN,
         NEW d, \/ d = Called(calls[t], f)
                \/ calls[t] # <<>> /\ d = TailCalled(calls[t], f),
         calls' = [calls EXCEPT ![t] = d], CallHook(t, d, f, collect),
         UNCHANGED <<options, alive, caught, hostErr, popping>>, status' = "running"
  PROVE  Attributed'
<1>1. /\ t \in Threads /\ calls \in [Threads -> Seq(CallFrames(Funcs))] /\ alive \subseteq Threads
      /\ status = "running" /\ popping = None /\ popping' = None /\ UNCHANGED vm
  BY DEF IInv, TypeOK, LuaTypeOK, CallFrames, Idle, options
<1>2. PICK c \in Seq(CallFrames(Funcs)) : c = calls[t]
  BY <1>1
<1>3. d \in Seq(CallFrames(Funcs))
  <2>1. d = Called(c, f) \/ (c # <<>> /\ d = TailCalled(c, f))
    BY <1>2
  <2> QED
    BY <2>1, CalledIs
<1>4. calls'[t] = d /\ \A u \in alive \ {t} : calls'[u] = calls[u]
  BY <1>1
<1>5. PICK p, L : p = Prehook(t, d, collect) /\ L = EntriesOf(DOMAIN records \cup PrehookKeys(t, d))
  OBVIOUS
<1>6. PICK K : K = DOMAIN records \cup PrehookKeys(t, d)
  OBVIOUS
<1>7. PICK e : e = Entry(Key(f, Top(p[t]).rec))
  OBVIOUS
<1>8. stack' = [p EXCEPT ![t] = Append(@, e)] /\ e.rec[1] = f
  <2>2. "running" # "error"
    OBVIOUS
  <2>3. stack' = [p EXCEPT ![t] = Append(@, e)]
    BY <1>1, <1>5, <1>7, <2>2 DEF CallHook
  <2> QED
    BY <1>7, <2>3 DEF Entry, Key
<1>9. DOMAIN p = Threads /\ \A u \in alive \ {t} : p[u] = stack[u]
  BY <1>1, <1>5 DEF Prehook
<1>10. ASSUME t \in alive \ hostErr
       PROVE  Attributes(stack'[t], d, FALSE)
  <2>1. Attributes(stack[t], c, FALSE)
    <3>1. (t \in caught) = FALSE
      OBVIOUS
    <3> QED
      BY <1>1, <1>2, <1>10, <3>1 DEF Attributed
  <2>2. p[t] \in Seq(EntriesOf(K)) /\ p[t] # <<>> /\ Follows(FnsIn(p[t]), Len(p[t]), c, Pcalls, FALSE)
    <3>1. /\ p[t] \in Seq(EntriesOf(K)) /\ p[t] # <<>>
          /\ \A z : \A b \in BOOLEAN :
               Attributes(stack[t], z, b) /\ (z # <<>> \/ b = FALSE)
               => Follows(FnsIn(p[t]), Len(p[t]), z, Pcalls, b)
      BY <1>1, <1>3, <1>5, <1>6, PrehookAttributes
    <3> QED
      BY <2>1, <3>1
  <2>3. PICK S : S = EntriesOf(K) \cup {e}
    OBVIOUS
  <2>4. PICK s \in Seq(S) : s = p[t]
    <3>1. EntriesOf(K) \subseteq S
      BY <2>3
    <3> QED
      BY <2>2, <3>1, SeqMonotonic
  <2>5. PICK n \in Nat \ {0} : n = Len(s)
    BY <2>2, <2>4, EmptySeq
  <2>6. PICK r \in Seq(S) : /\ r = Append(s, e) /\ Len(r) = n + 1 /\ r[n + 1] = e
                            /\ \A i \in 1 .. n : r[i] = s[i]
    <3>1. /\ Append(s, e) \in Seq(S) /\ Len(Append(s, e)) = Len(s) + 1
          /\ Append(s, e)[Len(s) + 1] = e
          /\ \A i \in 1 .. Len(s) : Append(s, e)[i] = s[i]
      BY <2>3, AppendProperties
    <3> QED
      BY <2>5, <3>1
  <2>7. \A i \in 1 .. Len(s) : FnsIn(s)[i] = s[i].rec[1]
    BY FnsInType
  <2>8. \A i \in 1 .. Len(r) : FnsIn(r)[i] = r[i].rec[1]
    BY FnsInType
  <2>9. PICK g, h : g = FnsIn(s) /\ h = FnsIn(r)
    OBVIOUS
  <2>10. h[n + 1] = f /\ \A i \in 1 .. n : h[i] = g[i]
    <3>1. n + 1 \in 1 .. n + 1 /\ \A i \in 1 .. n : i \in 1 .. n + 1
      OBVIOUS
    <3> QED
      BY <1>8, <2>5, <2>6, <2>7, <2>8, <2>9, <3>1, SMTT(30)
  <2>11. Follows(h, n + 1, d, Pcalls, FALSE)
    <3>1. Follows(g, n, c, Pcalls, FALSE)
      BY <2>2, <2>4, <2>5, <2>9
    <3>2. d = Called(c, f) \/ (c # <<>> /\ d = TailCalled(c, f))
      BY <1>2
    <3>3. \A P : Follows(g, n, c, P, FALSE) => Follows(h, n + 1, d, P, FALSE)
      BY <2>10, <3>2, FollowsCalled
    <3> QED
      BY <3>1, <3>3
  <2>12. stack'[t] = r /\ r # <<>>
    BY <1>1, <1>8, <1>9, <2>4, <2>6, AppendProperties
  <2> QED
    BY <2>6, <2>9, <2>11, <2>12 DEF Attributes
<1>11. \A u \in alive \ {t} : stack'[u] = stack[u]
  BY <1>1, <1>8, <1>9
<1>12. (t \in caught') = FALSE
  OBVIOUS
<1> QED
  BY <1>1, <1>4, <1>10, <1>11, <1>12, OthersAttributed

\* A return event, before it pops.
LEMMA ReturnAttributed ==
  ASSUME IInv, Attributed, vm = "puc51", TRUE \notin LoadStacks,
         NEW t \in Threads, NEW collect \in BOOLEAN, Return(t, collect)
  PROVE  Attributed'
<1>1. /\ calls \in [Threads -> Seq(CallFrames(Funcs))] /\ alive \subseteq Threads
      /\ status = "running" /\ status' = "running" /\ popping = None /\ UNCHANGED vm
      /\ calls[t] # <<>> /\ hostErr' = hostErr
  BY DEF IInv, TypeOK, LuaTypeOK, CallFrames, Return, Idle, options
<1>2. PICK c \in Seq(CallFrames(Funcs)) : c = calls[t] /\ c # <<>>
  BY <1>1
<1>3. /\ calls' = [calls EXCEPT ![t] = Left(c)] /\ alive' \subseteq alive
      /\ caught' = caught \ {t}
      /\ popping' = [thread |-> t, fn |-> Top(c).fn, tails |-> Len(c) - 1 - Len(Left(c))]
      /\ stack' = Prehook(t, c, collect)
  <2>1. stack' = Prehook(t, calls[t], collect)
    BY DEF Return, HookPrepares
  <2> QED
    BY <1>2, <2>1 DEF Return, Leave, Prehook, NewStack, Chain
<1>4. ASSUME t \in alive \ hostErr
      PROVE  /\ stack'[t] # <<>>
             /\ Pops(FnsIn(stack'[t]), Len(stack'[t]), Top(c).fn, Len(c) - 1 - Len(Left(c)), Left(c))
  <2>1. PICK b \in BOOLEAN : b = (t \in caught)
    <3>1. CASE t \in caught
      BY <3>1, TRUE = (t \in caught)
    <3>2. CASE t \notin caught
      BY <3>2, FALSE = (t \in caught)
    <3> QED
      BY <3>1, <3>2
  <2>2. Attributes(stack[t], c, b)
    BY <1>1, <1>2, <1>4, <2>1 DEF Attributed
  <2>3. stack'[t] # <<>> /\ Follows(FnsIn(stack'[t]), Len(stack'[t]), c, Pcalls, b)
    <3>1. /\ Prehook(t, c, collect)[t] # <<>>
          /\ Follows(FnsIn(Prehook(t, c, collect)[t]), Len(Prehook(t, c, collect)[t]), c, Pcalls, b)
      <4>1. c # <<>> \/ b = FALSE
        BY <1>2
      <4>2. status = "running"
        BY <1>1
      <4>3. PICK p : p = Prehook(t, c, collect)
        OBVIOUS
      <4>4. p[t] # <<>> /\ \A e : \A a \in BOOLEAN :
              Attributes(stack[t], e, a) /\ (e # <<>> \/ a = FALSE)
              => Follows(FnsIn(p[t]), Len(p[t]), e, Pcalls, a)
        BY <4>2, <4>3, PrehookAttributes
      <4> QED
        BY <2>2, <4>1, <4>3, <4>4, Zenon
    <3> QED
      BY <1>3, <3>1, Zenon
  <2>4. PICK k \in 0 .. Len(c) - 1 : Left(c) = SubSeq(c, 1, k)
    BY <1>2, LeftIs
  <2>5. Len(c) \in Nat \ {0} /\ k \in 0 .. Len(c)
    <3>1. Len(c) \in Nat \ {0}
      BY <1>2, EmptySeq
    <3> QED
      BY <2>4, <3>1
  <2>6. Len(Left(c)) = k
    BY <2>4, <2>5, PrefixType
  <2>7. Len(c) = Len(Left(c)) + (Len(c) - 1 - Len(Left(c))) + 1 /\ Left(c) = SubSeq(c, 1, Len(Left(c)))
    BY <2>4, <2>5, <2>6
  <2>8. Top(c).fn # TailReturn
    <3>1. c[Len(c)] \in CallFrames(Funcs)
      BY <2>5, ElementOfSeq
    <3> QED
      BY <3>1, GraphStackAssumption DEF Top, CallFrames
  <2> QED
    BY <2>3, <2>7, <2>8 DEF Pops
<1>5. \A u \in alive \ {t} : /\ calls'[u] = calls[u] /\ stack'[u] = stack[u]
                             /\ u \in caught' <=> u \in caught
  BY <1>1, <1>3 DEF Prehook
<1>6. popping'.thread = t /\ popping'.fn = Top(c).fn /\ popping'.tails = Len(c) - 1 - Len(Left(c))
  BY <1>3
<1>7. calls'[t] = Left(c) /\ t \notin caught'
  BY <1>1, <1>3
<1>8. popping' # None
  <2>1. Top(c).fn \in Funcs
    <3>1. Len(c) \in 1 .. Len(c)
      BY <1>2, EmptySeq
    <3>2. c[Len(c)] \in CallFrames(Funcs)
      BY <3>1, ElementOfSeq
    <3> QED
      BY <3>2 DEF Top, CallFrames
  <2>2. Len(c) - 1 - Len(Left(c)) \in Nat
    BY <1>2, LeftType
  <2>3. popping' \in [thread : Threads, fn : Funcs \cup {TailReturn, None}, tails : Nat]
    BY <1>3, <2>1, <2>2
  <2> QED
    BY <2>3, GraphStackAssumption
<1>9. t \in alive' \ hostErr' => t \in alive \ hostErr
  BY <1>1, <1>3
<1> QED
  BY <1>1, <1>3, <1>4, <1>5, <1>6, <1>7, <1>8, <1>9, OthersAttributed

\* One round of popping.
LEMMA PopReturnedAttributed ==
  ASSUME IInv, Attributed, vm = "puc51", PopReturned
  PROVE  Attributed'
<1>1. /\ status = "running" /\ UNCHANGED vm
      /\ popping \in [thread : Threads, fn : Funcs \cup {TailReturn, None}, tails : Nat]
      /\ calls' = calls /\ alive' = alive /\ caught' = caught /\ hostErr' = hostErr
      /\ calls \in [Threads -> Seq(CallFrames(Funcs))]
      /\ stack \in [Threads -> Seq(EntriesOf(DOMAIN records))]
      /\ alive \subseteq Threads
  BY DEF IInv, TypeOK, LuaTypeOK, ProfileTypeOK, CallFrames, PopReturned, lua, options, Entries,
         EntriesOf
<1>2. PICK t \in Threads : t = popping.thread
  BY <1>1
<1>3. PICK k \in Nat : k = popping.tails
  <2>1. popping.tails \in Nat
    BY <1>1
  <2> QED
    BY <2>1
<1>4. PICK K, fn : K = DOMAIN records /\ fn = popping.fn
  OBVIOUS
<1>5. PICK s \in Seq(EntriesOf(K)) : s = stack[t] /\ s # <<>>
  BY <1>1, <1>2, <1>4 DEF IInv, SomethingToPop, PopReturned
<1>6. PICK n \in Nat \ {0} : n = Len(s)
  BY <1>5, EmptySeq
<1>7. PICK g : g = FnsIn(s)
  OBVIOUS
<1>8. g[n] = Top(s).rec[1]
  <2>1. n \in 1 .. Len(s)
    BY <1>6
  <2>2. FnsIn(s)[n] = s[n].rec[1]
    BY <2>1, FnsInType
  <2> QED
    BY <1>6, <1>7, <2>2 DEF Top
<1>9. popping # None
  BY DEF PopReturned
<1>10. popping' = IF n = 1 \/ (fn \in {TailReturn, g[n]} /\ k = 0) THEN None
                  ELSE IF fn \in {TailReturn, g[n]}
                  THEN [popping EXCEPT !.fn = TailReturn, !.tails = @ - 1]
                  ELSE popping
  BY <1>2, <1>3, <1>4, <1>5, <1>6, <1>8 DEF PopReturned
<1>11. ASSUME t \in alive \ hostErr
       PROVE  t \notin caught /\ Pops(g, n, fn, k, calls[t])
  BY <1>1, <1>2, <1>3, <1>4, <1>5, <1>6, <1>7, <1>9, <1>11 DEF Attributed
<1>12. PICK c \in Seq(CallFrames(Funcs)) : c = calls[t]
  BY <1>1
<1>13. ASSUME t \in alive \ hostErr
       PROVE  /\ n = 1 => Follows(g, 1, c, Pcalls, FALSE)
              /\ n # 1 /\ fn \notin {TailReturn, g[n]} => Pops(g, n - 1, fn, k, c)
              /\ n # 1 /\ fn \in {TailReturn, g[n]} =>
                   IF k = 0 THEN Follows(g, n - 1, c, Pcalls, FALSE)
                   ELSE Pops(g, n - 1, TailReturn, k - 1, c)
  <2>1. Pops(g, n, fn, k, c)
    BY <1>11, <1>12, <1>13
  <2> QED
    BY <2>1, PopRound
<1>14. \A u \in alive \ {t} : stack'[u] = stack[u]
  BY <1>1, <1>2 DEF PopReturned, MeasuredPop
<1>15. popping' = None \/ popping'.thread = t
  BY <1>1, <1>2, <1>10
<1>16. CASE n = 1
  <2>1. popping' = None /\ stack' = stack
    BY <1>2, <1>5, <1>6, <1>10, <1>16 DEF PopReturned
  <2>2. ASSUME t \in alive \ hostErr PROVE Attributes(stack'[t], calls'[t], t \in caught')
    <3>1. Follows(FnsIn(s), Len(s), c, Pcalls, FALSE)
      BY <1>6, <1>7, <1>13, <1>16, <2>2
    <3>2. Attributes(s, c, FALSE)
      BY <1>5, <3>1 DEF Attributes
    <3>3. (t \in caught') = FALSE
      BY <1>1, <1>11, <2>2
    <3> QED
      BY <1>1, <1>5, <1>12, <2>1, <3>2, <3>3
  <2> QED
    BY <1>1, <1>2, <1>14, <1>15, <2>1, <2>2, OthersAttributed
<1>17. CASE n # 1
  <2>1. PICK x, r : r = Popped(s, x) /\ stack'[t] = r
    BY <1>1, <1>2, <1>5, <1>6, <1>17 DEF PopReturned, MeasuredPop, Popped
  <2>2. Len(r) = n - 1 /\ n - 1 \in Nat \ {0} /\ \A i \in 1 .. n - 1 : FnsIn(r)[i] = g[i]
    <3>1. Len(s) # 1
      BY <1>6, <1>17
    <3>2. Len(r) = Len(s) - 1 /\ \A i \in 1 .. Len(s) - 1 : FnsIn(r)[i] = FnsIn(s)[i]
      BY <1>5, <2>1, <3>1, PoppedFns
    <3> QED
      BY <1>6, <1>7, <1>17, <3>2
  <2>3. r # <<>>
    BY <2>2
  <2>4. PICK h : h = FnsIn(r)
    OBVIOUS
  <2>5. PICK m \in Nat : m = n - 1 /\ m = Len(r)
    BY <2>2
  <2>6. /\ \A i \in 1 .. m : h[i] = g[i]
        /\ Len(c) \in Nat
    BY <2>2, <2>4, <2>5, LenProperties
  <2>7. Follows(g, m, c, Pcalls, FALSE) => Follows(h, m, c, Pcalls, FALSE)
    BY <2>6, FollowsAgree
  <2>8. \A e, l : Pops(g, m, e, l, c) => Pops(h, m, e, l, c)
    BY <2>6, PopsAgree
  <2>9. CASE fn \in {TailReturn, g[n]} /\ k = 0
    <3>1. popping' = None
      BY <1>10, <2>9
    <3>2. ASSUME t \in alive \ hostErr PROVE Attributes(stack'[t], calls'[t], t \in caught')
      <4>1. Follows(h, m, c, Pcalls, FALSE)
        BY <1>13, <1>17, <2>5, <2>7, <2>9, <3>2
      <4>2. Attributes(r, c, FALSE)
        BY <2>3, <2>4, <2>5, <4>1 DEF Attributes
      <4>3. (t \in caught') = FALSE
        BY <1>1, <1>11, <3>2
      <4> QED
        BY <1>1, <1>12, <2>1, <4>2, <4>3
    <3> QED
      BY <1>1, <1>2, <1>14, <1>15, <3>1, <3>2, OthersAttributed
  <2>10. CASE ~(fn \in {TailReturn, g[n]} /\ k = 0)
    <3>1. PICK e, l : e = popping'.fn /\ l = popping'.tails
      OBVIOUS
    <3>2. /\ fn \notin {TailReturn, g[n]} => popping' = popping /\ e = fn /\ l = k
          /\ fn \in {TailReturn, g[n]} => popping' # None /\ e = TailReturn /\ l = k - 1 /\ k # 0
      <4>1. CASE fn \notin {TailReturn, g[n]}
        BY <1>3, <1>4, <1>10, <1>17, <3>1, <4>1
      <4>2. CASE fn \in {TailReturn, g[n]}
        <5>1. k # 0 /\ k - 1 \in Nat
          BY <2>10, <4>2
        <5>2. popping' = [thread |-> t, fn |-> TailReturn, tails |-> k - 1]
          BY <1>1, <1>2, <1>3, <1>4, <1>10, <1>17, <2>10, <4>2
        <5>3. popping' \in [thread : Threads, fn : Funcs \cup {TailReturn, None}, tails : Nat]
          BY <5>1, <5>2
        <5>4. popping' # None
          BY <5>3, GraphStackAssumption
        <5> QED
          BY <3>1, <4>2, <5>1, <5>2, <5>4
      <4> QED
        BY <4>1, <4>2
    <3>3. popping' # None
      BY <1>9, <3>2
    <3>4. ASSUME t \in alive \ hostErr
          PROVE  stack'[t] # <<>> /\ t \notin caught'
                 /\ Pops(FnsIn(stack'[t]), Len(stack'[t]), popping'.fn, popping'.tails, calls'[t])
      <4>1. Pops(g, m, e, l, c)
        <5>1. CASE fn \notin {TailReturn, g[n]}
          BY <1>13, <1>17, <2>5, <3>2, <3>4, <5>1
        <5>2. CASE fn \in {TailReturn, g[n]}
          BY <1>13, <1>17, <2>5, <3>2, <3>4, <5>2
        <5> QED
          BY <5>1, <5>2
      <4>2. Pops(h, m, e, l, c)
        BY <2>8, <4>1
      <4>3. t \notin caught'
        BY <1>1, <1>11, <3>4
      <4> QED
        BY <1>1, <1>12, <2>1, <2>3, <2>4, <2>5, <3>1, <4>2, <4>3
    <3> QED
      BY <1>1, <1>2, <1>14, <1>15, <3>3, <3>4, OthersAttributed
  <2> QED
    BY <2>9, <2>10
<1> QED
  BY <1>16, <1>17

\* An error that a pcall catches; one that none does ends the coroutine, or
\* reaches the host.
LEMMA RaiseAttributed ==
  ASSUME IInv, Attributed, vm = "puc51", NEW t \in Threads, Raise(t)
  PROVE  Attributed'
<1>1. /\ status = "running" /\ UNCHANGED vm /\ popping = None /\ popping' = None
      /\ t \in alive \ caught /\ calls[t] # <<>> /\ stack' = stack
      /\ calls \in [Threads -> Seq(CallFrames(Funcs))]
      /\ alive \subseteq Threads
  BY DEF IInv, TypeOK, LuaTypeOK, CallFrames, Raise, MayCall, Idle, options
<1>2. PICK c \in Seq(CallFrames(Funcs)) : c = calls[t] /\ c # <<>>
  BY <1>1
<1>3. PICK d : d = Unwound(c, Pcalls)
  OBVIOUS
<1>4. /\ calls' = [calls EXCEPT ![t] = d]
      /\ caught' = IF d = <<>> THEN caught ELSE caught \cup {t}
      /\ hostErr' = IF d = <<>> /\ t = Main THEN hostErr \cup {t} ELSE hostErr
      /\ alive' = IF d = <<>> /\ t # Main THEN alive \ {t} ELSE alive
  BY <1>2, <1>3 DEF Raise
<1>5. calls'[t] = d /\ alive' \subseteq alive /\ hostErr \subseteq hostErr'
  BY <1>1, <1>4
<1>6. \A u \in alive \ {t} : /\ calls'[u] = calls[u] /\ stack'[u] = stack[u]
                             /\ u \in caught' <=> u \in caught
  BY <1>1, <1>4
<1>7. ASSUME t \in alive' \ hostErr'
      PROVE  Attributes(stack'[t], calls'[t], t \in caught')
  <2>1. d # <<>> /\ t \in alive \ hostErr
    BY <1>4, <1>5, <1>7
  <2>2. Attributes(stack[t], c, FALSE)
    <3>1. (t \in caught) = FALSE
      BY <1>1
    <3> QED
      BY <1>1, <1>2, <2>1, <3>1 DEF Attributed
  <2>3. PICK s : s = stack[t]
    OBVIOUS
  <2>4. s # <<>> /\ Follows(FnsIn(s), Len(s), c, Pcalls, FALSE)
    BY <1>2, <2>2, <2>3 DEF Attributes
  <2>5. PICK n \in Nat : n = Len(s)
    <3>1. s \in Seq(EntriesOf(DOMAIN records))
      BY <2>3 DEF IInv, TypeOK, ProfileTypeOK, Entries, EntriesOf
    <3> QED
      BY <3>1, LenProperties
  <2>6. Follows(FnsIn(s), n, d, Pcalls, TRUE)
    BY <1>3, <2>1, <2>4, <2>5, FollowsRaised
  <2>7. Attributes(s, d, TRUE)
    BY <2>4, <2>5, <2>6 DEF Attributes
  <2>8. (t \in caught') = TRUE
    BY <1>4, <2>1
  <2> QED
    BY <1>1, <1>5, <2>3, <2>7, <2>8
<1> QED
  BY <1>1, <1>5, <1>6, <1>7, OthersAttributed

\* At first the stack of the main thread follows its calls, none of which was
\* seen.
LEMMA InitAttributed ==
  ASSUME Init, TRUE \notin LoadStacks
  PROVE  Attributed
<1>1. /\ IInv /\ loadStack = FALSE /\ Main \in Threads
      /\ stack = [t \in Threads |-> IF t = Main THEN NewStack(calls[Main]) ELSE <<>>]
      /\ calls = [t \in Threads |->
                    IF t # Main THEN <<>>
                    ELSE [i \in DOMAIN BaseFrames |-> Frame(BaseFrames[i], loadStack)]]
      /\ popping = None /\ caught = {} /\ alive = Threads
  BY InitIInv, GraphStackAssumption DEF Init
<1>2. PICK c \in Seq(CallFrames(Funcs)) : c = calls[Main]
  BY <1>1 DEF IInv, TypeOK, LuaTypeOK, CallFrames
<1>3. \A i \in 1 .. Len(c) : c[i].seen = FALSE
  <2>1. c = [i \in DOMAIN BaseFrames |-> Frame(BaseFrames[i], FALSE)]
    BY <1>1, <1>2
  <2>2. DOMAIN c = 1 .. Len(c)
    BY LenProperties
  <2> QED
    BY <2>1, <2>2 DEF Frame
<1>4. PICK s, g : s = NewStack(c) /\ g = FnsIn(s)
  OBVIOUS
<1>5. Len(s) = 1 /\ s # <<>>
  <2>1. Len(NewStack(c)) = 1
    BY <1>1, NewFollows
  <2> QED
    BY <1>4, <2>1
<1>6. Follows(g, 1, c, Pcalls, FALSE)
  BY <1>3, FollowsNone
<1>7. Attributes(s, c, FALSE)
  BY <1>4, <1>5, <1>6 DEF Attributes
<1>8. Attributes(stack[Main], calls[Main], FALSE)
  <2>1. stack[Main] = s
    <3>1. stack[Main] = NewStack(calls[Main])
      BY <1>1
    <3> QED
      BY <1>2, <1>4, <3>1 DEF NewStack, Chain
  <2> QED
    BY <1>2, <1>7, <2>1
<1>9. ASSUME NEW t \in Threads PROVE Attributes(stack[t], calls[t], t \in caught)
  <2>1. (t \in caught) = FALSE
    BY <1>1
  <2>2. CASE t = Main
    BY <1>8, <2>1, <2>2
  <2>3. CASE t # Main
    <3>1. stack[t] = <<>> /\ calls[t] = <<>>
      BY <1>1, <2>3
    <3> QED
      BY <3>1 DEF Attributes
  <2> QED
    BY <2>2, <2>3
<1> QED
  BY <1>1, <1>9 DEF Attributed

\* Every step keeps the stacks following the calls.
LEMMA NextAttributed ==
  ASSUME IInv, Attributed, [Next]_vars, TRUE \notin LoadStacks
  PROVE  Attributed'
<1> SUFFICES ASSUME status' = "running", vm' = "puc51"
             PROVE  Attributed'
  BY DEF Attributed
<1>1. CASE UNCHANGED <<vm, lua, status, stack, popping>>
  BY <1>1 DEF lua, Attributed
<1>2. ASSUME NEW t \in Threads, ThreadStep(t)
      PROVE  Attributed'
  <2>1. ASSUME NEW f \in Funcs, NEW collect \in BOOLEAN,
               Call(t, f, collect) \/ TailCall(t, f, collect)
        PROVE  Attributed'
    <3>1. /\ Idle /\ t \in alive \ caught
          /\ UNCHANGED <<options, alive, caught, hostErr, popping>>
      BY <2>1 DEF Call, TailCall, MayCall
    <3>2. PICK d \in Seq(CallFrames(Funcs)) : d = calls'[t]
      <4>1. calls' \in [Threads -> Seq(CallFrames(Funcs))]
        BY <2>1, LuaStep DEF LuaTypeOK, CallFrames, Next, ThreadStep
      <4> QED
        BY <4>1
    <3>3. /\ d = Called(calls[t], f) \/ (calls[t] # <<>> /\ d = TailCalled(calls[t], f))
          /\ calls' = [calls EXCEPT ![t] = d]
      <4>1. PICK e : /\ e = Called(calls[t], f) \/ (calls[t] # <<>> /\ e = TailCalled(calls[t], f))
                     /\ calls' = [calls EXCEPT ![t] = e]
        BY <2>1 DEF Call, TailCall
      <4>2. calls'[t] = e
        BY <4>1 DEF IInv, TypeOK, LuaTypeOK
      <4> QED
        BY <3>2, <4>1, <4>2
    <3>4. CallHook(t, calls'[t], f, collect)
      BY <2>1 DEF Call, TailCall
    <3>5. CallHook(t, d, f, collect)
      BY <3>2, <3>4 DEF CallHook
    <3>6. vm = "puc51"
      BY <3>1 DEF options
    <3> QED
      <4>1. status' = "running"
        OBVIOUS
      <4> QED
        BY <3>1, <3>3, <3>5, <3>6, <4>1, CallAttributed
  <2>2. ASSUME NEW collect \in BOOLEAN, Return(t, collect) PROVE Attributed'
    <3>1. vm = "puc51"
      BY <2>2 DEF Return, options
    <3> QED
      BY <2>2, <3>1, ReturnAttributed
  <2>3. ASSUME Raise(t) PROVE Attributed'
    <3>1. vm = "puc51"
      BY <2>3 DEF Raise, options
    <3> QED
      BY <2>3, <3>1, RaiseAttributed
  <2>4. ASSUME ReturnUnseen(t) PROVE FALSE
    BY <2>4 DEF ReturnUnseen, options
  <2>5. ASSUME NEW collect \in BOOLEAN, Stop(t, collect) \/ PopRemaining(t) PROVE FALSE
    BY <2>5 DEF Stop, PopRemaining
  <2> QED
    BY <1>2, <2>1, <2>2, <2>3, <2>4, <2>5 DEF ThreadStep
<1>3. CASE PopReturned
  <2>1. vm = "puc51"
    BY <1>3 DEF PopReturned, options
  <2> QED
    BY <1>3, <2>1, PopReturnedAttributed
<1>4. ASSUME Stopped PROVE FALSE
  BY <1>4 DEF Stopped
<1>5. CASE Tick
  BY <1>1, <1>5 DEF Tick, options
<1>6. CASE UNCHANGED vars
  BY <1>1, <1>6 DEF vars, options
<1> QED
  BY <1>2, <1>3, <1>4, <1>5, <1>6 DEF Next

\* Under PUC Lua every thread's stack has the entries of the calls it has seen,
\* in their order, whatever was tail called, raised and caught: unless
\* load_stack counts the function that a coroutine starts with twice.
THEOREM CallsAttributed ==
  ASSUME TRUE \notin LoadStacks
  PROVE  Spec => []Attribution
<1>1. Init => IInv /\ Attributed
  BY InitIInv, InitAttributed
<1>2. IInv /\ Attributed /\ [Next]_vars => IInv' /\ Attributed'
  BY NextIInv, NextAttributed
<1>3. IInv /\ Attributed => Attribution
  <2> SUFFICES ASSUME IInv, Attributed, status = "running", vm = "puc51",
                      NEW t \in alive \ hostErr, popping = None \/ popping.thread # t,
                      stack[t] # <<>>
               PROVE  LET seen == SeenCalls(calls[t])
                          s == stack[t]
                      IN  /\ Len(s) - 1 >= Len(seen)
                          /\ \A i \in DOMAIN seen : s[i + 1].rec[1] = seen[i].fn
                          /\ t \notin caught => Len(s) - 1 = Len(seen)
    BY DEF Attribution
  <2>1. PICK K, b : K = DOMAIN records /\ b \in BOOLEAN /\ b = (t \in caught)
    <3>1. CASE t \in caught
      BY <3>1, TRUE = (t \in caught)
    <3>2. CASE t \notin caught
      BY <3>2, FALSE = (t \in caught)
    <3> QED
      BY <3>1, <3>2
  <2>2. /\ t \in Threads /\ calls[t] \in Seq(CallFrames(Funcs))
        /\ stack[t] \in Seq(EntriesOf(K))
    BY <2>1 DEF IInv, TypeOK, LuaTypeOK, ProfileTypeOK, CallFrames, Entries, EntriesOf
  <2>3. PICK c \in Seq(CallFrames(Funcs)) : c = calls[t]
    BY <2>2
  <2>4. PICK s \in Seq(EntriesOf(K)) : s = stack[t]
    BY <2>2
  <2>5. Attributes(s, c, b)
    BY <2>1, <2>3, <2>4 DEF Attributed
  <2>6. PICK n \in Nat : n = Len(s)
    BY LenProperties
  <2>7. PICK g : g = FnsIn(s)
    OBVIOUS
  <2>8. Follows(g, n, c, Pcalls, b)
    BY <2>4, <2>5, <2>6, <2>7 DEF Attributes
  <2>9. PICK seen \in Seq(CallFrames(Funcs)), m \in Nat :
          /\ seen = SeenCalls(c) /\ m = Len(seen) /\ DOMAIN seen = 1 .. m
          /\ n - 1 >= m /\ \A i \in 1 .. m : g[i + 1] = seen[i].fn
          /\ ~b => n - 1 = m
    <3>1. b \in BOOLEAN
      BY <2>1
    <3>2. /\ SeenCalls(c) \in Seq(CallFrames(Funcs)) /\ n - 1 >= Len(SeenCalls(c))
          /\ \A i \in 1 .. Len(SeenCalls(c)) : g[i + 1] = SeenCalls(c)[i].fn
          /\ ~b => n - 1 = Len(SeenCalls(c))
      BY <2>8, <3>1, FollowsSeen
    <3>3. Len(SeenCalls(c)) \in Nat /\ DOMAIN SeenCalls(c) = 1 .. Len(SeenCalls(c))
      BY <3>2, LenProperties
    <3> QED
      BY <3>2, <3>3
  <2>10. \A i \in 1 .. m : g[i + 1] = s[i + 1].rec[1]
    <3>1. \A i \in 1 .. Len(s) : FnsIn(s)[i] = s[i].rec[1]
      BY FnsInType
    <3>2. \A i \in 1 .. m : i + 1 \in 1 .. Len(s)
      BY <2>6, <2>9
    <3> QED
      BY <2>7, <3>1, <3>2
  <2>11. \A i \in 1 .. m : s[i + 1].rec[1] = seen[i].fn
    <3> TAKE i \in 1 .. m
    <3>1. g[i + 1] = seen[i].fn
      BY <2>9
    <3>2. g[i + 1] = s[i + 1].rec[1]
      BY <2>10
    <3> QED
      BY <3>1, <3>2, Zenon
  <2>12. t \notin caught => ~b
    BY <2>1
  <2> QED
    BY <2>3, <2>4, <2>6, <2>9, <2>11, <2>12
<1> QED
  BY <1>1, <1>2, <1>3, PTL DEF Spec
-----------------------------------------------------------------------------
(* Sums *)

\* Stacks of all threads, and weights, of entries for the records of K.
StacksOf(K) == [Threads -> Seq(EntriesOf(K))]
WeightsOf(K) == [EntriesOf(K) -> Int]

\* ParentId, in a graph that is compressed or not.
ParentIn(c, k) == IF c THEN k[1] ELSE k

\* NotOwn, Collected, OfCallees and CountOf, of any records and stacks.
NotOwnIn(c, R, id) ==
  SumFunction([k \in DOMAIN R |-> IF ParentIn(c, k) = id THEN R[k].path - R[k].node ELSE 0])

CollectedIn(c, id, s) ==
  SumFunction([i \in DOMAIN s |-> IF ParentIn(c, s[i].rec) = id THEN s[i].path ELSE 0])

OfCalleesIn(R, id) ==
  SumFunction([k \in DOMAIN R |-> IF k # RootKey /\ k[2] = id THEN R[k].path ELSE 0])

CountIn(R, f) ==
  SumFunction([k \in DOMAIN R |-> IF k[1] = f THEN R[k].count ELSE 0])

\* The calls of f that have entries in a stack.
OpenIn(f, s) == SumFunction([i \in DOMAIN s |-> IF s[i].rec[1] = f THEN 1 ELSE 0])

\* The same for all threads, with the stacks that they lost.
CollectedTotal(c, id, S, L) ==
  SumFunction([t \in Threads |-> CollectedIn(c, id, S[t]) + CollectedIn(c, id, L[t])])
OpenTotal(f, S, L) ==
  SumFunction([t \in Threads |-> OpenIn(f, S[t]) + OpenIn(f, L[t])])

\* The weights of entries that Collected and OpenIn sum up.
CollectedBy(c, id, K) ==
  [e \in EntriesOf(K) |-> IF ParentIn(c, e.rec) = id THEN e.path ELSE 0]
OpenBy(f, K) == [e \in EntriesOf(K) |-> IF e.rec[1] = f THEN 1 ELSE 0]

\* The weight of the stacks S of all threads, and of those that they lost.
Total(w, S, L) == SumFunction([t \in Threads |-> Weight(w, S[t]) + Weight(w, L[t])])

\* The entries of s below its top one are those of callers: an entry's record
\* is a child of the record of the entry below it.
LinkedIn(c, s) ==
  /\ s # <<>> => s[1].rec = RootKey
  /\ \A i \in 1 .. Len(s) - 1 :
       s[i + 1].rec # RootKey /\ s[i + 1].rec[2] = ParentIn(c, s[i].rec)

Records == [count : Nat, node : Nat, path : Nat]

\* The records with those of K added.
With(R, K) == [k \in DOMAIN R \cup K |-> IF k \in DOMAIN R THEN R[k] ELSE Zero]

\* The record of x after a call of it that took d, of which its callees took p.
Measured(r, d, p) == [count |-> r.count + 1, node |-> r.node + (d - p), path |-> r.path + d]

\* Weights are numbers.
LEMMA WeightsType ==
  ASSUME NEW c, NEW id, NEW f, NEW K
  PROVE  /\ CollectedBy(c, id, K) \in WeightsOf(K)
         /\ OpenBy(f, K) \in WeightsOf(K)
<1>1. MaxTime \in Nat
  BY GraphStackAssumption
<1>2. \A e \in EntriesOf(K) : e.path \in Int
  BY <1>1 DEF EntriesOf
<1> QED
  BY <1>2 DEF CollectedBy, OpenBy, StacksOf, WeightsOf

\* What a stack has collected, and its calls of f, are weights of it.
LEMMA CollectedWeighs ==
  ASSUME NEW c, NEW id, NEW f, NEW K
  PROVE  \A s \in Seq(EntriesOf(K)) : /\ CollectedIn(c, id, s) = Weight(CollectedBy(c, id, K), s)
                                      /\ OpenIn(f, s) = Weight(OpenBy(f, K), s)
<1> TAKE s \in Seq(EntriesOf(K))
<1>1. \A i \in DOMAIN s : s[i] \in EntriesOf(K)
  BY LenProperties, ElementOfSeq
<1>2. [i \in DOMAIN s |-> IF ParentIn(c, s[i].rec) = id THEN s[i].path ELSE 0]
        = [i \in DOMAIN s |-> CollectedBy(c, id, K)[s[i]]]
  BY <1>1 DEF CollectedBy
<1>3. [i \in DOMAIN s |-> IF s[i].rec[1] = f THEN 1 ELSE 0]
        = [i \in DOMAIN s |-> OpenBy(f, K)[s[i]]]
  BY <1>1 DEF OpenBy
<1> QED
  BY <1>2, <1>3 DEF CollectedIn, OpenIn, Weight

\* The same for all threads.
LEMMA CollectedTotals ==
  ASSUME NEW c, NEW id, NEW f, NEW K
  PROVE  \A S, L \in StacksOf(K) :
           /\ CollectedTotal(c, id, S, L)
                = Total(CollectedBy(c, id, K), S, L)
           /\ OpenTotal(f, S, L)
                = Total(OpenBy(f, K), S, L)
<1>1. \A s \in Seq(EntriesOf(K)) : /\ CollectedIn(c, id, s) = Weight(CollectedBy(c, id, K), s)
                                   /\ OpenIn(f, s) = Weight(OpenBy(f, K), s)
  BY CollectedWeighs
<1> TAKE S, L \in StacksOf(K)
<1>2. \A t \in Threads : S[t] \in Seq(EntriesOf(K)) /\ L[t] \in Seq(EntriesOf(K))
  BY DEF StacksOf, WeightsOf
<1> HIDE DEF CollectedIn, OpenIn, CollectedBy, OpenBy
<1>3. [t \in Threads |-> CollectedIn(c, id, S[t]) + CollectedIn(c, id, L[t])]
        = [t \in Threads |-> Weight(CollectedBy(c, id, K), S[t]) + Weight(CollectedBy(c, id, K), L[t])]
  BY <1>1, <1>2
<1>4. [t \in Threads |-> OpenIn(f, S[t]) + OpenIn(f, L[t])]
        = [t \in Threads |-> Weight(OpenBy(f, K), S[t]) + Weight(OpenBy(f, K), L[t])]
  BY <1>1, <1>2
<1> QED
  BY <1>3, <1>4 DEF Total, CollectedTotal, OpenTotal

\* Weights that move from the stacks S to L, or not at all.
LEMMA TotalKept ==
  ASSUME NEW w, NEW S, NEW L, NEW Q, NEW M,
         \A t \in Threads : Weight(w, Q[t]) + Weight(w, M[t]) = Weight(w, S[t]) + Weight(w, L[t])
  PROVE  Total(w, Q, M) = Total(w, S, L)
BY DEF Total

\* The stack of one thread changes.
LEMMA TotalChanges ==
  ASSUME NEW K, NEW w \in WeightsOf(K)
  PROVE  \A S, L, Q \in StacksOf(K) : \A t \in Threads :
           (\A u \in Threads : u # t => Q[u] = S[u]) =>
             /\ Total(w, Q, L) = Total(w, S, L) + (Weight(w, Q[t]) - Weight(w, S[t]))
             /\ Total(w, S, L) \in Int
<1>5. IsFiniteSet(Threads)
  BY GraphStackAssumption
<1>0. \A f, h \in [Threads -> Int] : \A x \in Threads :
        (\A y \in Threads : y # x => h[y] = f[y])
        => SumFunction(h) + f[x] = SumFunction(f) + h[x]
  BY <1>5, SumChanges
<1>00. \A s \in Seq(EntriesOf(K)) : Weight(w, s) \in Int
  BY WeightType DEF StacksOf, WeightsOf
<1> SUFFICES ASSUME NEW S \in StacksOf(K), NEW L \in StacksOf(K),
                    NEW Q \in StacksOf(K), NEW t \in Threads,
                    \A u \in Threads : u # t => Q[u] = S[u]
             PROVE  /\ Total(w, Q, L) = Total(w, S, L) + (Weight(w, Q[t]) - Weight(w, S[t]))
                    /\ Total(w, S, L) \in Int
  OBVIOUS
<1>1. \A u \in Threads : Weight(w, S[u]) \in Int /\ Weight(w, L[u]) \in Int /\ Weight(w, Q[u]) \in Int
  BY <1>00 DEF StacksOf, WeightsOf
<1>2. PICK f, h : /\ f = [u \in Threads |-> Weight(w, S[u]) + Weight(w, L[u])]
                  /\ h = [u \in Threads |-> Weight(w, Q[u]) + Weight(w, L[u])]
  OBVIOUS
<1>3. f \in [Threads -> Int] /\ h \in [Threads -> Int]
  <2>1. \A u \in Threads : /\ Weight(w, S[u]) + Weight(w, L[u]) \in Int
                           /\ Weight(w, Q[u]) + Weight(w, L[u]) \in Int
    BY <1>1
  <2> QED
    BY <1>2, <2>1
<1>4. \A u \in Threads : u # t => h[u] = f[u]
  BY <1>2
<1>6. SumFunction(h) + f[t] = SumFunction(f) + h[t]
  BY <1>0, <1>3, <1>4
<1>7. SumFunction(f) \in Int /\ SumFunction(h) \in Int
  BY <1>3, <1>5, SumType
<1>8. Total(w, Q, L) = SumFunction(h) /\ Total(w, S, L) = SumFunction(f)
  BY <1>2 DEF Total
<1>9. /\ f[t] = Weight(w, S[t]) + Weight(w, L[t]) /\ h[t] = Weight(w, Q[t]) + Weight(w, L[t])
      /\ Weight(w, S[t]) \in Int /\ Weight(w, L[t]) \in Int /\ Weight(w, Q[t]) \in Int
  BY <1>1, <1>2
<1>10. PICK a \in Int, b \in Int, x \in Int, y \in Int, z \in Int :
         /\ a = SumFunction(h) /\ b = SumFunction(f)
         /\ x = Weight(w, S[t]) /\ y = Weight(w, L[t]) /\ z = Weight(w, Q[t])
  BY <1>7, <1>9
<1>11. a + (x + y) = b + (z + y)
  BY <1>6, <1>9, <1>10
<1>12. a = b + (z - x)
  BY <1>11
<1> QED
  BY <1>8, <1>10, <1>12

\* Records that are added without a call of theirs leave the sums as they are.
AddsNothing(R, K, c, id, f) ==
  /\ NotOwnIn(c, With(R, K), id) = NotOwnIn(c, R, id)
  /\ OfCalleesIn(With(R, K), id) = OfCalleesIn(R, id)
  /\ CountIn(With(R, K), f) = CountIn(R, f)

\* Those that the hooks add are such.
LEMMA WithSums ==
  ASSUME NEW R, NEW K, IsFiniteSet(DOMAIN R \cup K), \A k \in DOMAIN R : R[k] \in Records,
         NEW c, NEW id, NEW f
  PROVE  AddsNothing(R, K, c, id, f)
<1>1. PICK S, T, Q : S = DOMAIN R /\ T = DOMAIN R \cup K /\ Q = With(R, K)
  OBVIOUS
<1>2. /\ S \subseteq T /\ IsFiniteSet(T) /\ DOMAIN Q = T /\ DOMAIN R = S
      /\ \A k \in S : Q[k] = R[k] /\ R[k] \in Records
      /\ \A k \in T \ S : Q[k] = Zero
  BY <1>1 DEF With
<1>3. /\ \A k \in S : R[k].path \in Int /\ R[k].node \in Int /\ R[k].count \in Int
      /\ \A k \in S : R[k].path - R[k].node \in Int
      /\ \A k \in T \ S : Q[k].path = 0 /\ Q[k].path - Q[k].node = 0 /\ Q[k].count = 0
  BY <1>2 DEF Records, Zero
<1> DEFINE g(P, k) == IF ParentIn(c, k) = id THEN P[k].path - P[k].node ELSE 0
           l(P, k) == IF k # RootKey /\ k[2] = id THEN P[k].path ELSE 0
           m(P, k) == IF k[1] = f THEN P[k].count ELSE 0
<1>4. /\ \A k \in S : g(R, k) \in Int /\ l(R, k) \in Int /\ m(R, k) \in Int
      /\ \A k \in S : g(Q, k) = g(R, k) /\ l(Q, k) = l(R, k) /\ m(Q, k) = m(R, k)
      /\ \A k \in T \ S : g(Q, k) = 0 /\ l(Q, k) = 0 /\ m(Q, k) = 0
  BY <1>2, <1>3
<1>5. /\ NotOwnIn(c, R, id) = SumFunction([k \in S |-> g(R, k)])
      /\ NotOwnIn(c, Q, id) = SumFunction([k \in T |-> g(Q, k)])
      /\ OfCalleesIn(R, id) = SumFunction([k \in S |-> l(R, k)])
      /\ OfCalleesIn(Q, id) = SumFunction([k \in T |-> l(Q, k)])
      /\ CountIn(R, f) = SumFunction([k \in S |-> m(R, k)])
      /\ CountIn(Q, f) = SumFunction([k \in T |-> m(Q, k)])
  BY <1>2 DEF NotOwnIn, OfCalleesIn, CountIn
<1> HIDE DEF g, l, m
<1>6. ASSUME NEW u, NEW v, u \in [S -> Int], \A k \in S : v[k] = u[k],
             \A k \in T \ S : v[k] = 0, v = [k \in T |-> v[k]]
      PROVE  SumFunction(v) = SumFunction(u)
  <2>1. \A k \in T : v[k] \in Int
    <3> TAKE k \in T
    <3>1. CASE k \in S
      BY <1>6, <3>1
    <3>2. CASE k \notin S
      BY <1>6, <3>2
    <3> QED
      BY <3>1, <3>2
  <2>2. v \in [T -> Int]
    BY <1>6, <2>1
  <2> QED
    BY <1>2, <1>6, <2>2, SumExtends
<1>7. SumFunction([k \in T |-> g(Q, k)]) = SumFunction([k \in S |-> g(R, k)])
  <2>1. PICK u, v : u = [k \in S |-> g(R, k)] /\ v = [k \in T |-> g(Q, k)]
    OBVIOUS
  <2>2. /\ u \in [S -> Int] /\ v = [k \in T |-> v[k]]
        /\ \A k \in S : v[k] = u[k]
        /\ \A k \in T \ S : v[k] = 0
    BY <1>2, <1>4, <2>1
  <2> QED
    BY <1>6, <2>1, <2>2
<1>8. SumFunction([k \in T |-> l(Q, k)]) = SumFunction([k \in S |-> l(R, k)])
  <2>1. PICK u, v : u = [k \in S |-> l(R, k)] /\ v = [k \in T |-> l(Q, k)]
    OBVIOUS
  <2>2. /\ u \in [S -> Int] /\ v = [k \in T |-> v[k]]
        /\ \A k \in S : v[k] = u[k]
        /\ \A k \in T \ S : v[k] = 0
    BY <1>2, <1>4, <2>1
  <2> QED
    BY <1>6, <2>1, <2>2
<1>9. SumFunction([k \in T |-> m(Q, k)]) = SumFunction([k \in S |-> m(R, k)])
  <2>1. PICK u, v : u = [k \in S |-> m(R, k)] /\ v = [k \in T |-> m(Q, k)]
    OBVIOUS
  <2>2. /\ u \in [S -> Int] /\ v = [k \in T |-> v[k]]
        /\ \A k \in S : v[k] = u[k]
        /\ \A k \in T \ S : v[k] = 0
    BY <1>2, <1>4, <2>1
  <2> QED
    BY <1>6, <2>1, <2>2
<1> QED
  BY <1>1, <1>5, <1>7, <1>8, <1>9 DEF AddsNothing

\* A call of x ends that took d, of which its callees took p: it counts once
\* more, p is not its own, and d is of a callee of its parent.
Ends(R, Q, x, d, p, c, id, f) ==
  /\ NotOwnIn(c, R, id) \in Int /\ OfCalleesIn(R, id) \in Int /\ CountIn(R, f) \in Int
  /\ NotOwnIn(c, Q, id)
       = NotOwnIn(c, R, id) + IF ParentIn(c, x) = id THEN p ELSE 0
  /\ OfCalleesIn(Q, id)
       = OfCalleesIn(R, id) + IF x # RootKey /\ x[2] = id THEN d ELSE 0
  /\ CountIn(Q, f) = CountIn(R, f) + IF x[1] = f THEN 1 ELSE 0

\* What the record of a call that ends does to the sums.
LEMMA MeasuredSums ==
  ASSUME NEW R, IsFiniteSet(DOMAIN R), \A k \in DOMAIN R : R[k] \in Records,
         NEW x \in DOMAIN R, NEW d \in Nat, NEW p \in Nat,
         NEW c, NEW id, NEW f,
         NEW Q, Q = [R EXCEPT ![x] = Measured(R[x], d, p)]
  PROVE  Ends(R, Q, x, d, p, c, id, f)
<1>1. PICK S : S = DOMAIN R
  OBVIOUS
<1>2. /\ IsFiniteSet(S) /\ x \in S /\ DOMAIN Q = S
      /\ \A k \in S : k # x => Q[k] = R[k]
      /\ Q[x] = Measured(R[x], d, p)
  BY <1>1
<1>3. /\ \A k \in S : R[k].path \in Int /\ R[k].node \in Int /\ R[k].count \in Int
      /\ \A k \in S : R[k].path - R[k].node \in Int
  BY <1>1 DEF Records
<1>4. /\ Q[x].path = R[x].path + d /\ Q[x].count = R[x].count + 1
      /\ Q[x].path - Q[x].node = (R[x].path - R[x].node) + p
      /\ Q[x].path \in Int /\ Q[x].count \in Int /\ Q[x].path - Q[x].node \in Int
  BY <1>2, <1>3 DEF Measured
<1> DEFINE g(P, k) == IF ParentIn(c, k) = id THEN P[k].path - P[k].node ELSE 0
           l(P, k) == IF k # RootKey /\ k[2] = id THEN P[k].path ELSE 0
           m(P, k) == IF k[1] = f THEN P[k].count ELSE 0
<1>5. /\ \A k \in S : g(R, k) \in Int /\ l(R, k) \in Int /\ m(R, k) \in Int
      /\ \A k \in S : k # x => g(Q, k) = g(R, k) /\ l(Q, k) = l(R, k) /\ m(Q, k) = m(R, k)
      /\ g(Q, x) \in Int /\ l(Q, x) \in Int /\ m(Q, x) \in Int
  BY <1>2, <1>3, <1>4
<1>6. /\ g(Q, x) = g(R, x) + IF ParentIn(c, x) = id THEN p ELSE 0
      /\ l(Q, x) = l(R, x) + IF x # RootKey /\ x[2] = id THEN d ELSE 0
      /\ m(Q, x) = m(R, x) + IF x[1] = f THEN 1 ELSE 0
  BY <1>4
<1>7. /\ NotOwnIn(c, R, id) = SumFunction([k \in S |-> g(R, k)])
      /\ NotOwnIn(c, Q, id) = SumFunction([k \in S |-> g(Q, k)])
      /\ OfCalleesIn(R, id) = SumFunction([k \in S |-> l(R, k)])
      /\ OfCalleesIn(Q, id) = SumFunction([k \in S |-> l(Q, k)])
      /\ CountIn(R, f) = SumFunction([k \in S |-> m(R, k)])
      /\ CountIn(Q, f) = SumFunction([k \in S |-> m(Q, k)])
  BY <1>1, <1>2 DEF NotOwnIn, OfCalleesIn, CountIn
<1>8. PICK a \in Int, b \in Int, e \in Int :
        /\ a = IF ParentIn(c, x) = id THEN p ELSE 0
        /\ b = IF x # RootKey /\ x[2] = id THEN d ELSE 0
        /\ e = IF x[1] = f THEN 1 ELSE 0
  OBVIOUS
<1> HIDE DEF g, l, m
<1>9. ASSUME NEW u, NEW v, NEW z \in Int, u \in [S -> Int], v = [k \in S |-> v[k]],
             \A k \in S : k # x => v[k] = u[k], v[x] = u[x] + z
      PROVE  SumFunction(u) \in Int /\ SumFunction(v) = SumFunction(u) + z
  <2>1. \A k \in S : v[k] \in Int
    <3> TAKE k \in S
    <3>1. u[k] \in Int
      BY <1>9
    <3>2. CASE k = x
      BY <1>9, <3>1, <3>2
    <3>3. CASE k # x
      BY <1>9, <3>1, <3>3
    <3> QED
      BY <3>2, <3>3
  <2>2. v \in [S -> Int] /\ u \in [S -> Int]
    BY <1>9, <2>1
  <2>3. SumFunction(v) + u[x] = SumFunction(u) + v[x]
    <3>1. \A q, h \in [S -> Int] : \A y \in S :
            (\A k \in S : k # y => h[k] = q[k])
            => SumFunction(h) + q[y] = SumFunction(q) + h[y]
      BY <1>2, SumChanges
    <3> QED
      BY <1>2, <1>9, <2>2, <3>1
  <2>4. SumFunction(u) \in Int /\ SumFunction(v) \in Int /\ u[x] \in Int
    BY <1>2, <2>2, SumType
  <2> QED
    BY <1>9, <2>3, <2>4
<1>10. /\ NotOwnIn(c, R, id) \in Int /\ NotOwnIn(c, Q, id) = NotOwnIn(c, R, id) + a
  <2>1. PICK u, v : u = [k \in S |-> g(R, k)] /\ v = [k \in S |-> g(Q, k)]
    OBVIOUS
  <2>2. /\ u \in [S -> Int] /\ v = [k \in S |-> v[k]]
        /\ \A k \in S : k # x => v[k] = u[k]
        /\ v[x] = u[x] + a
    BY <1>2, <1>5, <1>6, <1>8, <2>1
  <2>3. SumFunction(u) \in Int /\ SumFunction(v) = SumFunction(u) + a
    BY <1>9, <2>2
  <2> QED
    BY <1>7, <2>1, <2>3
<1>11. /\ OfCalleesIn(R, id) \in Int /\ OfCalleesIn(Q, id) = OfCalleesIn(R, id) + b
  <2>1. PICK u, v : u = [k \in S |-> l(R, k)] /\ v = [k \in S |-> l(Q, k)]
    OBVIOUS
  <2>2. /\ u \in [S -> Int] /\ v = [k \in S |-> v[k]]
        /\ \A k \in S : k # x => v[k] = u[k]
        /\ v[x] = u[x] + b
    BY <1>2, <1>5, <1>6, <1>8, <2>1
  <2>3. SumFunction(u) \in Int /\ SumFunction(v) = SumFunction(u) + b
    BY <1>9, <2>2
  <2> QED
    BY <1>7, <2>1, <2>3
<1>12. /\ CountIn(R, f) \in Int /\ CountIn(Q, f) = CountIn(R, f) + e
  <2>1. PICK u, v : u = [k \in S |-> m(R, k)] /\ v = [k \in S |-> m(Q, k)]
    OBVIOUS
  <2>2. /\ u \in [S -> Int] /\ v = [k \in S |-> v[k]]
        /\ \A k \in S : k # x => v[k] = u[k]
        /\ v[x] = u[x] + e
    BY <1>2, <1>5, <1>6, <1>8, <2>1
  <2>3. SumFunction(u) \in Int /\ SumFunction(v) = SumFunction(u) + e
    BY <1>9, <2>2
  <2> QED
    BY <1>7, <2>1, <2>3
<1> QED
  BY <1>8, <1>10, <1>11, <1>12 DEF Ends

\* What a key tells: the function and, as it is not the root's, the parent.
LEMMA KeyTells ==
  ASSUME NEW f \in Funcs, NEW parent
  PROVE  /\ Key(f, parent)[1] = f /\ Key(f, parent) # RootKey
         /\ Key(f, parent)[2] = ParentIn(compress, parent)
<1>1. f # Root
  BY GraphStackAssumption
<1>2. Key(f, parent) = <<f, ParentIn(compress, parent)>> /\ RootKey = <<Root, Root>>
  BY DEF Key, ParentIn, RootKey
<1>3. PICK x : x = ParentIn(compress, parent)
  OBVIOUS
<1>4. <<f, x>>[1] = f /\ <<f, x>>[2] = x /\ <<f, x>> # <<Root, Root>>
  BY <1>1
<1> QED
  BY <1>2, <1>3, <1>4

\* The keys of a chain of calls, each under the one before.
LEMMA ChainDef ==
  ASSUME NEW fr, Len(fr) \in Nat
  PROVE  \A i \in 1 .. Len(fr) :
           Chain(fr)[i] = Key(fr[i].fn, IF i = 1 THEN RootKey ELSE Chain(fr)[i - 1])
<1> DEFINE Step(u, i) == Key(fr[i].fn, IF i = 1 THEN RootKey ELSE u[i - 1])
           A == {m \in Nat : \E u : u = [i \in 1 .. m |-> Step(u, i)]}
<1>1. 0 \in A
  <2>1. PICK u : u = [i \in 1 .. 0 |-> 0]
    OBVIOUS
  <2>2. u = [i \in 1 .. 0 |-> Step(u, i)]
    <3> HIDE DEF Step
    <3> QED
      BY <2>1
  <2> QED
    BY <2>2
<1>2. ASSUME NEW m \in Nat, m \in A PROVE m + 1 \in A
  <2>1. PICK u : u = [i \in 1 .. m |-> Step(u, i)]
    BY <1>2
  <2> DEFINE v == [i \in 1 .. m + 1 |-> IF i = m + 1 THEN Step(u, i) ELSE u[i]]
  <2>2. \A i \in 1 .. m + 1 : v[i] = Step(v, i)
    <3> TAKE i \in 1 .. m + 1
    <3>1. i # 1 => i - 1 \in 1 .. m /\ v[i - 1] = u[i - 1]
      OBVIOUS
    <3>2. Step(v, i) = Step(u, i)
      BY <3>1
    <3>3. i # m + 1 => i \in 1 .. m
      OBVIOUS
    <3>4. \A k \in 1 .. m : u[k] = Step(u, k)
      <4> HIDE DEF Step
      <4> QED
        BY <2>1
    <3> HIDE DEF Step
    <3> QED
      BY <3>2, <3>3, <3>4
  <2>3. v = [i \in 1 .. m + 1 |-> Step(v, i)]
    <3>1. v = [i \in 1 .. m + 1 |-> v[i]]
      OBVIOUS
    <3> HIDE DEF v, Step
    <3> QED
      BY <2>2, <3>1
  <2> HIDE DEF v, Step
  <2> QED
    BY <2>3
<1>3. Len(fr) \in A
  <2> HIDE DEF A
  <2> QED
    BY <1>1, <1>2, InductionOnNat
<1>4. Chain(fr) = [i \in 1 .. Len(fr) |-> Step(Chain(fr), i)]
  BY <1>3 DEF Chain
<1>5. \A i \in 1 .. Len(fr) : Chain(fr)[i] = Step(Chain(fr), i)
  <2> HIDE DEF Step
  <2> QED
    BY <1>4
<1> QED
  BY <1>5

\* A stack just made holds a chain of calls, and none has collected anything.
LEMMA NewLinked ==
  ASSUME now \in 0 .. MaxTime, NEW fr \in Seq(CallFrames(Funcs))
  PROVE  /\ LinkedIn(compress, NewStack(fr))
         /\ \A i \in 1 .. Len(NewStack(fr)) : NewStack(fr)[i].path = 0
<1> DEFINE depth == IF ~loadStack THEN 0
                    ELSE IF Len(fr) < MaxStack THEN Len(fr) ELSE MaxStack - 1
<1>1. Len(fr) \in Nat /\ depth \in Nat /\ depth <= Len(fr)
  BY GraphStackAssumption, LenProperties
<1>2. NewStack(fr) = [i \in 1 .. depth + 1 |->
                        Entry(IF i = 1 THEN RootKey ELSE Chain(fr)[i - 1])]
  BY DEF NewStack
<1> HIDE DEF depth
<1>3. PICK s : s = NewStack(fr)
  OBVIOUS
<1>4. /\ \A i \in 1 .. depth + 1 : s[i].rec = IF i = 1 THEN RootKey ELSE Chain(fr)[i - 1]
      /\ \A i \in 1 .. depth + 1 : s[i].path = 0
      /\ DOMAIN s = 1 .. depth + 1
  BY <1>2, <1>3 DEF Entry
<1>5. Len(s) = depth + 1
  <2>1. s \in Seq(EntriesOf(NewKeys(fr)))
    BY <1>3, NewStackType
  <2> QED
    BY <1>1, <1>4, <2>1, LenProperties
<1>6. \A i \in 1 .. Len(fr) : fr[i].fn \in Funcs
  <2>1. \A i \in 1 .. Len(fr) : fr[i] \in CallFrames(Funcs)
    BY ElementOfSeq
  <2> QED
    BY <2>1 DEF CallFrames
<1>7. ASSUME NEW i \in 1 .. depth
      PROVE  s[i + 1].rec # RootKey /\ s[i + 1].rec[2] = ParentIn(compress, s[i].rec)
  <2>1. /\ i \in 1 .. depth + 1 /\ i + 1 \in 1 .. depth + 1 /\ i + 1 # 1 /\ (i + 1) - 1 = i
        /\ i \in 1 .. Len(fr)
    BY <1>1
  <2>2. s[i + 1].rec = Chain(fr)[i]
    BY <1>4, <2>1
  <2>3. Chain(fr)[i] = Key(fr[i].fn, s[i].rec)
    <3>1. Chain(fr)[i] = Key(fr[i].fn, IF i = 1 THEN RootKey ELSE Chain(fr)[i - 1])
      BY <1>1, <2>1, ChainDef
    <3>2. s[i].rec = IF i = 1 THEN RootKey ELSE Chain(fr)[i - 1]
      BY <1>4, <2>1
    <3> QED
      BY <3>1, <3>2
  <2>4. fr[i].fn \in Funcs
    BY <1>6, <2>1
  <2> QED
    BY <2>2, <2>3, <2>4, KeyTells
<1>8. 1 \in 1 .. depth + 1 /\ (depth + 1) - 1 = depth
  BY <1>1
<1> QED
  BY <1>3, <1>4, <1>5, <1>7, <1>8 DEF LinkedIn

\* The records of a chain of calls are finitely many.
LEMMA NewKeysFinite ==
  ASSUME NEW fr, Len(fr) \in Nat
  PROVE  IsFiniteSet(NewKeys(fr))
<1>1. PICK T : T = {Chain(fr)[i] : i \in 1 .. Len(fr)}
  OBVIOUS
<1>2. IsFiniteSet(T)
  <2>1. PICK g : g = [i \in 1 .. Len(fr) |-> Chain(fr)[i]]
    OBVIOUS
  <2>2. g \in Surjection(1 .. Len(fr), T)
    BY <1>1, <2>1 DEF Surjection
  <2>3. IsFiniteSet(1 .. Len(fr))
    BY FS_Interval
  <2> QED
    BY <2>2, <2>3, FS_Surjection
<1>3. IsFiniteSet({}) /\ IsFiniteSet({RootKey})
  BY FS_EmptySet, FS_Singleton
<1>4. IsFiniteSet({RootKey} \cup T) /\ IsFiniteSet({RootKey} \cup {})
  BY <1>2, <1>3, FS_Union
<1>5. NewKeys(fr) = {RootKey} \cup T \/ NewKeys(fr) = {RootKey} \cup {}
  BY <1>1 DEF NewKeys
<1> QED
  BY <1>4, <1>5

\* A call is linked to the call that makes it.
LEMMA AppendLinked ==
  ASSUME NEW E, NEW s \in Seq(E), NEW c, NEW e, LinkedIn(c, s), s # <<>>,
         e.rec # RootKey, e.rec[2] = ParentIn(c, s[Len(s)].rec),
         NEW r, r = Append(s, e)
  PROVE  LinkedIn(c, r)
<1>1. PICK n \in Nat \ {0} : n = Len(s)
  BY EmptySeq, LenProperties
<1>2. Len(r) = n + 1 /\ r[n + 1] = e /\ \A i \in 1 .. n : r[i] = s[i]
  BY <1>1, AppendProperties
<1>3. ASSUME NEW i \in 1 .. n
      PROVE  r[i + 1].rec # RootKey /\ r[i + 1].rec[2] = ParentIn(c, r[i].rec)
  <2>1. CASE i = n
    BY <1>1, <1>2, <2>1
  <2>2. CASE i # n
    <3>1. i \in 1 .. n - 1 /\ i + 1 \in 1 .. n /\ r[i] = s[i]
      BY <1>2, <2>2
    <3>2. r[i + 1] = s[i + 1]
      BY <1>2, <3>1
    <3>3. s[i + 1].rec # RootKey /\ s[i + 1].rec[2] = ParentIn(c, s[i].rec)
      BY <1>1, <3>1 DEF LinkedIn
    <3> QED
      BY <3>1, <3>2, <3>3
  <2> QED
    BY <2>1, <2>2
<1>4. r[1].rec = RootKey
  <2>1. 1 \in 1 .. n
    OBVIOUS
  <2> QED
    BY <1>2, <2>1 DEF LinkedIn
<1>5. 1 .. Len(r) - 1 = 1 .. n
  BY <1>2
<1> QED
  BY <1>3, <1>4, <1>5 DEF LinkedIn

\* r is the stack s without its top, its last entry's path now x.
PopLeaves(K, s, x, r) ==
  /\ r \in Seq(EntriesOf(K)) /\ Len(r) = Len(s) - 1
  /\ \A i \in 1 .. Len(s) - 1 : r[i].rec = s[i].rec
  /\ \A i \in 1 .. Len(s) - 2 : r[i] = s[i]
  /\ r[Len(s) - 1].path = x

\* The entries that are left are as before, but for the path of the last.
LEMMA PoppedEntries ==
  ASSUME NEW K, NEW s \in Seq(EntriesOf(K)), Len(s) # 1, s # <<>>, NEW x \in 0 .. MaxTime,
         NEW r, r = Popped(s, x)
  PROVE  PopLeaves(K, s, x, r)
<1>0. Len(s) \in Nat /\ Len(s) # 0
  BY EmptySeq, LenProperties
<1>00. Len(s) - 1 \in Nat \ {0} /\ Len(s) - 1 \in 0 .. Len(s) /\ Len(s) = (Len(s) - 1) + 1
  BY <1>0
<1>1. PICK m \in Nat \ {0} : m = Len(s) - 1 /\ m \in 0 .. Len(s) /\ Len(s) = m + 1
  BY <1>00
<1>2. PICK p \in Seq(EntriesOf(K)) : p = Pop(s) /\ Len(p) = m /\ \A i \in 1 .. m : p[i] = s[i]
  <2>1. PICK l \in 0 .. Len(s) : l = m /\ Pop(s) = SubSeq(s, 1, l)
    BY <1>1 DEF Pop
  <2>2. /\ SubSeq(s, 1, l) \in Seq(EntriesOf(K)) /\ Len(SubSeq(s, 1, l)) = l
        /\ \A i \in 1 .. l : SubSeq(s, 1, l)[i] = s[i]
    BY PrefixType
  <2> QED
    BY <2>1, <2>2
<1>3. \A i \in 1 .. m : p[i] \in EntriesOf(K)
  BY <1>2, ElementOfSeq
<1>4. PICK e : e = [rec |-> p[m].rec, start |-> p[m].start, path |-> x]
  OBVIOUS
<1>5. p[m] \in EntriesOf(K) /\ e \in EntriesOf(K) /\ e.rec = p[m].rec /\ e.path = x
  BY <1>3, <1>4 DEF EntriesOf
<1>6. r = [p EXCEPT ![m] = e]
  <2>1. [p[m] EXCEPT !.path = x] = e
    <3>1. PICK q \in EntriesOf(K) : q = p[m]
      BY <1>5
    <3>2. q = [rec |-> q.rec, start |-> q.start, path |-> q.path]
      BY DEF EntriesOf
    <3>3. [q EXCEPT !.path = x] = [rec |-> q.rec, start |-> q.start, path |-> x]
      BY <3>2
    <3> QED
      BY <1>4, <3>1, <3>3
  <2>2. m \in DOMAIN p
    BY <1>2, LenProperties
  <2>3. r = [p EXCEPT ![m] = [p[m] EXCEPT !.path = x]]
    BY <1>1, <1>2, <2>2 DEF Popped
  <2> QED
    BY <2>1, <2>3
<1>7. /\ r \in Seq(EntriesOf(K)) /\ Len(r) = m
      /\ \A i \in 1 .. m : r[i] = IF i = m THEN e ELSE p[i]
  <2>1. m \in 1 .. Len(p)
    BY <1>1, <1>2
  <2>2. /\ [p EXCEPT ![m] = e] \in Seq(EntriesOf(K)) /\ Len([p EXCEPT ![m] = e]) = Len(p)
        /\ \A i \in 1 .. Len(p) : [p EXCEPT ![m] = e][i] = IF i = m THEN e ELSE p[i]
    BY <1>5, <2>1, ExceptSeq
  <2> QED
    BY <1>2, <1>6, <2>2
<1>8. m \in 1 .. m /\ \A i \in 1 .. m - 1 : i \in 1 .. m /\ i # m
  OBVIOUS
<1>9. \A i \in 1 .. m : r[i].rec = s[i].rec
  BY <1>2, <1>5, <1>7
<1>10. \A i \in 1 .. m - 1 : r[i] = s[i]
  BY <1>2, <1>7, <1>8
<1>11. Len(s) - 1 = m /\ Len(s) - 2 = m - 1
  BY <1>1
<1> QED
  BY <1>1, <1>5, <1>7, <1>8, <1>9, <1>10, <1>11 DEF PopLeaves

\* The entries that are left stay linked.
LEMMA PoppedLinked ==
  ASSUME NEW K, NEW s \in Seq(EntriesOf(K)), Len(s) # 1, s # <<>>, NEW x \in 0 .. MaxTime,
         NEW r, r = Popped(s, x), NEW c, LinkedIn(c, s)
  PROVE  LinkedIn(c, r)
<1>0. Len(r) = Len(s) - 1 /\ \A i \in 1 .. Len(s) - 1 : r[i].rec = s[i].rec
  <2>1. PopLeaves(K, s, x, r)
    BY PoppedEntries
  <2> QED
    BY <2>1 DEF PopLeaves
<1>00. Len(s) \in Nat /\ Len(s) # 0
  BY EmptySeq, LenProperties
<1>000. Len(s) - 1 \in Nat \ {0} /\ Len(s) = (Len(s) - 1) + 1
  BY <1>00
<1>1. PICK n \in Nat \ {0} : n = Len(s) - 1 /\ Len(s) = n + 1
  BY <1>000
<1>2. Len(r) = n /\ \A i \in 1 .. n : r[i].rec = s[i].rec
  BY <1>0, <1>1
<1>3. ASSUME NEW i \in 1 .. n - 1
      PROVE  r[i + 1].rec # RootKey /\ r[i + 1].rec[2] = ParentIn(c, r[i].rec)
  <2>1. i \in 1 .. n /\ i + 1 \in 1 .. n /\ i \in 1 .. Len(s) - 1
    BY <1>1
  <2>2. r[i].rec = s[i].rec /\ r[i + 1].rec = s[i + 1].rec
    BY <1>2, <2>1
  <2>3. s[i + 1].rec # RootKey /\ s[i + 1].rec[2] = ParentIn(c, s[i].rec)
    BY <2>1 DEF LinkedIn
  <2> QED
    BY <2>2, <2>3
<1>4. r[1].rec = RootKey
  <2>1. 1 \in 1 .. n
    OBVIOUS
  <2> QED
    BY <1>2, <2>1 DEF LinkedIn
<1> QED
  BY <1>2, <1>3, <1>4 DEF LinkedIn

\* What is popped of the stack s of thread t, and where it is recorded.
PopsTop(t, s, K) ==
  /\ s \in Seq(EntriesOf(K)) /\ Len(s) \in Nat \ {0} /\ Top(s) \in EntriesOf(K)
  /\ stack \in StacksOf(K) /\ lost \in StacksOf(K)
  /\ stack' \in StacksOf(K)
  /\ \A u \in Threads : u # t => stack'[u] = stack[u]
  /\ Top(s).path \in Nat /\ now - Top(s).start \in Nat
  /\ records' = [records EXCEPT ![Top(s).rec] =
                   Measured(records[Top(s).rec], now - Top(s).start, Top(s).path)]
  /\ Len(s) = 1 => stack'[t] = <<>>
  /\ Len(s) # 1 =>
       /\ s[Len(s) - 1].path + (now - Top(s).start) \in 0 .. MaxTime
       /\ stack'[t] = Popped(s, s[Len(s) - 1].path + (now - Top(s).start))

\* What lmprof_stack_measured_pop does to a thread's stack and to the record of
\* the call that ends.
LEMMA PopShape ==
  ASSUME IInv, NEW t \in Threads, stack[t] # <<>>, MeasuredPop(t), UNCHANGED <<now, lost>>,
         NEW s, s = stack[t], NEW K, K = DOMAIN records
  PROVE  PopsTop(t, s, K)
<1>0. ProfileTypeOK /\ now \in 0 .. MaxTime /\ now \in Nat /\ MaxTime \in Nat /\ now <= MaxTime
  BY GraphStackAssumption DEF IInv, TypeOK, ProfileTypeOK
<1>1. /\ stack \in StacksOf(K) /\ lost \in StacksOf(K)
  BY <1>0 DEF ProfileTypeOK, Entries, EntriesOf, StacksOf, WeightsOf
<1>2. s \in Seq(EntriesOf(K)) /\ NestedAt(s, now)
  BY <1>1 DEF IInv, Nested, NestedAt, StacksOf, WeightsOf
<1>3. PICK n \in Nat \ {0} : n = Len(s) /\ DOMAIN s = 1 .. n
  <2>1. Len(s) \in Nat \ {0}
    BY <1>2, EmptySeq
  <2>2. DOMAIN s = 1 .. Len(s)
    BY <1>2, LenProperties
  <2> QED
    BY <2>1, <2>2
<1>4. PICK e : e = s[n]
  OBVIOUS
<1>5. /\ e \in EntriesOf(K) /\ e.start \in Nat /\ e.path \in Nat /\ e.start + e.path <= now
      /\ e = Top(s)
  <2>1. n \in 1 .. n /\ ~(n < n)
    OBVIOUS
  <2>2. e \in EntriesOf(K)
    BY <1>2, <1>3, <1>4, <2>1, ElementOfSeq
  <2>3. e.start + e.path <= IF n < Len(s) THEN s[n + 1].start ELSE now
    BY <1>2, <1>3, <1>4, <2>1 DEF NestedAt
  <2> QED
    BY <1>3, <1>4, <2>1, <2>2, <2>3 DEF EntriesOf, Top
<1>6. now - e.start \in Nat
  BY <1>0, <1>5
<1>7. /\ records' = [records EXCEPT ![e.rec] = Measured(records[e.rec], now - e.start, e.path)]
      /\ n = 1 => stack' = [stack EXCEPT ![t] = <<>>]
      /\ n # 1 => stack' = [stack EXCEPT ![t] =
                              [Pop(s) EXCEPT ![n - 1].path = @ + (now - e.start)]]
  BY <1>3, <1>5 DEF MeasuredPop, Measured
<1>8. /\ stack' \in StacksOf(K)
      /\ \A u \in Threads : u # t => stack'[u] = stack[u]
  <2>1. stack' \in [Threads -> Seq(Entries)]' /\ \A u \in Threads \ {t} : stack'[u] = stack[u]
    BY PopStep
  <2>2. DOMAIN records' = K
    BY <1>7
  <2>3. Entries' = EntriesOf(K)
    BY <2>2 DEF Entries, EntriesOf
  <2> QED
    BY <2>1, <2>3 DEF StacksOf, WeightsOf
<1>9. ASSUME n # 1
      PROVE  /\ s[n - 1].path + (now - e.start) \in 0 .. MaxTime
             /\ stack'[t] = Popped(s, s[n - 1].path + (now - e.start))
  <2>1. n - 1 \in 1 .. n /\ n - 1 < n /\ (n - 1) + 1 = n
    BY <1>9
  <2>2. s[n - 1] \in EntriesOf(K)
    BY <1>2, <1>3, <2>1, ElementOfSeq
  <2>3. s[n - 1].start \in Nat /\ s[n - 1].path \in Nat
    BY <2>2 DEF EntriesOf
  <2>4. s[n - 1].start + s[n - 1].path <= e.start
    BY <1>2, <1>3, <1>4, <2>1 DEF NestedAt
  <2>5. PICK x \in Nat : x = s[n - 1].path + (now - e.start)
    BY <1>6, <2>3
  <2>6. x \in 0 .. MaxTime
    BY <1>0, <1>5, <2>3, <2>4, <2>5, SMTT(30)
  <2>7. [Pop(s) EXCEPT ![n - 1].path = @ + (now - e.start)] = Popped(s, x)
    <3>1. PICK p \in Seq(EntriesOf(K)) : p = Pop(s) /\ p[n - 1] = s[n - 1]
      <4>0. n - 1 \in 0 .. Len(s) /\ n - 1 \in 1 .. n - 1 /\ Pop(s) = SubSeq(s, 1, n - 1)
        BY <1>3, <2>1 DEF Pop
      <4>1. PICK l \in 0 .. Len(s) : l = n - 1 /\ Pop(s) = SubSeq(s, 1, l) /\ l \in 1 .. l
        BY <4>0
      <4>2. SubSeq(s, 1, l) \in Seq(EntriesOf(K)) /\ \A i \in 1 .. l : SubSeq(s, 1, l)[i] = s[i]
        BY <1>2, PrefixType
      <4> QED
        BY <4>1, <4>2
    <3>2. [p EXCEPT ![n - 1].path = @ + (now - e.start)] = [p EXCEPT ![n - 1].path = x]
      BY <2>5, <3>1
    <3> QED
      BY <1>3, <3>1, <3>2 DEF Popped
  <2>8. stack'[t] = [Pop(s) EXCEPT ![n - 1].path = @ + (now - e.start)]
    BY <1>1, <1>7, <1>9 DEF StacksOf, WeightsOf
  <2> QED
    BY <2>5, <2>6, <2>7, <2>8
<1>10. n = 1 => stack'[t] = <<>>
  BY <1>1, <1>7 DEF StacksOf, WeightsOf
<1> QED
  BY <1>1, <1>2, <1>3, <1>5, <1>6, <1>7, <1>8, <1>9, <1>10 DEF PopsTop

\* How the weight of the stacks changes then.
PopWeighs(t, s, K) ==
  \A w \in WeightsOf(K) :
    /\ w[Top(s)] \in Int /\ Total(w, stack, lost) \in Int
    /\ Len(s) = 1 => Total(w, stack', lost) = Total(w, stack, lost) - w[Top(s)]
    /\ Len(s) # 1 =>
         \E x, y \in EntriesOf(K) :
           /\ y = s[Len(s) - 1] /\ x.rec = y.rec
           /\ x.path = y.path + (now - Top(s).start)
           /\ Total(w, stack', lost)
                = Total(w, stack, lost) - w[Top(s)] + (w[x] - w[y])

\* The weight of the entry popped goes, and that of the entry below changes.
LEMMA PopTotal ==
  ASSUME IInv, NEW t \in Threads, stack[t] # <<>>, MeasuredPop(t), UNCHANGED <<now, lost>>,
         NEW s, s = stack[t], NEW K, K = DOMAIN records
  PROVE  PopWeighs(t, s, K)
<1>1. /\ s \in Seq(EntriesOf(K)) /\ Len(s) \in Nat \ {0} /\ Top(s) \in EntriesOf(K)
      /\ stack \in StacksOf(K) /\ lost \in StacksOf(K)
      /\ stack' \in StacksOf(K)
      /\ \A u \in Threads : u # t => stack'[u] = stack[u]
      /\ Len(s) = 1 => stack'[t] = <<>>
      /\ Len(s) # 1 =>
           /\ s[Len(s) - 1].path + (now - Top(s).start) \in 0 .. MaxTime
           /\ stack'[t] = Popped(s, s[Len(s) - 1].path + (now - Top(s).start))
  <2>1. PopsTop(t, s, K)
    BY PopShape
  <2> QED
    BY <2>1 DEF PopsTop
<1>01. ASSUME NEW z \in 0 .. MaxTime, NEW r, r = Popped(s, z), Len(s) # 1
       PROVE  /\ r \in Seq(EntriesOf(K)) /\ Len(r) = Len(s) - 1
              /\ \A i \in 1 .. Len(s) - 1 : r[i].rec = s[i].rec
              /\ \A i \in 1 .. Len(s) - 2 : r[i] = s[i]
              /\ r[Len(s) - 1].path = z
  <2>1. s \in Seq(EntriesOf(K)) /\ s # <<>>
    BY <1>1
  <2>2. PopLeaves(K, s, z, r)
    BY <1>01, <2>1, PoppedEntries
  <2> QED
    BY <2>2 DEF PopLeaves
<1>02. ASSUME NEW w \in WeightsOf(K)
       PROVE  \A q, r \in Seq(EntriesOf(K)) : \A n \in Nat \ {0} :
                Len(q) = n + 1 /\ Len(r) = n /\ (\A i \in 1 .. n - 1 : r[i] = q[i])
                => Weight(w, r) = Weight(w, q) - w[q[n + 1]] + (w[r[n]] - w[q[n]])
  BY WeightPop, SMTT(30) DEF StacksOf, WeightsOf
<1> SUFFICES ASSUME NEW w \in WeightsOf(K)
             PROVE  /\ w[Top(s)] \in Int /\ Total(w, stack, lost) \in Int
                    /\ Len(s) = 1 => Total(w, stack', lost) = Total(w, stack, lost) - w[Top(s)]
                    /\ Len(s) # 1 =>
                         \E x, y \in EntriesOf(K) :
                           /\ y = s[Len(s) - 1] /\ x.rec = y.rec
                           /\ x.path = y.path + (now - Top(s).start)
                           /\ Total(w, stack', lost)
                                = Total(w, stack, lost) - w[Top(s)] + (w[x] - w[y])
  BY DEF PopWeighs
<1>03. \A q, r \in Seq(EntriesOf(K)) : \A n \in Nat \ {0} :
         Len(q) = n + 1 /\ Len(r) = n /\ (\A i \in 1 .. n - 1 : r[i] = q[i])
         => Weight(w, r) = Weight(w, q) - w[q[n + 1]] + (w[r[n]] - w[q[n]])
  BY <1>02
<1>2. PICK E : E = EntriesOf(K)
  OBVIOUS
<1>3. PICK Q, L, S : Q = stack' /\ L = lost /\ S = stack
  OBVIOUS
<1>4. /\ w \in [E -> Int] /\ S \in StacksOf(K) /\ L \in StacksOf(K)
      /\ Q \in StacksOf(K) /\ \A u \in Threads : u # t => Q[u] = S[u]
  BY <1>1, <1>2, <1>3 DEF StacksOf, WeightsOf
<1>5. /\ Total(w, Q, L) = Total(w, S, L) + (Weight(w, Q[t]) - Weight(w, S[t]))
      /\ Total(w, S, L) \in Int
  <2>1. \A A, B, C \in StacksOf(K) : \A z \in Threads :
          (\A u \in Threads : u # z => C[u] = A[u]) =>
            /\ Total(w, C, B) = Total(w, A, B) + (Weight(w, C[z]) - Weight(w, A[z]))
            /\ Total(w, A, B) \in Int
    BY <1>4, TotalChanges
  <2> QED
    BY <1>4, <2>1
<1>6. PICK n \in Nat \ {0} : n = Len(s)
  BY <1>1
<1>7. w[Top(s)] \in Int /\ Top(s) = s[n]
  BY <1>1, <1>6 DEF Top, StacksOf, WeightsOf
<1>04. \A q \in Seq(EntriesOf(K)) : /\ Weight(w, q) \in Int
                                    /\ Len(q) = 0 => Weight(w, q) = 0
                                    /\ Len(q) = 1 => Weight(w, q) = w[q[1]]
  BY WeightType DEF StacksOf, WeightsOf
<1>8. Weight(w, s) \in Int /\ (n = 1 => Weight(w, s) = w[s[1]])
  BY <1>1, <1>6, <1>04
<1>9. Weight(w, <<>>) = 0
  <2>1. PICK z \in Seq(EntriesOf(K)) : z = <<>> /\ Len(z) = 0
    BY EmptySeq
  <2>2. Weight(w, z) = 0
    BY <2>1, <1>04
  <2> QED
    BY <2>1, <2>2
<1>10. ASSUME n = 1 PROVE Total(w, Q, L) = Total(w, S, L) - w[Top(s)]
  <2>1. Q[t] = <<>> /\ S[t] = s
    BY <1>1, <1>3, <1>6, <1>10
  <2>2. Weight(w, Q[t]) - Weight(w, S[t]) = 0 - w[Top(s)]
    BY <1>7, <1>8, <1>9, <1>10, <2>1
  <2> QED
    BY <1>5, <1>7, <2>2
<1>11. ASSUME n # 1
       PROVE  \E x, y \in EntriesOf(K) :
                  /\ y = s[n - 1] /\ x.rec = y.rec
                  /\ x.path = y.path + (now - Top(s).start)
                  /\ Total(w, Q, L) = Total(w, S, L) - w[Top(s)] + (w[x] - w[y])
  <2>1. PICK z \in 0 .. MaxTime : z = s[n - 1].path + (now - Top(s).start) /\ Q[t] = Popped(s, z)
    BY <1>1, <1>3, <1>6, <1>11
  <2>2. PICK r : r = Popped(s, z)
    OBVIOUS
  <2>3. PICK m \in Nat \ {0} : m = n - 1 /\ n = m + 1 /\ m \in 1 .. m /\ m \in 1 .. n
    <3>1. n - 1 \in Nat \ {0} /\ n - 1 \in 1 .. n - 1 /\ n = (n - 1) + 1 /\ n - 1 \in 1 .. n
      BY <1>11
    <3> QED
      BY <3>1
  <2>4. /\ r \in Seq(EntriesOf(K)) /\ Len(r) = m /\ r[m].rec = s[m].rec /\ r[m].path = z
        /\ \A i \in 1 .. m - 1 : r[i] = s[i]
    <3>1. Len(s) # 1 /\ s # <<>>
      BY <1>6, <1>11
    <3>2. /\ r \in Seq(EntriesOf(K)) /\ Len(r) = Len(s) - 1
          /\ \A i \in 1 .. Len(s) - 1 : r[i].rec = s[i].rec
          /\ \A i \in 1 .. Len(s) - 2 : r[i] = s[i]
          /\ r[Len(s) - 1].path = z
      BY <1>01, <2>2, <3>1
    <3>3. Len(s) - 1 = m /\ Len(s) - 2 = m - 1
      BY <1>6, <2>3
    <3> QED
      BY <2>3, <3>2, <3>3
  <2>5. Weight(w, r) = Weight(w, s) - w[s[m + 1]] + (w[r[m]] - w[s[m]])
    <3>1. Len(s) = m + 1 /\ s \in Seq(EntriesOf(K))
      BY <1>1, <1>6, <2>3
    <3> QED
      BY <1>03, <2>4, <3>1
  <2>6. r[m] \in EntriesOf(K) /\ s[m] \in EntriesOf(K)
    BY <1>1, <1>6, <2>3, <2>4, ElementOfSeq
  <2>7. w[r[m]] \in Int /\ w[s[m]] \in Int /\ S[t] = s /\ Q[t] = r /\ Top(s) = s[m + 1]
    BY <1>3, <1>7, <2>1, <2>2, <2>3, <2>6 DEF StacksOf, WeightsOf
  <2>8. PICK a \in Int, b \in Int, d \in Int, g \in Int :
          a = w[Top(s)] /\ b = Weight(w, s) /\ d = Total(w, S, L) /\ g = w[r[m]] - w[s[m]]
    BY <1>5, <1>7, <1>8, <2>7
  <2>9. Total(w, Q, L) = d + ((b - a + g) - b)
    BY <1>5, <2>5, <2>7, <2>8
  <2>10. d + ((b - a + g) - b) = d - a + g
    OBVIOUS
  <2>11. Total(w, Q, L) = Total(w, S, L) - w[Top(s)] + (w[r[m]] - w[s[m]])
    BY <2>8, <2>9, <2>10
  <2> QED
    BY <2>1, <2>3, <2>4, <2>6, <2>11
<1> QED
  BY <1>3, <1>5, <1>6, <1>7, <1>10, <1>11

\* The stack that a hook makes for thread t weighs nothing.
NewWeightless(w, t, fr) ==
  stack[t] = <<>> => \A i \in 1 .. Len(NewStack(fr)) : w[NewStack(fr)[i]] = 0

\* graph_prehook moves what it frees to what was lost; a stack it makes weighs
\* nothing where its entries do.
LEMMA PrehookTotal ==
  ASSUME IInv, status = "running", NEW t \in Threads, NEW fr \in Seq(CallFrames(Funcs)),
         NEW collect \in BOOLEAN, NEW K, DOMAIN records \cup PrehookKeys(t, fr) \subseteq K,
         NEW S, S = Prehook(t, fr, collect), NEW M, M = PrehookLost(t, collect)
  PROVE  /\ S \in StacksOf(K) /\ M \in StacksOf(K)
         /\ stack \in StacksOf(K) /\ lost \in StacksOf(K)
         /\ S[t] # <<>>
         /\ \A w \in WeightsOf(K) :
              NewWeightless(w, t, fr)
              => Total(w, S, M) = Total(w, stack, lost)
<1>0. ProfileTypeOK /\ now \in 0 .. MaxTime
  BY DEF IInv, TypeOK, ProfileTypeOK
<1>1. PICK J : J = DOMAIN records \cup PrehookKeys(t, fr)
  OBVIOUS
<1>2. Seq(EntriesOf(J)) \subseteq Seq(EntriesOf(K)) /\ Seq(EntriesOf(DOMAIN records)) \subseteq Seq(EntriesOf(K))
  <2>1. J \subseteq K /\ DOMAIN records \subseteq K
    BY <1>1
  <2> QED
    BY <2>1, EntriesMonotonic
<1>3. S \in [Threads -> Seq(EntriesOf(J))] /\ S[t] # <<>> /\ M \in [Threads -> Seq(EntriesOf(J))]
  <2>1. LET r == Prehook(t, fr, collect)
            I == DOMAIN records \cup PrehookKeys(t, fr)
        IN  /\ r \in [Threads -> Seq(EntriesOf(I))] /\ r[t] # <<>>
            /\ PrehookLost(t, collect) \in [Threads -> Seq(EntriesOf(I))]
    BY PrehookType
  <2> QED
    BY <1>1, <2>1
<1>4. S \in StacksOf(K) /\ M \in StacksOf(K)
  BY <1>2, <1>3 DEF StacksOf, WeightsOf
<1>5. stack \in StacksOf(K) /\ lost \in StacksOf(K)
  <2>1. Entries = EntriesOf(DOMAIN records)
    BY DEF Entries, EntriesOf
  <2> QED
    BY <1>0, <1>2, <2>1 DEF ProfileTypeOK, StacksOf, WeightsOf
<1>6. \A u \in Threads :
        /\ S[u] = IF u = t THEN IF stack[t] = <<>> THEN NewStack(fr) ELSE stack[t]
                  ELSE IF collect /\ u \notin alive THEN <<>> ELSE stack[u]
        /\ M[u] = IF collect /\ u # t /\ u \notin alive THEN stack[u] \o lost[u] ELSE lost[u]
  BY DEF Prehook, PrehookLost
<1>7. ASSUME NEW w \in WeightsOf(K),
             NewWeightless(w, t, fr)
      PROVE  Total(w, S, M) = Total(w, stack, lost)
  <2>1. \A q \in Seq(EntriesOf(K)) : /\ Weight(w, q) \in Int
                                     /\ (\A i \in 1 .. Len(q) : w[q[i]] = 0) => Weight(w, q) = 0
                                     /\ Len(q) = 0 => Weight(w, q) = 0
    BY WeightType DEF StacksOf, WeightsOf
  <2>2. \A q, r \in Seq(EntriesOf(K)) : Weight(w, q \o r) = Weight(w, q) + Weight(w, r)
    BY WeightConcat DEF StacksOf, WeightsOf
  <2>3. Weight(w, <<>>) = 0
    <3>1. PICK z \in Seq(EntriesOf(K)) : z = <<>> /\ Len(z) = 0
      BY EmptySeq
    <3>2. Weight(w, z) = 0
      BY <2>1, <3>1
    <3> QED
      BY <3>1, <3>2
  <2>4. ASSUME NEW u \in Threads
        PROVE  Weight(w, S[u]) + Weight(w, M[u]) = Weight(w, stack[u]) + Weight(w, lost[u])
    <3>1. /\ stack[u] \in Seq(EntriesOf(K)) /\ lost[u] \in Seq(EntriesOf(K))
          /\ S[u] \in Seq(EntriesOf(K))
      BY <1>4, <1>5 DEF StacksOf, WeightsOf
    <3>2. CASE u = t /\ stack[t] = <<>>
      <4>1. M[u] = lost[u] /\ S[u] = NewStack(fr) /\ stack[u] = <<>>
        BY <1>6, <3>2
      <4>2. \A i \in 1 .. Len(S[u]) : w[S[u][i]] = 0
        BY <1>7, <3>2, <4>1 DEF NewWeightless
      <4>3. Weight(w, S[u]) = 0
        BY <2>1, <3>1, <4>2
      <4> QED
        BY <2>3, <4>1, <4>3
    <3>3. CASE u # t /\ collect = TRUE /\ u \notin alive
      <4>1. M[u] = stack[u] \o lost[u] /\ S[u] = <<>>
        BY <1>6, <3>3
      <4>2. Weight(w, M[u]) = Weight(w, stack[u]) + Weight(w, lost[u])
        BY <2>2, <3>1, <4>1
      <4>3. Weight(w, stack[u]) \in Int /\ Weight(w, lost[u]) \in Int
        BY <2>1, <3>1
      <4> QED
        BY <2>3, <4>1, <4>2, <4>3
    <3>4. CASE ~(u = t /\ stack[t] = <<>>) /\ ~(u # t /\ collect = TRUE /\ u \notin alive)
      <4>1. M[u] = lost[u] /\ S[u] = stack[u]
        BY <1>6, <3>4
      <4> QED
        BY <4>1
    <3> QED
      BY <3>2, <3>3, <3>4
  <2> QED
    BY <2>4, TotalKept
<1> QED
  BY <1>3, <1>4, <1>5, <1>7

\* Stacks stay linked across graph_prehook.
LEMMA PrehookLinked ==
  ASSUME now \in 0 .. MaxTime, NEW t \in Threads, NEW fr \in Seq(CallFrames(Funcs)),
         NEW collect \in BOOLEAN, NEW S, S = Prehook(t, fr, collect),
         \A u \in Threads : LinkedIn(compress, stack[u])
  PROVE  \A u \in Threads : LinkedIn(compress, S[u])
<1>1. LinkedIn(compress, NewStack(fr))
  BY NewLinked
<1>2. LinkedIn(compress, <<>>)
  BY DEF LinkedIn
<1> QED
  BY <1>1, <1>2 DEF Prehook

\* What a call event with entry e for a call of f, with record key, does to the
\* records, whose keys are K then, and to the weight of the stacks.
Pushes(t, fr, f, key, K, e) ==
  /\ records' = With(records, PrehookKeys(t, fr) \cup {key})
  /\ stack \in StacksOf(K) /\ lost \in StacksOf(K)
  /\ stack' \in StacksOf(K) /\ lost' \in StacksOf(K)
  /\ e \in EntriesOf(K) /\ e.path = 0 /\ e.rec[1] = f
  /\ status' \in {"running", "error"}
  /\ \A w \in WeightsOf(K) :
       NewWeightless(w, t, fr)
       => /\ Total(w, stack, lost) \in Int
          /\ status' = "error" => Total(w, stack', lost') = Total(w, stack, lost)
          /\ status' # "error" => Total(w, stack', lost') = Total(w, stack, lost) + w[e]
  /\ (\A u \in Threads : LinkedIn(compress, stack[u]))
     => \A u \in Threads : LinkedIn(compress, stack'[u])

\* A call event adds the weight of the entry it pushes, if it pushes one.
LEMMA CallTotal ==
  ASSUME IInv, Idle, NEW t \in Threads, NEW fr \in Seq(CallFrames(Funcs)), NEW f \in Funcs,
         NEW collect \in BOOLEAN, CallHook(t, fr, f, collect),
         NEW K, K = DOMAIN records', NEW key, key = Key(f, Top(Prehook(t, fr, collect)[t]).rec),
         NEW e, e = Entry(key)
  PROVE  Pushes(t, fr, f, key, K, e)
<1>0. /\ ProfileTypeOK /\ status = "running" /\ now \in 0 .. MaxTime /\ now \in Nat
      /\ 0 \in 0 .. MaxTime
  BY GraphStackAssumption DEF Idle, IInv, TypeOK, ProfileTypeOK
<1>1. PICK S, M : S = Prehook(t, fr, collect) /\ M = PrehookLost(t, collect)
  OBVIOUS
<1>2. /\ \/ status' = "running" /\ stack' = [S EXCEPT ![t] = Append(S[t], e)]
         \/ status' = "error" /\ stack' = S
      /\ records' = Fetched(PrehookKeys(t, fr) \cup {key})
      /\ lost' = M /\ key = Key(f, Top(S[t]).rec)
  BY <1>0, <1>1 DEF CallHook
<1>3. records' = With(records, PrehookKeys(t, fr) \cup {key})
  BY <1>2 DEF Fetched, With
<1>4. K = DOMAIN records \cup (PrehookKeys(t, fr) \cup {key})
  BY <1>3 DEF With
<1>5. e \in EntriesOf(K) /\ e.path = 0 /\ e.rec = key
  BY <1>0, <1>1, <1>4 DEF Entry, EntriesOf
<1>6. e.rec[1] = f
  BY <1>2, <1>5, KeyTells
<1>7. DOMAIN records \cup PrehookKeys(t, fr) \subseteq K
  BY <1>4
<1>8. /\ S \in StacksOf(K) /\ M \in StacksOf(K)
      /\ stack \in StacksOf(K) /\ lost \in StacksOf(K)
      /\ S[t] # <<>>
      /\ \A w \in WeightsOf(K) :
           NewWeightless(w, t, fr)
           => Total(w, S, M) = Total(w, stack, lost)
  <2>1. /\ S \in StacksOf(K) /\ M \in StacksOf(K)
        /\ stack \in StacksOf(K) /\ lost \in StacksOf(K)
        /\ S[t] # <<>>
    BY <1>0, <1>1, <1>7, PrehookTotal
  <2>2. \A w \in WeightsOf(K) :
          NewWeightless(w, t, fr)
          => Total(w, S, M) = Total(w, stack, lost)
    BY <1>0, <1>1, <1>7, PrehookTotal
  <2> QED
    BY <2>1, <2>2
<1>9. PICK r : r = Append(S[t], e)
  OBVIOUS
<1>10. /\ r \in Seq(EntriesOf(K)) /\ Len(r) = Len(S[t]) + 1
       /\ stack' \in StacksOf(K)
       /\ status' # "error" => /\ stack'[t] = r
                               /\ \A u \in Threads : u # t => stack'[u] = S[u]
  <2>1. S[t] \in Seq(EntriesOf(K))
    BY <1>8 DEF StacksOf, WeightsOf
  <2>2. r \in Seq(EntriesOf(K)) /\ Len(r) = Len(S[t]) + 1
    BY <1>5, <1>9, <2>1, AppendProperties
  <2> QED
    BY <1>2, <1>8, <1>9, <2>2 DEF StacksOf, WeightsOf
<1>11. ASSUME NEW w \in WeightsOf(K),
              NewWeightless(w, t, fr)
       PROVE  /\ Total(w, stack, lost) \in Int
              /\ status' = "error" => Total(w, stack', lost') = Total(w, stack, lost)
              /\ status' # "error" => Total(w, stack', lost') = Total(w, stack, lost) + w[e]
  <2>1. \A A, B, C \in StacksOf(K) : \A z \in Threads :
          (\A u \in Threads : u # z => C[u] = A[u]) =>
            /\ Total(w, C, B) = Total(w, A, B) + (Weight(w, C[z]) - Weight(w, A[z]))
            /\ Total(w, A, B) \in Int
    BY TotalChanges
  <2>2. \A q \in Seq(EntriesOf(K)) : \A g \in EntriesOf(K) :
          Weight(w, Append(q, g)) = Weight(w, q) + w[g]
    BY WeightAppend DEF StacksOf, WeightsOf
  <2>3. \A q \in Seq(EntriesOf(K)) : Weight(w, q) \in Int
    BY WeightType DEF StacksOf, WeightsOf
  <2>4. Total(w, S, M) = Total(w, stack, lost) /\ Total(w, stack, lost) \in Int
    <3>1. Total(w, stack, lost) \in Int
      <4>1. \A u \in Threads : u # t => stack[u] = stack[u]
        OBVIOUS
      <4> QED
        BY <1>8, <2>1, <4>1
    <3>2. Total(w, S, M) = Total(w, stack, lost)
      BY <1>8, <1>11
    <3> QED
      BY <3>1, <3>2
  <2>5. CASE status' = "error"
    BY <1>2, <2>4, <2>5
  <2>6. CASE status' # "error"
    <3>1. PICK Q : Q = stack'
      OBVIOUS
    <3>2. Q \in StacksOf(K) /\ Q[t] = r /\ \A u \in Threads : u # t => Q[u] = S[u]
      BY <1>10, <2>6, <3>1
    <3>3. Total(w, Q, M) = Total(w, S, M) + (Weight(w, Q[t]) - Weight(w, S[t]))
      <4>1. S \in StacksOf(K) /\ M \in StacksOf(K)
        BY <1>8
      <4> QED
        BY <2>1, <3>2, <4>1
    <3>4. S[t] \in Seq(EntriesOf(K)) /\ w[e] \in Int
      BY <1>5, <1>8 DEF StacksOf, WeightsOf
    <3>5. Weight(w, r) = Weight(w, S[t]) + w[e] /\ Weight(w, S[t]) \in Int
      BY <1>5, <1>9, <2>2, <2>3, <3>4
    <3>6. Weight(w, Q[t]) - Weight(w, S[t]) = w[e]
      BY <3>2, <3>4, <3>5
    <3>7. Total(w, Q, M) = Total(w, stack, lost) + w[e]
      BY <2>4, <3>3, <3>6
    <3> QED
      BY <1>2, <2>4, <2>6, <3>1, <3>7
  <2> QED
    BY <2>5, <2>6
<1>12. ASSUME \A u \in Threads : LinkedIn(compress, stack[u])
       PROVE  \A u \in Threads : LinkedIn(compress, stack'[u])
  <2>1. \A u \in Threads : LinkedIn(compress, S[u])
    BY <1>0, <1>1, <1>12, PrehookLinked
  <2>2. CASE status' = "error"
    BY <1>2, <2>1, <2>2
  <2>3. CASE status' # "error"
    <3>1. PICK s \in Seq(EntriesOf(K)) : s = S[t] /\ s # <<>> /\ LinkedIn(compress, s)
      BY <1>8, <2>1 DEF StacksOf, WeightsOf
    <3>2. e.rec # RootKey /\ e.rec[2] = ParentIn(compress, s[Len(s)].rec)
      <4>1. key = Key(f, s[Len(s)].rec)
        BY <1>2, <3>1 DEF Top
      <4> QED
        BY <1>5, <4>1, KeyTells
    <3>3. r = Append(s, e)
      BY <1>9, <3>1
    <3>4. LinkedIn(compress, r)
      BY <3>1, <3>2, <3>3, AppendLinked
    <3> QED
      BY <1>10, <2>1, <2>3, <3>4
  <2> QED
    BY <2>2, <2>3
<1> QED
  BY <1>1, <1>2, <1>3, <1>5, <1>6, <1>8, <1>10, <1>11, <1>12 DEF Pushes

\* Every stack is linked, whatever is being popped.
Linked == \A t \in Threads : LinkedIn(compress, stack[t])

\* ChildrenAddUp, of one identifier and of any records and stacks.
BalanceIn(c, R, S, L, id) ==
  NotOwnIn(c, R, id) + CollectedTotal(c, id, S, L) = OfCalleesIn(R, id)

\* The inductive invariant of the sums.
SumsInv ==
  /\ IsFiniteSet(DOMAIN records)
  /\ Linked
  /\ \A id : BalanceIn(compress, records, stack, lost, id)

\* The balance in terms of weights.
LEMMA BalanceWeighs ==
  ASSUME NEW c, NEW R, NEW id, NEW K
  PROVE  \A S, L \in StacksOf(K) :
           BalanceIn(c, R, S, L, id)
           <=> NotOwnIn(c, R, id) + Total(CollectedBy(c, id, K), S, L) = OfCalleesIn(R, id)
<1>0. PICK f : TRUE
  OBVIOUS
<1>1. \A S, L \in StacksOf(K) :
        /\ CollectedTotal(c, id, S, L)
             = Total(CollectedBy(c, id, K), S, L)
        /\ OpenTotal(f, S, L)
             = Total(OpenBy(f, K), S, L)
  BY CollectedTotals
<1> QED
  BY <1>1 DEF BalanceIn

\* A stack just made has collected nothing.
LEMMA NewCollectsNothing ==
  ASSUME now \in 0 .. MaxTime, NEW t, NEW fr \in Seq(CallFrames(Funcs)), NEW K,
         stack[t] = <<>> => NewKeys(fr) \subseteq K, NEW c, NEW id
  PROVE  NewWeightless(CollectedBy(c, id, K), t, fr)
<1> SUFFICES ASSUME stack[t] = <<>>, NEW i \in 1 .. Len(NewStack(fr))
             PROVE  CollectedBy(c, id, K)[NewStack(fr)[i]] = 0
  BY DEF NewWeightless
<1>1. NewStack(fr) \in Seq(EntriesOf(K))
  BY NewStackType, EntriesMonotonic
<1>2. PICK e \in EntriesOf(K) : e = NewStack(fr)[i] /\ e.path = 0
  BY <1>1, ElementOfSeq, NewLinked
<1> QED
  BY <1>2 DEF CollectedBy

\* The records that graph_prehook looks up are finitely many.
LEMMA PrehookKeysFinite ==
  ASSUME NEW t, NEW fr \in Seq(CallFrames(Funcs)), IsFiniteSet(DOMAIN records)
  PROVE  /\ IsFiniteSet(DOMAIN records \cup PrehookKeys(t, fr))
         /\ \A key : IsFiniteSet(DOMAIN records \cup (PrehookKeys(t, fr) \cup {key}))
<1>1. Len(fr) \in Nat
  BY LenProperties
<1>2. IsFiniteSet(NewKeys(fr)) /\ IsFiniteSet({})
  BY <1>1, NewKeysFinite, FS_EmptySet
<1>3. IsFiniteSet(PrehookKeys(t, fr))
  BY <1>2 DEF PrehookKeys
<1>4. IsFiniteSet(DOMAIN records \cup PrehookKeys(t, fr))
  BY <1>3, FS_Union
<1>5. \A key : IsFiniteSet((DOMAIN records \cup PrehookKeys(t, fr)) \cup {key})
  BY <1>4, FS_AddElement
<1>6. \A key : DOMAIN records \cup (PrehookKeys(t, fr) \cup {key})
                 = (DOMAIN records \cup PrehookKeys(t, fr)) \cup {key}
  OBVIOUS
<1> QED
  BY <1>4, <1>5, <1>6

\* Records are added and the collected times stay: the graph still adds up.
LEMMA BalanceKept ==
  ASSUME \A k \in DOMAIN records : records[k] \in Records, NEW c, NEW id, NEW A, NEW K,
         IsFiniteSet(DOMAIN records \cup A), NEW R, R = With(records, A)
  PROVE  \A S, L, Q, M \in StacksOf(K) :
           /\ Total(CollectedBy(c, id, K), Q, M) = Total(CollectedBy(c, id, K), S, L)
           /\ BalanceIn(c, records, S, L, id)
           => BalanceIn(c, R, Q, M, id)
<1>0. PICK f : TRUE
  OBVIOUS
<1>1. NotOwnIn(c, R, id) = NotOwnIn(c, records, id) /\ OfCalleesIn(R, id) = OfCalleesIn(records, id)
  <2>1. AddsNothing(records, A, c, id, f)
    BY WithSums
  <2> QED
    BY <2>1 DEF AddsNothing
<1>2. \A V : \A T, B \in StacksOf(K) :
        BalanceIn(c, V, T, B, id)
        <=> NotOwnIn(c, V, id) + Total(CollectedBy(c, id, K), T, B) = OfCalleesIn(V, id)
  BY BalanceWeighs
<1> QED
  BY <1>1, <1>2

\* A hook that pushes nothing.
LEMMA HookSums ==
  ASSUME IInv, SumsInv, status = "running", NEW t \in Threads,
         NEW fr \in Seq(CallFrames(Funcs)), NEW collect \in BOOLEAN,
         HookPrepares(t, fr, collect), UNCHANGED <<now, options>>
  PROVE  SumsInv'
<1>0. /\ now \in 0 .. MaxTime /\ compress' = compress
      /\ \A k \in DOMAIN records : records[k] \in Records
  BY DEF IInv, TypeOK, ProfileTypeOK, options, Records
<1>1. PICK A, K : A = PrehookKeys(t, fr) /\ K = DOMAIN records \cup A
  OBVIOUS
<1>2. PICK S, M : S = Prehook(t, fr, collect) /\ M = PrehookLost(t, collect)
  OBVIOUS
<1>3. stack' = S /\ lost' = M /\ records' = With(records, A) /\ DOMAIN records' = K
  BY <1>1, <1>2 DEF HookPrepares, Fetched, With
<1>4. IsFiniteSet(K)
  BY <1>1, PrehookKeysFinite DEF SumsInv
<1>5. /\ S \in StacksOf(K) /\ M \in StacksOf(K)
      /\ stack \in StacksOf(K) /\ lost \in StacksOf(K)
  <2>1. DOMAIN records \cup PrehookKeys(t, fr) \subseteq K
    BY <1>1
  <2> QED
    BY <1>2, <2>1, PrehookTotal
<1>6. \A w \in WeightsOf(K) :
        NewWeightless(w, t, fr) => Total(w, S, M) = Total(w, stack, lost)
  <2>1. DOMAIN records \cup PrehookKeys(t, fr) \subseteq K
    BY <1>1
  <2> QED
    BY <1>2, <2>1, PrehookTotal
<1>7. \A u \in Threads : LinkedIn(compress, S[u])
  BY <1>0, <1>2, PrehookLinked DEF SumsInv, Linked
<1>8. ASSUME NEW id
      PROVE  BalanceIn(compress, records', S, M, id)
  <2>1. CollectedBy(compress, id, K) \in WeightsOf(K)
    BY WeightsType
  <2>2. NewWeightless(CollectedBy(compress, id, K), t, fr)
    <3>1. stack[t] = <<>> => NewKeys(fr) \subseteq K
      BY <1>1 DEF PrehookKeys
    <3> QED
      BY <1>0, <3>1, NewCollectsNothing
  <2>3. Total(CollectedBy(compress, id, K), S, M) = Total(CollectedBy(compress, id, K), stack, lost)
    BY <1>6, <2>1, <2>2
  <2>4. BalanceIn(compress, records, stack, lost, id)
    BY DEF SumsInv
  <2> QED
    BY <1>0, <1>1, <1>3, <1>4, <1>5, <2>3, <2>4, BalanceKept
<1> QED
  BY <1>0, <1>3, <1>4, <1>7, <1>8 DEF SumsInv, Linked

\* A call event: the entry it pushes has collected nothing.
LEMMA CallSums ==
  ASSUME IInv, SumsInv, Idle, NEW t \in Threads, NEW fr \in Seq(CallFrames(Funcs)),
         NEW f \in Funcs, NEW collect \in BOOLEAN, CallHook(t, fr, f, collect),
         UNCHANGED <<now, options>>
  PROVE  SumsInv'
<1>0. /\ now \in 0 .. MaxTime /\ compress' = compress
      /\ \A k \in DOMAIN records : records[k] \in Records
  BY DEF IInv, TypeOK, ProfileTypeOK, options, Records
<1>1. PICK K, key : K = DOMAIN records' /\ key = Key(f, Top(Prehook(t, fr, collect)[t]).rec)
  OBVIOUS
<1>2. PICK A, e : A = PrehookKeys(t, fr) \cup {key} /\ e = Entry(key)
  OBVIOUS
<1>3. PICK Q, M : Q = stack' /\ M = lost'
  OBVIOUS
<1>31. Pushes(t, fr, f, key, K, e)
  BY <1>1, <1>2, CallTotal
<1>4. /\ records' = With(records, A)
      /\ stack \in StacksOf(K) /\ lost \in StacksOf(K)
      /\ Q \in StacksOf(K) /\ M \in StacksOf(K)
      /\ e \in EntriesOf(K) /\ e.path = 0
  BY <1>2, <1>3, <1>31 DEF Pushes
<1>32. (\A u \in Threads : LinkedIn(compress, stack[u]))
       => \A u \in Threads : LinkedIn(compress, Q[u])
  BY <1>3, <1>31 DEF Pushes
<1>5. \A w \in WeightsOf(K) : NewWeightless(w, t, fr) =>
        /\ Total(w, stack, lost) \in Int
        /\ status' = "error" => Total(w, Q, M) = Total(w, stack, lost)
        /\ status' # "error" => Total(w, Q, M) = Total(w, stack, lost) + w[e]
  BY <1>3, <1>31 DEF Pushes
<1>6. K = DOMAIN records \cup A /\ IsFiniteSet(K)
  <2>1. K = DOMAIN records \cup A
    BY <1>1, <1>4 DEF With
  <2>2. IsFiniteSet(DOMAIN records \cup A)
    BY <1>2, PrehookKeysFinite DEF SumsInv
  <2> QED
    BY <2>1, <2>2
<1>7. \A u \in Threads : LinkedIn(compress, Q[u])
  BY <1>32 DEF SumsInv, Linked
<1>8. ASSUME NEW id
      PROVE  BalanceIn(compress, records', Q, M, id)
  <2>1. PICK w \in WeightsOf(K) : w = CollectedBy(compress, id, K)
    BY WeightsType
  <2>2. NewWeightless(w, t, fr)
    <3>1. stack[t] = <<>> => NewKeys(fr) \subseteq K
      BY <1>2, <1>6 DEF PrehookKeys
    <3> QED
      BY <1>0, <2>1, <3>1, NewCollectsNothing
  <2>3. w[e] = 0
    BY <1>4, <2>1 DEF CollectedBy
  <2>4. Total(w, Q, M) = Total(w, stack, lost)
    BY <1>5, <2>2, <2>3
  <2>5. BalanceIn(compress, records, stack, lost, id)
    BY DEF SumsInv
  <2> QED
    BY <1>0, <1>4, <1>6, <2>1, <2>4, <2>5, BalanceKept
<1> QED
  BY <1>0, <1>1, <1>3, <1>6, <1>7, <1>8 DEF SumsInv, Linked

\* The time of a call that ends moves from its entry to its record, and to the
\* entry of its caller, whose child its record is.
LEMMA PopSums ==
  ASSUME IInv, SumsInv, NEW t \in Threads, stack[t] # <<>>, MeasuredPop(t),
         UNCHANGED <<now, lost, options>>
  PROVE  SumsInv'
<1>0. /\ now \in 0 .. MaxTime /\ compress' = compress
      /\ \A k \in DOMAIN records : records[k] \in Records
  BY DEF IInv, TypeOK, ProfileTypeOK, options, Records
<1>1. PICK K, s : K = DOMAIN records /\ s = stack[t]
  OBVIOUS
<1>2. PICK Q : Q = stack'
  OBVIOUS
<1>3. PopsTop(t, s, K) /\ PopWeighs(t, s, K)
  BY <1>1, PopShape, PopTotal
<1>4. /\ s \in Seq(EntriesOf(K)) /\ s # <<>> /\ Len(s) \in Nat \ {0}
      /\ stack \in StacksOf(K) /\ lost \in StacksOf(K) /\ Q \in StacksOf(K)
      /\ \A u \in Threads : u # t => Q[u] = stack[u]
      /\ Len(s) = 1 => Q[t] = <<>>
      /\ Len(s) # 1 =>
           /\ s[Len(s) - 1].path + (now - Top(s).start) \in 0 .. MaxTime
           /\ Q[t] = Popped(s, s[Len(s) - 1].path + (now - Top(s).start))
  BY <1>1, <1>2, <1>3 DEF PopsTop
<1>5. PICK e \in EntriesOf(K), d \in Nat, p \in Nat :
        /\ e = Top(s) /\ d = now - e.start /\ p = e.path /\ e.rec \in K
        /\ records' = [records EXCEPT ![e.rec] = Measured(records[e.rec], d, p)]
  BY <1>3 DEF PopsTop, EntriesOf
<1>6. IsFiniteSet(K) /\ DOMAIN records' = K /\ LinkedIn(compress, s)
  BY <1>1, <1>5 DEF SumsInv, Linked
<1>7. \A u \in Threads : LinkedIn(compress, Q[u])
  <2>1. LinkedIn(compress, <<>>)
    BY DEF LinkedIn
  <2>2. LinkedIn(compress, Q[t])
    <3>1. CASE Len(s) = 1
      BY <1>4, <2>1, <3>1
    <3>2. CASE Len(s) # 1
      BY <1>4, <1>6, <3>2, PoppedLinked
    <3> QED
      BY <3>1, <3>2
  <2> QED
    BY <1>4, <2>2 DEF SumsInv, Linked
<1>8. ASSUME NEW id
      PROVE  BalanceIn(compress, records', Q, lost, id)
  <2>1. PICK w \in WeightsOf(K) : w = CollectedBy(compress, id, K)
    BY WeightsType
  <2>2. /\ w[e] \in Int /\ Total(w, stack, lost) \in Int
        /\ Len(s) = 1 => Total(w, Q, lost) = Total(w, stack, lost) - w[e]
        /\ Len(s) # 1 =>
             \E x, y \in EntriesOf(K) :
               /\ y = s[Len(s) - 1] /\ x.rec = y.rec /\ x.path = y.path + d
               /\ Total(w, Q, lost) = Total(w, stack, lost) - w[e] + (w[x] - w[y])
    BY <1>2, <1>3, <1>5 DEF PopWeighs
  <2>3. w[e] = IF ParentIn(compress, e.rec) = id THEN p ELSE 0
    BY <1>5, <2>1 DEF CollectedBy
  <2>4. PICK a \in Int : a = IF e.rec # RootKey /\ e.rec[2] = id THEN d ELSE 0
    OBVIOUS
  <2>5. Total(w, Q, lost) = Total(w, stack, lost) - w[e] + a
    <3>1. CASE Len(s) = 1
      <4>1. e.rec = RootKey
        BY <1>4, <1>5, <1>6, <3>1 DEF LinkedIn, Top
      <4>2. a = 0
        BY <2>4, <4>1
      <4> QED
        BY <2>2, <3>1, <4>2
    <3>2. CASE Len(s) # 1
      <4>1. PICK x \in EntriesOf(K), y \in EntriesOf(K) :
              /\ y = s[Len(s) - 1] /\ x.rec = y.rec /\ x.path = y.path + d
              /\ Total(w, Q, lost) = Total(w, stack, lost) - w[e] + (w[x] - w[y])
        BY <2>2, <3>2
      <4>2. e.rec # RootKey /\ e.rec[2] = ParentIn(compress, y.rec)
        <5>1. Len(s) - 1 \in 1 .. Len(s) - 1 /\ (Len(s) - 1) + 1 = Len(s)
          <6>1. PICK n \in Nat \ {0} : n = Len(s)
            BY <1>4
          <6>2. n # 1
            BY <3>2, <6>1
          <6>3. n - 1 \in 1 .. n - 1 /\ (n - 1) + 1 = n
            BY <6>2
          <6> QED
            BY <6>1, <6>3
        <5> QED
          BY <1>5, <1>6, <4>1, <5>1 DEF LinkedIn, Top
      <4>3. w[x] - w[y] = a
        <5>1. x.path \in Nat /\ y.path \in Nat
          BY GraphStackAssumption DEF EntriesOf
        <5>2. /\ w[x] = IF ParentIn(compress, y.rec) = id THEN y.path + d ELSE 0
              /\ w[y] = IF ParentIn(compress, y.rec) = id THEN y.path ELSE 0
          BY <2>1, <4>1 DEF CollectedBy
        <5> QED
          BY <2>4, <4>2, <5>1, <5>2
      <4> QED
        BY <4>1, <4>3
    <3> QED
      BY <3>1, <3>2
  <2>6. /\ NotOwnIn(compress, records, id) \in Int /\ OfCalleesIn(records, id) \in Int
        /\ NotOwnIn(compress, records', id) = NotOwnIn(compress, records, id) + w[e]
        /\ OfCalleesIn(records', id) = OfCalleesIn(records, id) + a
    <3>1. PICK f : TRUE
      OBVIOUS
    <3>2. PICK R : R = records'
      OBVIOUS
    <3>3. Ends(records, R, e.rec, d, p, compress, id, f)
      <4>1. /\ IsFiniteSet(DOMAIN records) /\ e.rec \in DOMAIN records
            /\ R = [records EXCEPT ![e.rec] = Measured(records[e.rec], d, p)]
        BY <1>1, <1>5, <1>6, <3>2
      <4> QED
        BY <1>0, <4>1, MeasuredSums
    <3> QED
      BY <2>3, <2>4, <3>2, <3>3 DEF Ends
  <2>7. NotOwnIn(compress, records, id) + Total(w, stack, lost) = OfCalleesIn(records, id)
    <3>1. BalanceIn(compress, records, stack, lost, id)
      BY DEF SumsInv
    <3> QED
      BY <1>4, <2>1, <3>1, BalanceWeighs
  <2>8. NotOwnIn(compress, records', id) + Total(w, Q, lost) = OfCalleesIn(records', id)
    <3>1. PICK b \in Int, g \in Int, h \in Int, l \in Int :
            /\ b = NotOwnIn(compress, records, id) /\ g = OfCalleesIn(records, id)
            /\ h = Total(w, stack, lost) /\ l = w[e]
      BY <2>2, <2>6
    <3>2. b + h = g => (b + l) + (h - l + a) = g + a
      OBVIOUS
    <3> QED
      BY <2>5, <2>6, <2>7, <3>1, <3>2
  <2> QED
    BY <1>4, <2>1, <2>8, BalanceWeighs
<1>9. lost' = lost
  OBVIOUS
<1> QED
  BY <1>0, <1>2, <1>6, <1>7, <1>8, <1>9 DEF SumsInv, Linked

\* Stacks of entries that weigh nothing.
LEMMA TotalZero ==
  ASSUME NEW K, NEW w \in WeightsOf(K)
  PROVE  \A S, L \in StacksOf(K) :
           (\A t \in Threads : L[t] = <<>> /\ \A i \in 1 .. Len(S[t]) : w[S[t][i]] = 0)
           => Total(w, S, L) = 0
<1>1. \A q \in Seq(EntriesOf(K)) : /\ (\A i \in 1 .. Len(q) : w[q[i]] = 0) => Weight(w, q) = 0
                                   /\ Len(q) = 0 => Weight(w, q) = 0
  BY WeightType DEF StacksOf, WeightsOf
<1>2. IsFiniteSet(Threads)
  BY GraphStackAssumption
<1>3. \A g \in [Threads -> Int] : (\A t \in Threads : g[t] = 0) => SumFunction(g) = 0
  BY <1>2, SumZeros
<1>4. Weight(w, <<>>) = 0
  <2>1. PICK z \in Seq(EntriesOf(K)) : z = <<>> /\ Len(z) = 0
    BY EmptySeq
  <2>2. Weight(w, z) = 0
    BY <1>1, <2>1
  <2> QED
    BY <2>1, <2>2
<1> SUFFICES ASSUME NEW S \in StacksOf(K), NEW L \in StacksOf(K),
                    \A t \in Threads : L[t] = <<>> /\ \A i \in 1 .. Len(S[t]) : w[S[t][i]] = 0
             PROVE  Total(w, S, L) = 0
  OBVIOUS
<1>5. \A t \in Threads : Weight(w, S[t]) = 0 /\ Weight(w, L[t]) = 0
  BY <1>1, <1>4 DEF StacksOf, WeightsOf
<1>6. PICK g : g = [t \in Threads |-> Weight(w, S[t]) + Weight(w, L[t])]
  OBVIOUS
<1>7. \A t \in Threads : g[t] = 0
  BY <1>5, <1>6
<1>8. g \in [Threads -> Int]
  BY <1>6, <1>7
<1> QED
  BY <1>3, <1>6, <1>7, <1>8 DEF Total

\* Records of which nothing has been measured.
LEMMA ZeroSums ==
  ASSUME NEW K, IsFiniteSet(K), NEW R, R = [k \in K |-> Zero], NEW c, NEW id, NEW f
  PROVE  NotOwnIn(c, R, id) = 0 /\ OfCalleesIn(R, id) = 0 /\ CountIn(R, f) = 0
<1>1. \A g \in [K -> Int] : (\A k \in K : g[k] = 0) => SumFunction(g) = 0
  BY SumZeros
<1>2. PICK u : u = [k \in K |-> 0]
  OBVIOUS
<1>3. u \in [K -> Int] /\ \A k \in K : u[k] = 0
  BY <1>2
<1>4. SumFunction(u) = 0
  BY <1>1, <1>3
<1>5. DOMAIN R = K /\ \A k \in K : R[k].path = 0 /\ R[k].node = 0 /\ R[k].count = 0
  BY DEF Zero
<1>6. [k \in DOMAIN R |-> IF ParentIn(c, k) = id THEN R[k].path - R[k].node ELSE 0] = u
  BY <1>2, <1>5
<1>7. [k \in DOMAIN R |-> IF k # RootKey /\ k[2] = id THEN R[k].path ELSE 0] = u
  BY <1>2, <1>5
<1>8. [k \in DOMAIN R |-> IF k[1] = f THEN R[k].count ELSE 0] = u
  BY <1>2, <1>5
<1> QED
  BY <1>4, <1>6, <1>7, <1>8 DEF NotOwnIn, OfCalleesIn, CountIn

\* What the profiler starts with: a stack of the main thread whose records have
\* measured nothing.
StartsEmpty(fr, K) ==
  /\ fr \in Seq(CallFrames(Funcs)) /\ K = NewKeys(fr) /\ IsFiniteSet(K)
  /\ records = [k \in K |-> Zero]
  /\ stack \in StacksOf(K) /\ lost \in StacksOf(K)
  /\ \A t \in Threads : /\ lost[t] = <<>>
                        /\ stack[t] = IF t = Main THEN NewStack(fr) ELSE <<>>

\* The initial records and stacks are such.
LEMMA InitEmpty ==
  ASSUME Init
  PROVE  StartsEmpty(calls[Main], DOMAIN records)
<1>1. PICK K, fr : K = DOMAIN records /\ fr = calls[Main]
  OBVIOUS
<1>2. IInv
  BY InitIInv
<1>3. fr \in Seq(CallFrames(Funcs)) /\ Len(fr) \in Nat
  <2>1. fr \in Seq(CallFrames(Funcs))
    BY <1>1, <1>2, GraphStackAssumption DEF IInv, TypeOK, LuaTypeOK, CallFrames
  <2> QED
    BY <2>1, LenProperties
<1>4. /\ records = [k \in NewKeys(fr) |-> Zero]
      /\ stack = [t \in Threads |-> IF t = Main THEN NewStack(fr) ELSE <<>>]
      /\ lost = [t \in Threads |-> <<>>]
  <2>1. /\ records = [k \in NewKeys(calls[Main]) |-> Zero]
        /\ stack = [t \in Threads |-> IF t = Main THEN NewStack(calls[Main]) ELSE <<>>]
        /\ lost = [t \in Threads |-> <<>>]
    BY DEF Init
  <2> QED
    BY <1>1, <2>1
<1>5. K = NewKeys(fr) /\ IsFiniteSet(K)
  BY <1>1, <1>3, <1>4, NewKeysFinite
<1>6. stack \in StacksOf(K) /\ lost \in StacksOf(K)
  BY <1>1, <1>2 DEF IInv, TypeOK, ProfileTypeOK, Entries, EntriesOf, StacksOf, WeightsOf
<1>7. \A t \in Threads : /\ lost[t] = <<>>
                         /\ stack[t] = IF t = Main THEN NewStack(fr) ELSE <<>>
  BY <1>4
<1> QED
  BY <1>1, <1>3, <1>4, <1>5, <1>6, <1>7 DEF StartsEmpty

\* Nothing has been measured or collected at first.
LEMMA InitSums ==
  ASSUME Init
  PROVE  SumsInv
<1>1. PICK K, fr : K = DOMAIN records /\ fr = calls[Main]
  OBVIOUS
<1>2. StartsEmpty(fr, K)
  BY <1>1, InitEmpty
<1>3. /\ fr \in Seq(CallFrames(Funcs)) /\ K = NewKeys(fr) /\ IsFiniteSet(K)
      /\ stack \in StacksOf(K) /\ lost \in StacksOf(K)
      /\ \A t \in Threads : /\ lost[t] = <<>>
                            /\ stack[t] = IF t = Main THEN NewStack(fr) ELSE <<>>
  BY <1>2 DEF StartsEmpty
<1>4. records = [k \in K |-> Zero]
  BY <1>2 DEF StartsEmpty
<1>5. now \in 0 .. MaxTime
  BY GraphStackAssumption DEF Init
<1>6. LinkedIn(compress, NewStack(fr)) /\ \A i \in 1 .. Len(NewStack(fr)) : NewStack(fr)[i].path = 0
  BY <1>3, <1>5, NewLinked
<1>7. LinkedIn(compress, <<>>) /\ 1 .. Len(<<>>) = {}
  <2>1. Len(<<>>) = 0
    BY EmptySeq
  <2> QED
    BY <2>1 DEF LinkedIn
<1>8. ASSUME NEW id
      PROVE  BalanceIn(compress, records, stack, lost, id)
  <2>1. PICK w \in WeightsOf(K) : w = CollectedBy(compress, id, K)
    BY WeightsType
  <2>2. \A t \in Threads : \A i \in 1 .. Len(stack[t]) : w[stack[t][i]] = 0
    <3> SUFFICES ASSUME NEW t \in Threads, NEW i \in 1 .. Len(stack[t])
                 PROVE  w[stack[t][i]] = 0
      OBVIOUS
    <3>1. stack[t] \in Seq(EntriesOf(K))
      BY <1>3 DEF StacksOf, WeightsOf
    <3>2. stack[t][i] \in EntriesOf(K)
      BY <3>1, ElementOfSeq
    <3>3. stack[t][i].path = 0
      <4>1. CASE t = Main
        BY <1>3, <1>6, <4>1
      <4>2. CASE t # Main
        BY <1>3, <1>7, <4>2
      <4> QED
        BY <4>1, <4>2
    <3> QED
      BY <2>1, <3>2, <3>3 DEF CollectedBy
  <2>3. Total(w, stack, lost) = 0
    BY <1>3, <2>2, TotalZero
  <2>4. NotOwnIn(compress, records, id) = 0 /\ OfCalleesIn(records, id) = 0
    <3>1. PICK f : TRUE
      OBVIOUS
    <3>2. /\ NotOwnIn(compress, records, id) = 0 /\ OfCalleesIn(records, id) = 0
          /\ CountIn(records, f) = 0
      BY <1>3, <1>4, ZeroSums
    <3> QED
      BY <3>2
  <2>5. NotOwnIn(compress, records, id) + Total(w, stack, lost) = OfCalleesIn(records, id)
    BY <2>3, <2>4
  <2> QED
    BY <1>3, <2>1, <2>5, BalanceWeighs
<1> QED
  BY <1>1, <1>3, <1>6, <1>7, <1>8 DEF SumsInv, Linked

\* Every step keeps the sums.
LEMMA NextSums ==
  ASSUME IInv, SumsInv, [Next]_vars
  PROVE  SumsInv'
<1>1. CASE UNCHANGED <<options, stack, records, lost>>
  BY <1>1 DEF options, SumsInv, Linked
<1>2. ASSUME NEW t \in Threads, ThreadStep(t)
      PROVE  SumsInv'
  <2>1. ASSUME NEW f \in Funcs, NEW collect \in BOOLEAN,
               Call(t, f, collect) \/ TailCall(t, f, collect)
        PROVE  SumsInv'
    <3>1. Idle /\ UNCHANGED <<now, options>> /\ CallHook(t, calls'[t], f, collect)
      BY <2>1 DEF Call, TailCall, MayCall
    <3>2. PICK d \in Seq(CallFrames(Funcs)) : d = calls'[t]
      <4>1. calls' \in [Threads -> Seq(CallFrames(Funcs))]
        BY <2>1, LuaStep DEF LuaTypeOK, CallFrames, Next, ThreadStep
      <4> QED
        BY <4>1
    <3>3. CallHook(t, d, f, collect)
      BY <3>1, <3>2 DEF CallHook
    <3> QED
      BY <3>1, <3>3, CallSums
  <2>2. ASSUME NEW collect \in BOOLEAN, Return(t, collect) \/ Stop(t, collect)
        PROVE  SumsInv'
    <3>1. status = "running" /\ UNCHANGED <<now, options>> /\ HookPrepares(t, calls[t], collect)
      BY <2>2 DEF Return, Stop, MayCall, Idle
    <3>2. PICK d \in Seq(CallFrames(Funcs)) : d = calls[t]
      BY DEF IInv, TypeOK, LuaTypeOK, CallFrames
    <3>3. HookPrepares(t, d, collect)
      BY <3>1, <3>2 DEF HookPrepares
    <3> QED
      BY <3>1, <3>3, HookSums
  <2>3. ASSUME ReturnUnseen(t) \/ Raise(t)
        PROVE  SumsInv'
    BY <1>1, <2>3 DEF ReturnUnseen, Raise
  <2>4. ASSUME PopRemaining(t)
        PROVE  SumsInv'
    BY <2>4, PopSums DEF PopRemaining
  <2> QED
    BY <1>2, <2>1, <2>2, <2>3, <2>4 DEF ThreadStep
<1>3. CASE PopReturned
  <2>1. popping # None /\ UNCHANGED <<now, options, lost>>
    BY <1>3 DEF PopReturned
  <2>2. PICK t \in Threads : t = popping.thread /\ stack[t] # <<>>
    BY <2>1 DEF IInv, SomethingToPop, TypeOK, ProfileTypeOK
  <2>3. UNCHANGED <<stack, records>> \/ MeasuredPop(t)
    BY <1>3, <2>2 DEF PopReturned
  <2> QED
    BY <1>1, <2>1, <2>2, <2>3, PopSums
<1>4. CASE Tick \/ Stopped
  BY <1>1, <1>4 DEF Tick, Stopped
<1>5. CASE UNCHANGED vars
  BY <1>1, <1>5 DEF vars
<1> QED
  BY <1>2, <1>3, <1>4, <1>5 DEF Next

\* In every state, for any functions, threads and stacks, the time of a
\* function apart from its own is that of its callees: no call, return, error,
\* tail call or thread that dies moves time from one side only.
THEOREM GraphAddsUp == Spec => []ChildrenAddUp
<1>1. Init => IInv /\ SumsInv
  BY InitIInv, InitSums
<1>2. IInv /\ SumsInv /\ [Next]_vars => IInv' /\ SumsInv'
  BY NextIInv, NextSums
<1>3. SumsInv => ChildrenAddUp
  <2> SUFFICES ASSUME SumsInv, NEW id
               PROVE  NotOwn(id) + SumFunction([t \in Threads |-> Collected(id, stack[t])
                                                                    + Collected(id, lost[t])])
                        = OfCallees(id)
    BY DEF ChildrenAddUp
  <2>1. BalanceIn(compress, records, stack, lost, id)
    BY DEF SumsInv
  <2>2. NotOwn(id) = NotOwnIn(compress, records, id) /\ OfCallees(id) = OfCalleesIn(records, id)
    BY DEF NotOwn, NotOwnIn, OfCallees, OfCalleesIn, ParentId, ParentIn
  <2>3. \A s : Collected(id, s) = CollectedIn(compress, id, s)
    BY DEF Collected, CollectedIn, ParentId, ParentIn
  <2>4. SumFunction([t \in Threads |-> Collected(id, stack[t]) + Collected(id, lost[t])])
          = CollectedTotal(compress, id, stack, lost)
    BY <2>3 DEF CollectedTotal
  <2> QED
    BY <2>1, <2>2, <2>4 DEF BalanceIn
<1> QED
  BY <1>1, <1>2, <1>3, PTL DEF Spec

\* Until an error every call of a function is in its records or on a stack.
CountedIn(R, S, L, f) == CountIn(R, f) + OpenTotal(f, S, L) = invoked[f]

Counted ==
  /\ IsFiniteSet(DOMAIN records)
  /\ status # "error" => \A f \in Funcs : CountedIn(records, stack, lost, f)
  /\ status = "stopped" => \A t \in Threads : stack[t] = <<>>

\* The count in terms of weights.
LEMMA OpenWeighs ==
  ASSUME NEW f, NEW K
  PROVE  \A S, L \in StacksOf(K) : OpenTotal(f, S, L) = Total(OpenBy(f, K), S, L)
<1>0. PICK c, id : TRUE
  OBVIOUS
<1>1. \A S, L \in StacksOf(K) :
        /\ CollectedTotal(c, id, S, L) = Total(CollectedBy(c, id, K), S, L)
        /\ OpenTotal(f, S, L) = Total(OpenBy(f, K), S, L)
  BY CollectedTotals
<1> QED
  BY <1>1

\* A sequence of one element.
LEMMA LenOfOne ==
  ASSUME NEW E, NEW q \in Seq(E), DOMAIN q = 1 .. 1
  PROVE  Len(q) = 1
<1>1. PICK n \in Nat : n = Len(q) /\ 1 .. n = 1 .. 1
  BY LenProperties
<1>2. 1 \in 1 .. n /\ (n # 0 => n \in 1 .. 1)
  BY <1>1
<1> QED
  BY <1>1, <1>2

\* A stack just made has the root alone, unless calls are loaded.
LEMMA NewCountsNothing ==
  ASSUME now \in 0 .. MaxTime, loadStack = FALSE, NEW t, NEW fr \in Seq(CallFrames(Funcs)), NEW K,
         stack[t] = <<>> => NewKeys(fr) \subseteq K, NEW f \in Funcs
  PROVE  NewWeightless(OpenBy(f, K), t, fr)
<1> SUFFICES ASSUME stack[t] = <<>>, NEW i \in 1 .. Len(NewStack(fr))
             PROVE  OpenBy(f, K)[NewStack(fr)[i]] = 0
  BY DEF NewWeightless
<1>1. NewStack(fr) \in Seq(EntriesOf(K))
  BY NewStackType, EntriesMonotonic
<1>2. PICK e \in EntriesOf(K) : e = NewStack(fr)[i]
  BY <1>1, ElementOfSeq
<1>3. e.rec = RootKey
  <2>1. NewStack(fr) = [j \in 1 .. 1 |-> Entry(IF j = 1 THEN RootKey ELSE Chain(fr)[j - 1])]
    BY DEF NewStack
  <2>2. Len(NewStack(fr)) = 1
    <3>1. DOMAIN NewStack(fr) = 1 .. 1
      BY <2>1
    <3> QED
      BY <1>1, <3>1, LenOfOne
  <2>3. i = 1
    BY <2>2
  <2> QED
    BY <1>2, <2>1, <2>3 DEF Entry
<1>4. e.rec[1] # f
  BY <1>3, GraphStackAssumption DEF RootKey
<1> QED
  BY <1>2, <1>4 DEF OpenBy

\* Nothing has been called at first.
LEMMA InitCounted ==
  ASSUME Init, TRUE \notin LoadStacks
  PROVE  Counted
<1>1. PICK K, fr : K = DOMAIN records /\ fr = calls[Main]
  OBVIOUS
<1>2. StartsEmpty(fr, K)
  BY <1>1, InitEmpty
<1>3. /\ fr \in Seq(CallFrames(Funcs)) /\ K = NewKeys(fr) /\ IsFiniteSet(K)
      /\ stack \in StacksOf(K) /\ lost \in StacksOf(K)
      /\ \A t \in Threads : /\ lost[t] = <<>>
                            /\ stack[t] = IF t = Main THEN NewStack(fr) ELSE <<>>
  BY <1>2 DEF StartsEmpty
<1>4. records = [k \in K |-> Zero]
  BY <1>2 DEF StartsEmpty
<1>5. /\ now \in 0 .. MaxTime /\ loadStack = FALSE /\ status = "running"
      /\ invoked = [f \in Funcs |-> 0]
  <2>1. loadStack = FALSE
    BY GraphStackAssumption DEF Init
  <2> QED
    BY <2>1, GraphStackAssumption DEF Init
<1>6. ASSUME NEW f \in Funcs
      PROVE  CountedIn(records, stack, lost, f)
  <2>1. PICK w \in WeightsOf(K) : w = OpenBy(f, K)
    <3>1. PICK c, id : TRUE
      OBVIOUS
    <3>2. CollectedBy(c, id, K) \in WeightsOf(K) /\ OpenBy(f, K) \in WeightsOf(K)
      BY WeightsType
    <3> QED
      BY <3>2
  <2>2. \A t \in Threads : \A i \in 1 .. Len(stack[t]) : w[stack[t][i]] = 0
    <3> SUFFICES ASSUME NEW t \in Threads, NEW i \in 1 .. Len(stack[t])
                 PROVE  w[stack[t][i]] = 0
      OBVIOUS
    <3>1. stack[t] = NewStack(fr)
      <4>1. 1 .. Len(<<>>) = {}
        <5>1. Len(<<>>) = 0
          BY EmptySeq
        <5> QED
          BY <5>1
      <4> QED
        BY <1>3, <4>1
    <3>3. NewStack(fr) = [j \in 1 .. 1 |-> Entry(IF j = 1 THEN RootKey ELSE Chain(fr)[j - 1])]
      BY <1>5 DEF NewStack
    <3>4. stack[t] \in Seq(EntriesOf(K))
      BY <1>3 DEF StacksOf, WeightsOf
    <3>5. i = 1
      <4>1. PICK q \in Seq(EntriesOf(K)) : q = stack[t] /\ DOMAIN q = 1 .. 1
        BY <3>1, <3>3, <3>4
      <4>2. Len(q) = 1
        BY <4>1, LenOfOne
      <4> QED
        BY <4>1, <4>2
    <3>6. PICK e \in EntriesOf(K) : e = stack[t][i]
      BY <3>4, ElementOfSeq
    <3>7. e.rec = RootKey
      BY <3>1, <3>3, <3>5, <3>6 DEF Entry
    <3>8. e.rec[1] # f
      BY <3>7, GraphStackAssumption DEF RootKey
    <3> QED
      BY <2>1, <3>6, <3>8 DEF OpenBy
  <2>3. Total(w, stack, lost) = 0
    BY <1>3, <2>2, TotalZero
  <2>4. CountIn(records, f) = 0
    <3>1. PICK c, id : TRUE
      OBVIOUS
    <3>2. NotOwnIn(c, records, id) = 0 /\ OfCalleesIn(records, id) = 0 /\ CountIn(records, f) = 0
      BY <1>3, <1>4, ZeroSums
    <3> QED
      BY <3>2
  <2>5. OpenTotal(f, stack, lost) = 0
    BY <1>3, <2>1, <2>3, OpenWeighs
  <2> QED
    BY <1>5, <2>4, <2>5 DEF CountedIn
<1> QED
  BY <1>1, <1>3, <1>5, <1>6 DEF Counted

\* A count is a number.
LEMMA CountType ==
  ASSUME NEW R, IsFiniteSet(DOMAIN R), \A k \in DOMAIN R : R[k] \in Records, NEW f
  PROVE  CountIn(R, f) \in Int
<1>1. PICK K, g : K = DOMAIN R /\ g = [k \in K |-> IF k[1] = f THEN R[k].count ELSE 0]
  OBVIOUS
<1>2. \A k \in K : R[k].count \in Int
  BY <1>1 DEF Records
<1>3. g \in [K -> Int]
  BY <1>1, <1>2
<1>4. SumFunction(g) \in Int
  BY <1>1, <1>3, SumType
<1> QED
  BY <1>1, <1>4 DEF CountIn

\* A hook that pushes nothing counts nothing.
LEMMA HookCounted ==
  ASSUME IInv, Counted, status = "running", TRUE \notin LoadStacks, NEW t \in Threads,
         NEW fr \in Seq(CallFrames(Funcs)), NEW collect \in BOOLEAN,
         HookPrepares(t, fr, collect), UNCHANGED invoked, status' # "stopped"
  PROVE  Counted'
<1>0. /\ now \in 0 .. MaxTime /\ loadStack = FALSE
      /\ \A k \in DOMAIN records : records[k] \in Records
  BY GraphStackAssumption DEF IInv, TypeOK, ProfileTypeOK, Records
<1>1. PICK A, K : A = PrehookKeys(t, fr) /\ K = DOMAIN records \cup A
  OBVIOUS
<1>2. PICK S, M : S = Prehook(t, fr, collect) /\ M = PrehookLost(t, collect)
  OBVIOUS
<1>3. stack' = S /\ lost' = M /\ records' = With(records, A) /\ DOMAIN records' = K
  BY <1>1, <1>2 DEF HookPrepares, Fetched, With
<1>4. IsFiniteSet(K)
  BY <1>1, PrehookKeysFinite DEF Counted
<1>5. /\ S \in StacksOf(K) /\ M \in StacksOf(K)
      /\ stack \in StacksOf(K) /\ lost \in StacksOf(K)
  <2>1. DOMAIN records \cup PrehookKeys(t, fr) \subseteq K
    BY <1>1
  <2> QED
    BY <1>2, <2>1, PrehookTotal
<1>6. \A w \in WeightsOf(K) :
        NewWeightless(w, t, fr) => Total(w, S, M) = Total(w, stack, lost)
  <2>1. DOMAIN records \cup PrehookKeys(t, fr) \subseteq K
    BY <1>1
  <2> QED
    BY <1>2, <2>1, PrehookTotal
<1>7. ASSUME NEW f \in Funcs
      PROVE  CountIn(records', f) + OpenTotal(f, S, M) = invoked[f]
  <2>1. PICK w \in WeightsOf(K) : w = OpenBy(f, K)
    <3>1. PICK c, id : TRUE
      OBVIOUS
    <3>2. CollectedBy(c, id, K) \in WeightsOf(K) /\ OpenBy(f, K) \in WeightsOf(K)
      BY WeightsType
    <3> QED
      BY <3>2
  <2>2. NewWeightless(w, t, fr)
    <3>1. stack[t] = <<>> => NewKeys(fr) \subseteq K
      BY <1>1 DEF PrehookKeys
    <3> QED
      BY <1>0, <2>1, <3>1, NewCountsNothing
  <2>3. OpenTotal(f, S, M) = OpenTotal(f, stack, lost)
    <3>1. Total(w, S, M) = Total(w, stack, lost)
      BY <1>6, <2>2
    <3> QED
      BY <1>5, <2>1, <3>1, OpenWeighs
  <2>4. CountIn(records', f) = CountIn(records, f)
    <3>1. PICK c, id : TRUE
      OBVIOUS
    <3>2. AddsNothing(records, A, c, id, f)
      <4>1. IsFiniteSet(DOMAIN records \cup A)
        BY <1>1, <1>4
      <4> QED
        BY <1>0, <4>1, WithSums
    <3> QED
      BY <1>3, <3>2 DEF AddsNothing
  <2> QED
    BY <2>3, <2>4 DEF Counted, CountedIn
<1> QED
  BY <1>3, <1>4, <1>7 DEF Counted, CountedIn

\* A call event adds the call to those on stacks.
LEMMA CallCounted ==
  ASSUME IInv, Counted, Idle, TRUE \notin LoadStacks, NEW t \in Threads,
         NEW fr \in Seq(CallFrames(Funcs)), NEW f \in Funcs, NEW collect \in BOOLEAN,
         CallHook(t, fr, f, collect), invoked' = [invoked EXCEPT ![f] = @ + 1]
  PROVE  Counted'
<1>0. /\ now \in 0 .. MaxTime /\ loadStack = FALSE /\ status = "running"
      /\ \A k \in DOMAIN records : records[k] \in Records
  BY GraphStackAssumption DEF IInv, TypeOK, ProfileTypeOK, Records, Idle
<1>1. PICK K, key : K = DOMAIN records' /\ key = Key(f, Top(Prehook(t, fr, collect)[t]).rec)
  OBVIOUS
<1>2. PICK A, e : A = PrehookKeys(t, fr) \cup {key} /\ e = Entry(key)
  OBVIOUS
<1>3. PICK Q, M : Q = stack' /\ M = lost'
  OBVIOUS
<1>31. Pushes(t, fr, f, key, K, e)
  BY <1>1, <1>2, CallTotal
<1>4. /\ records' = With(records, A)
      /\ stack \in StacksOf(K) /\ lost \in StacksOf(K)
      /\ Q \in StacksOf(K) /\ M \in StacksOf(K)
      /\ e \in EntriesOf(K) /\ e.rec[1] = f /\ status' \in {"running", "error"}
  BY <1>2, <1>3, <1>31 DEF Pushes
<1>5. \A w \in WeightsOf(K) : NewWeightless(w, t, fr) =>
        /\ Total(w, stack, lost) \in Int
        /\ status' = "error" => Total(w, Q, M) = Total(w, stack, lost)
        /\ status' # "error" => Total(w, Q, M) = Total(w, stack, lost) + w[e]
  BY <1>3, <1>31 DEF Pushes
<1>6. K = DOMAIN records \cup A /\ IsFiniteSet(K)
  <2>1. K = DOMAIN records \cup A
    BY <1>1, <1>4 DEF With
  <2>2. IsFiniteSet(DOMAIN records \cup A)
    BY <1>2, PrehookKeysFinite DEF Counted
  <2> QED
    BY <2>1, <2>2
<1>7. ASSUME NEW g \in Funcs, status' # "error"
      PROVE  CountIn(records', g) + OpenTotal(g, Q, M) = invoked'[g]
  <2>1. PICK w \in WeightsOf(K) : w = OpenBy(g, K)
    <3>1. PICK c, id : TRUE
      OBVIOUS
    <3>2. CollectedBy(c, id, K) \in WeightsOf(K) /\ OpenBy(g, K) \in WeightsOf(K)
      BY WeightsType
    <3> QED
      BY <3>2
  <2>2. NewWeightless(w, t, fr)
    <3>1. stack[t] = <<>> => NewKeys(fr) \subseteq K
      BY <1>2, <1>6 DEF PrehookKeys
    <3> QED
      BY <1>0, <2>1, <3>1, NewCountsNothing
  <2>3. PICK a \in Nat : a = IF g = f THEN 1 ELSE 0
    OBVIOUS
  <2>4. w[e] = a
    BY <1>4, <2>1, <2>3 DEF OpenBy
  <2>5. OpenTotal(g, Q, M) = OpenTotal(g, stack, lost) + a /\ OpenTotal(g, stack, lost) \in Int
    <3>1. Total(w, Q, M) = Total(w, stack, lost) + a /\ Total(w, stack, lost) \in Int
      BY <1>5, <1>7, <2>2, <2>4
    <3> QED
      BY <1>4, <2>1, <3>1, OpenWeighs
  <2>6. CountIn(records', g) = CountIn(records, g)
    <3>1. PICK c, id : TRUE
      OBVIOUS
    <3>2. AddsNothing(records, A, c, id, g)
      <4>1. IsFiniteSet(DOMAIN records \cup A)
        BY <1>6
      <4> QED
        BY <1>0, <4>1, WithSums
    <3> QED
      BY <1>4, <3>2 DEF AddsNothing
  <2>7. invoked'[g] = invoked[g] + a /\ invoked[g] \in Nat
    <3>1. invoked \in [Funcs -> Nat]
      BY DEF IInv, TypeOK, LuaTypeOK
    <3> QED
      BY <2>3, <3>1
  <2>8. CountIn(records, g) + OpenTotal(g, stack, lost) = invoked[g]
    BY <1>0 DEF Counted, CountedIn
  <2>9. CountIn(records, g) \in Int
    BY <1>0, CountType DEF Counted
  <2>10. PICK x \in Int, y \in Int, z \in Int :
           x = CountIn(records, g) /\ y = OpenTotal(g, stack, lost) /\ z = invoked[g]
    BY <2>5, <2>7, <2>9
  <2>11. x + y = z => x + (y + a) = z + a
    OBVIOUS
  <2> QED
    BY <2>5, <2>6, <2>7, <2>8, <2>10, <2>11
<1> QED
  BY <1>1, <1>3, <1>4, <1>6, <1>7 DEF Counted, CountedIn

\* A call that ends moves from a stack to its record.
LEMMA PopCounted ==
  ASSUME IInv, Counted, NEW t \in Threads, stack[t] # <<>>, MeasuredPop(t),
         UNCHANGED <<now, lost, invoked, status>>, status \in {"running", "stopping"}
  PROVE  Counted'
<1>0. \A k \in DOMAIN records : records[k] \in Records
  BY DEF IInv, TypeOK, ProfileTypeOK, Records
<1>1. PICK K, s : K = DOMAIN records /\ s = stack[t]
  OBVIOUS
<1>2. PICK Q : Q = stack'
  OBVIOUS
<1>3. PopsTop(t, s, K) /\ PopWeighs(t, s, K)
  BY <1>1, PopShape, PopTotal
<1>4. /\ stack \in StacksOf(K) /\ lost \in StacksOf(K) /\ Q \in StacksOf(K)
  BY <1>2, <1>3 DEF PopsTop
<1>5. PICK e \in EntriesOf(K), d \in Nat, p \in Nat :
        /\ e = Top(s) /\ d = now - e.start /\ p = e.path /\ e.rec \in K
        /\ records' = [records EXCEPT ![e.rec] = Measured(records[e.rec], d, p)]
  BY <1>3 DEF PopsTop, EntriesOf
<1>6. IsFiniteSet(K) /\ DOMAIN records' = K
  BY <1>1, <1>5 DEF Counted
<1>7. ASSUME NEW f \in Funcs
      PROVE  CountIn(records', f) + OpenTotal(f, Q, lost) = invoked[f]
  <2>1. PICK w \in WeightsOf(K) : w = OpenBy(f, K)
    <3>1. PICK c, id : TRUE
      OBVIOUS
    <3>2. CollectedBy(c, id, K) \in WeightsOf(K) /\ OpenBy(f, K) \in WeightsOf(K)
      BY WeightsType
    <3> QED
      BY <3>2
  <2>2. /\ w[e] \in Int /\ Total(w, stack, lost) \in Int
        /\ Len(s) = 1 => Total(w, Q, lost) = Total(w, stack, lost) - w[e]
        /\ Len(s) # 1 =>
             \E x, y \in EntriesOf(K) :
               /\ y = s[Len(s) - 1] /\ x.rec = y.rec /\ x.path = y.path + d
               /\ Total(w, Q, lost) = Total(w, stack, lost) - w[e] + (w[x] - w[y])
    BY <1>2, <1>3, <1>5 DEF PopWeighs
  <2>3. w[e] = IF e.rec[1] = f THEN 1 ELSE 0
    BY <1>5, <2>1 DEF OpenBy
  <2>4. Total(w, Q, lost) = Total(w, stack, lost) - w[e]
    <3>1. CASE Len(s) = 1
      BY <2>2, <3>1
    <3>2. CASE Len(s) # 1
      <4>1. PICK x \in EntriesOf(K), y \in EntriesOf(K) :
              /\ y = s[Len(s) - 1] /\ x.rec = y.rec /\ x.path = y.path + d
              /\ Total(w, Q, lost) = Total(w, stack, lost) - w[e] + (w[x] - w[y])
        BY <2>2, <3>2
      <4>2. w[x] - w[y] = 0
        BY <2>1, <4>1 DEF OpenBy
      <4> QED
        BY <2>2, <4>1, <4>2
    <3> QED
      BY <3>1, <3>2
  <2>5. CountIn(records, f) \in Int /\ CountIn(records', f) = CountIn(records, f) + w[e]
    <3>1. PICK c, id : TRUE
      OBVIOUS
    <3>2. PICK R : R = records'
      OBVIOUS
    <3>3. Ends(records, R, e.rec, d, p, c, id, f)
      <4>1. /\ IsFiniteSet(DOMAIN records) /\ e.rec \in DOMAIN records
            /\ R = [records EXCEPT ![e.rec] = Measured(records[e.rec], d, p)]
        BY <1>1, <1>5, <1>6, <3>2
      <4> QED
        BY <1>0, <4>1, MeasuredSums
    <3> QED
      BY <2>3, <3>2, <3>3 DEF Ends
  <2>6. /\ OpenTotal(f, Q, lost) = Total(w, Q, lost)
        /\ OpenTotal(f, stack, lost) = Total(w, stack, lost)
    BY <1>4, <2>1, OpenWeighs
  <2>7. CountIn(records, f) + Total(w, stack, lost) = invoked[f]
    BY <2>6 DEF Counted, CountedIn
  <2>8. PICK x \in Int, y \in Int, z \in Int :
          x = CountIn(records, f) /\ y = Total(w, stack, lost) /\ z = w[e]
    BY <2>2, <2>5
  <2>9. (x + z) + (y - z) = x + y
    OBVIOUS
  <2> QED
    BY <2>4, <2>5, <2>6, <2>7, <2>8, <2>9
<1> QED
  BY <1>2, <1>6, <1>7 DEF Counted, CountedIn

\* Every step keeps the counts.
LEMMA NextCounted ==
  ASSUME IInv, Counted, [Next]_vars, TRUE \notin LoadStacks
  PROVE  Counted'
<1>1. CASE UNCHANGED <<stack, records, lost, invoked, status>>
  BY <1>1 DEF Counted, CountedIn
<1>2. ASSUME NEW t \in Threads, ThreadStep(t)
      PROVE  Counted'
  <2>1. ASSUME NEW f \in Funcs, NEW collect \in BOOLEAN,
               Call(t, f, collect) \/ TailCall(t, f, collect)
        PROVE  Counted'
    <3>1. /\ Idle /\ invoked' = [invoked EXCEPT ![f] = @ + 1]
          /\ CallHook(t, calls'[t], f, collect)
      BY <2>1 DEF Call, TailCall, MayCall
    <3>2. PICK d \in Seq(CallFrames(Funcs)) : d = calls'[t]
      <4>1. calls' \in [Threads -> Seq(CallFrames(Funcs))]
        BY <2>1, LuaStep DEF LuaTypeOK, CallFrames, Next, ThreadStep
      <4> QED
        BY <4>1
    <3>3. CallHook(t, d, f, collect)
      BY <3>1, <3>2 DEF CallHook
    <3> QED
      BY <3>1, <3>3, CallCounted
  <2>2. ASSUME NEW collect \in BOOLEAN, Return(t, collect) \/ Stop(t, collect)
        PROVE  Counted'
    <3>1. /\ status = "running" /\ status' # "stopped" /\ UNCHANGED invoked
          /\ HookPrepares(t, calls[t], collect)
      BY <2>2 DEF Return, Stop, MayCall, Idle, lua
    <3>2. PICK d \in Seq(CallFrames(Funcs)) : d = calls[t]
      BY DEF IInv, TypeOK, LuaTypeOK, CallFrames
    <3>3. HookPrepares(t, d, collect)
      BY <3>1, <3>2 DEF HookPrepares
    <3> QED
      BY <3>1, <3>3, HookCounted
  <2>3. ASSUME ReturnUnseen(t) \/ Raise(t)
        PROVE  Counted'
    BY <1>1, <2>3 DEF ReturnUnseen, Raise
  <2>4. ASSUME PopRemaining(t)
        PROVE  Counted'
    BY <2>4, PopCounted DEF PopRemaining, lua
  <2> QED
    BY <1>2, <2>1, <2>2, <2>3, <2>4 DEF ThreadStep
<1>3. CASE PopReturned
  <2>1. popping # None /\ status = "running" /\ UNCHANGED <<now, lost, invoked, status>>
    BY <1>3 DEF PopReturned, lua
  <2>2. PICK t \in Threads : t = popping.thread /\ stack[t] # <<>>
    BY <2>1 DEF IInv, SomethingToPop, TypeOK, ProfileTypeOK
  <2>3. UNCHANGED <<stack, records>> \/ MeasuredPop(t)
    BY <1>3, <2>2 DEF PopReturned
  <2> QED
    BY <1>1, <2>1, <2>2, <2>3, PopCounted
<1>4. CASE Tick
  BY <1>1, <1>4 DEF Tick, lua
<1>5. CASE Stopped
  BY <1>5 DEF Stopped, lua, Counted, CountedIn
<1>6. CASE UNCHANGED vars
  BY <1>1, <1>6 DEF vars, lua
<1> QED
  BY <1>2, <1>3, <1>4, <1>5, <1>6 DEF Next

\* Once stop has popped every stack, the records of a function count all of its
\* calls, but for those of threads whose stacks were freed: unless load_stack
\* counts the function that a coroutine starts with twice.
THEOREM InvocationsCounted ==
  ASSUME TRUE \notin LoadStacks
  PROVE  Spec => []CountsInvocations
<1>1. Init => IInv /\ Counted
  BY InitIInv, InitCounted
<1>2. IInv /\ Counted /\ [Next]_vars => IInv' /\ Counted'
  BY NextIInv, NextCounted
<1>3. IInv /\ Counted => CountsInvocations
  <2> SUFFICES ASSUME IInv, Counted, status = "stopped", \A t \in Threads : lost[t] = <<>>,
                      NEW f \in Funcs
               PROVE  CountOf(f) = invoked[f]
    BY DEF CountsInvocations
  <2>1. PICK K : K = DOMAIN records
    OBVIOUS
  <2>2. stack \in StacksOf(K) /\ lost \in StacksOf(K)
    BY <2>1 DEF IInv, TypeOK, ProfileTypeOK, Entries, EntriesOf, StacksOf, WeightsOf
  <2>3. PICK w \in WeightsOf(K) : w = OpenBy(f, K)
    <3>1. PICK c, id : TRUE
      OBVIOUS
    <3>2. CollectedBy(c, id, K) \in WeightsOf(K) /\ OpenBy(f, K) \in WeightsOf(K)
      BY WeightsType
    <3> QED
      BY <3>2
  <2>4. Total(w, stack, lost) = 0
    <3>1. \A t \in Threads : stack[t] = <<>>
      BY DEF Counted
    <3>2. 1 .. Len(<<>>) = {}
      <4>1. Len(<<>>) = 0
        BY EmptySeq
      <4> QED
        BY <4>1
    <3>3. \A t \in Threads : lost[t] = <<>> /\ \A i \in 1 .. Len(stack[t]) : w[stack[t][i]] = 0
      BY <3>1, <3>2
    <3> QED
      BY <2>2, <3>3, TotalZero
  <2>5. OpenTotal(f, stack, lost) = 0
    BY <2>2, <2>3, <2>4, OpenWeighs
  <2>6. CountIn(records, f) + OpenTotal(f, stack, lost) = invoked[f]
    BY DEF Counted, CountedIn
  <2>7. CountIn(records, f) \in Int
    <3>1. IsFiniteSet(DOMAIN records) /\ \A k \in DOMAIN records : records[k] \in Records
      BY DEF Counted, IInv, TypeOK, ProfileTypeOK, Records
    <3> QED
      BY <3>1, CountType
  <2>8. CountOf(f) = CountIn(records, f)
    BY DEF CountOf, CountIn
  <2> QED
    BY <2>5, <2>6, <2>7, <2>8
<1> QED
  BY <1>1, <1>2, <1>3, PTL DEF Spec
=============================================================================
