----------------------- MODULE TraceInstrumentProofs -----------------------
(***************************************************************************)
(* Proofs about TraceInstrument, for any threads, functions, options and   *)
(* depth.  A switch between coroutines never frees the stack that it       *)
(* leaves.  The scopes open in the event list are the entries of the       *)
(* profile stacks, which follow the calls of Lua's threads.                *)
(***************************************************************************)
EXTENDS TraceInstrument, LuaCallsProofs

\* Threads wait in the chain for those above them, alive, each once.
ChainAlive ==
  /\ \A i \in 1 .. Len(chain) : chain[i] \in alive
  /\ \A i, j \in 1 .. Len(chain) : chain[i] = chain[j] => i = j

\* A thread that waits has a stack, made when it called resume, and so has
\* one with calls.  The dead have no calls.
StacksOfCallers ==
  /\ stack[Main] # <<>>
  /\ \A i \in 1 .. Len(chain) - 1 : stack[chain[i]] # <<>>
  /\ \A t \in Threads : calls[t] # <<>> => t \in alive /\ stack[t] # <<>>

\* The stack of the thread before is there; and if the running thread has
\* none, which is when there may be a collection, that thread is alive.
CurrentKept ==
  current # None =>
    /\ stack[current] # <<>>
    /\ stack[Running] = <<>> => current \in alive

IInv == LuaTyped /\ ProfileTyped /\ ChainAlive /\ StacksOfCallers /\ CurrentKept

\* SwitchKeepsStack, of one step.
StackKept == status' = "running" /\ current # None => stack'[current] # <<>>

\* What a hook does to the stacks, on the running thread.
Hooked ==
  /\ ProfileTyped'
  /\ current' = Running /\ stack'[Running] # <<>>
  /\ \A u \in alive : stack[u] # <<>> => stack'[u] # <<>>
  /\ current # None => stack'[current] # <<>>

\* How the chain may change: not, by a yield or a death of the running
\* thread, or by a resume.
Moved ==
  \/ UNCHANGED <<chain, alive>>
  \/ Len(chain) > 1 /\ chain' = Pop(chain) /\ alive' \in {alive, alive \ {Running}}
  \/ \E u \in alive \ Range(chain) : chain' = Append(chain, u) /\ UNCHANGED alive /\ Hooked
-----------------------------------------------------------------------------
(* Stacks *)

\* The least of two numbers is one of them.
LEMMA MinOf ==
  ASSUME NEW a \in Nat, NEW b \in Nat
  PROVE  Min({a, b}) = IF a <= b THEN a ELSE b
BY DEF Min

\* A new stack is not empty, fits, and its records are fetched.
LEMMA NewStackType ==
  ASSUME LuaTyped, NEW fr \in Seq(CallFrames(Funcs))
  PROVE  /\ NewStack(fr) \in Seq(NewKeys(fr))
         /\ Len(NewStack(fr)) \in 1 .. MaxStack
<1> DEFINE c == LoadedChain(fr)
           K == NewKeys(fr)
           m == Min({Len(fr), MaxStack - 1})
<1>1. Len(fr) \in Nat /\ MaxStack \in Nat \ {0}
  BY TraceInstrumentAssumption, LenProperties
<1>2. m \in 0 .. Len(fr) /\ m <= MaxStack - 1
  BY <1>1, MinOf
<1>3. <<RootKey>> \in Seq(K) /\ Len(<<RootKey>>) = 1 /\ <<>> \in Seq(K) /\ Len(<<>>) = 0
  BY DEF NewKeys
<1>4. CASE conf.load
  <2>1. DOMAIN c = 1 .. Len(fr) /\ c = [i \in DOMAIN c |-> c[i]]
    BY DEF LoadedChain
  <2>2. Range(c) \subseteq K
    BY <1>4 DEF NewKeys
  <2> HIDE DEF c, m, K
  <2>3. c \in [1 .. Len(fr) -> K]
    BY <2>1, <2>2 DEF Range
  <2>4. c \in Seq(K) /\ Len(c) = Len(fr)
    BY <1>1, <2>3
  <2>5. SubSeq(c, 1, m) \in Seq(K) /\ Len(SubSeq(c, 1, m)) = m
    BY <1>2, <2>4, PrefixType
  <2>6. NewStack(fr) = <<RootKey>> \o SubSeq(c, 1, m)
    BY <1>4 DEF NewStack, c, m
  <2>7. NewStack(fr) \in Seq(K) /\ Len(NewStack(fr)) = 1 + m
    BY <1>3, <2>5, <2>6, ConcatProperties
  <2> QED
    BY <1>1, <1>2, <2>7 DEF K
<1>5. CASE ~conf.load
  <2>1. NewStack(fr) = <<RootKey>> \o <<>>
    BY <1>5 DEF NewStack
  <2> HIDE DEF K
  <2>2. NewStack(fr) \in Seq(K) /\ Len(NewStack(fr)) = 1
    BY <1>3, <2>1, ConcatProperties
  <2> QED
    BY <1>1, <2>2 DEF K
<1> QED
  BY <1>4, <1>5

\* Looking records up adds those that were missing.
LEMMA FetchedType ==
  ASSUME NEW recs, recs \in [DOMAIN recs -> BOOLEAN], NEW K
  PROVE  /\ DOMAIN Fetched(recs, K) = DOMAIN recs \cup K
         /\ Fetched(recs, K) \in [DOMAIN recs \cup K -> BOOLEAN]
BY DEF Fetched, IsIgnored

\* A prefix of at least one entry is left by a return and its tail returns.
LEMMA ReturnType ==
  ASSUME NEW K, NEW s \in Seq(K), s # <<>>, NEW f, NEW n \in Nat
  PROVE  LET left == AfterTails(AfterReturn(s, f), n)
         IN  /\ left \in Seq(K) /\ left # <<>> /\ Len(left) <= Len(s)
<1> DEFINE matches == {i \in 2 .. Len(s) : s[i][1] = f}
           m == IF matches = {} THEN 1 ELSE Max(matches) - 1
           r == AfterReturn(s, f)
           k == Max({1, Len(r) - n})
<1>1. Len(s) \in Nat \ {0}
  BY EmptySeq
<1>2. m \in 1 .. Len(s)
  <2>1. matches # {} => Max(matches) \in matches
    <3>1. matches \in SUBSET (1 .. Len(s))
      BY <1>1
    <3> HIDE DEF matches
    <3> QED
      BY <1>1, <3>1, MaxIn
  <2> QED
    BY <1>1, <2>1
<1>3. r = SubSeq(s, 1, m)
  BY DEF AfterReturn
<1> HIDE DEF m, r
<1>4. r \in Seq(K) /\ Len(r) = m
  BY <1>1, <1>2, <1>3, PrefixType
<1>5. k \in 1 .. Len(r)
  <2>1. Len(r) \in Nat /\ Len(r) >= 1
    BY <1>1, <1>2, <1>4
  <2>2. Max({1, Len(r) - n}) = IF Len(r) - n <= 1 THEN 1 ELSE Len(r) - n
    BY <2>1 DEF Max
  <2> QED
    BY <2>1, <2>2
<1>6. AfterTails(r, n) = SubSeq(r, 1, k)
  BY DEF AfterTails
<1> HIDE DEF k
<1>7. /\ SubSeq(r, 1, k) \in Seq(K) /\ Len(SubSeq(r, 1, k)) = k
  BY <1>1, <1>2, <1>4, <1>5, PrefixType
<1> QED
  BY <1>1, <1>2, <1>4, <1>5, <1>6, <1>7 DEF r
-----------------------------------------------------------------------------
(* Hooks *)

\* The running thread is alive, and waits for no other.
LEMMA RunningAlive ==
  ASSUME LuaTyped, ChainAlive
  PROVE  /\ Len(chain) \in Nat \ {0} /\ Running = chain[Len(chain)]
         /\ Running \in alive /\ Running \in Threads
         /\ \A i \in 1 .. Len(chain) - 1 : chain[i] # Running
<1>1. Len(chain) \in Nat \ {0}
  BY EmptySeq DEF LuaTyped
<1> QED
  BY <1>1 DEF LuaTyped, ChainAlive, Running, Top

\* After traceevent_prehook the running thread has a stack; none of a living
\* thread has been freed, nor that of the thread before.
LEMMA PrehookType ==
  ASSUME IInv, NEW fr \in Seq(CallFrames(Funcs)), NEW collect \in BOOLEAN,
         MayCollect(Running, collect)
  PROVE  LET p == Prehook(Running, fr, collect)
         IN  /\ p.records \in [DOMAIN p.records -> BOOLEAN]
             /\ p.stack \in [Threads -> Seq(DOMAIN p.records)]
             /\ \A u \in Threads : Len(p.stack[u]) <= MaxStack
             /\ p.stack[Running] # <<>>
             /\ \A u \in alive : stack[u] # <<>> => p.stack[u] # <<>>
             /\ current # None => p.stack[current] # <<>>
<1> DEFINE t == Running
           p == Prehook(t, fr, collect)
           new == stack[t] = <<>>
           K == (IF new THEN NewKeys(fr) ELSE {}) \cup (IF collect THEN {GCKey} ELSE {})
           stacks == [u \in Threads |->
                        IF u = t THEN IF new THEN NewStack(fr) ELSE stack[t]
                        ELSE IF collect /\ Dead(u) THEN <<>> ELSE stack[u]]
<1>1. LuaTyped /\ ProfileTyped /\ ChainAlive /\ CurrentKept
  BY DEF IInv
<1>2. t \in alive /\ t \in Threads /\ alive \subseteq Threads
  BY <1>1, RunningAlive DEF LuaTyped
<1>3. p.records = Fetched(records, K) /\ p.stack = stacks
  BY DEF Prehook
<1>4. /\ DOMAIN p.records = DOMAIN records \cup K
      /\ p.records \in [DOMAIN p.records -> BOOLEAN]
  <2>1. records \in [DOMAIN records -> BOOLEAN]
    BY <1>1 DEF ProfileTyped, Keys
  <2> HIDE DEF K, p
  <2>2. /\ DOMAIN Fetched(records, K) = DOMAIN records \cup K
        /\ Fetched(records, K) \in [DOMAIN records \cup K -> BOOLEAN]
    BY <2>1, FetchedType
  <2> QED
    BY <1>3, <2>2, Zenon
<1>5. /\ NewStack(fr) \in Seq(NewKeys(fr)) /\ Len(NewStack(fr)) \in 1 .. MaxStack
      /\ NewStack(fr) # <<>>
  BY <1>1, NewStackType, EmptySeq
<1>6. stack \in [Threads -> Seq(DOMAIN records)] /\ \A u \in Threads : Len(stack[u]) <= MaxStack
  BY <1>1 DEF ProfileTyped, Keys
<1>7. /\ Seq(DOMAIN records) \subseteq Seq(DOMAIN records \cup K)
      /\ new => Seq(NewKeys(fr)) \subseteq Seq(DOMAIN records \cup K)
  <2>1. DOMAIN records \subseteq DOMAIN records \cup K
    OBVIOUS
  <2>2. new => NewKeys(fr) \subseteq DOMAIN records \cup K
    OBVIOUS
  <2> HIDE DEF K, new
  <2> QED
    BY <2>1, <2>2, SeqMonotonic
<1>8. <<>> \in Seq(DOMAIN records \cup K) /\ Len(<<>>) = 0 /\ MaxStack \in Nat
  BY TraceInstrumentAssumption
<1> HIDE DEF K, p, t
<1>9. stacks \in [Threads -> Seq(DOMAIN records \cup K)]
  BY <1>2, <1>5, <1>6, <1>7, <1>8
<1>10. \A u \in Threads : Len(stacks[u]) <= MaxStack
  BY <1>2, <1>5, <1>6, <1>8
<1>11. stacks[t] # <<>> /\ \A u \in alive : stack[u] # <<>> => stacks[u] # <<>>
  BY <1>2, <1>5 DEF Dead
<1>12. current # None => stacks[current] # <<>>
  <2>1. SUFFICES ASSUME current # None PROVE stacks[current] # <<>>
    OBVIOUS
  <2>2. current \in Threads /\ stack[current] # <<>> /\ (new => current \in alive)
    BY <1>1, <2>1 DEF CurrentKept, ProfileTyped, t
  <2>3. collect => new
    BY DEF MayCollect, t
  <2> QED
    BY <1>2, <1>11, <2>2, <2>3 DEF Dead
<1> HIDE DEF stacks
<1> QED
  BY <1>3, <1>4, <1>9, <1>10, <1>11, <1>12 DEF p, t

\* A call event, whether there is room for it or not.
LEMMA CallHooked ==
  ASSUME IInv, NEW f \in Funcs, NEW collect \in BOOLEAN,
         calls' \in [Threads -> Seq(CallFrames(Funcs))], CallHook(Running, f, collect)
  PROVE  Hooked /\ made' \in 0 .. MaxCalls /\ UNCHANGED conf
<1> DEFINE t == Running
           p == Prehook(t, calls'[t], collect)
           key == Key(f, Top(p.stack[t]))
           recs == Fetched(p.records, {key})
<1>1. LuaTyped /\ ProfileTyped /\ ChainAlive /\ t \in Threads
  BY RunningAlive DEF IInv
<1>2. /\ p.records \in [DOMAIN p.records -> BOOLEAN]
      /\ p.stack \in [Threads -> Seq(DOMAIN p.records)]
      /\ \A u \in Threads : Len(p.stack[u]) <= MaxStack
      /\ p.stack[t] # <<>>
      /\ \A u \in alive : stack[u] # <<>> => p.stack[u] # <<>>
      /\ current # None => p.stack[current] # <<>>
  <2>1. calls'[t] \in Seq(CallFrames(Funcs)) /\ MayCollect(t, collect)
    BY <1>1 DEF CallHook
  <2> QED
    BY <2>1, PrehookType
<1>3. /\ Pushed(p, t, key) /\ current' = t /\ made < MaxCalls /\ made' = made + 1
      /\ UNCHANGED <<conf, ignore, paused>>
  BY DEF CallHook
<1> HIDE DEF p, key, t
<1>4. DOMAIN recs = DOMAIN p.records \cup {key} /\ recs \in [DOMAIN recs -> BOOLEAN]
  BY <1>2, FetchedType
<1>5. records' = recs
  BY <1>3 DEF Pushed
<1>6. p.stack \in [Threads -> Seq(DOMAIN recs)]
  <2>1. DOMAIN p.records \subseteq DOMAIN recs
    BY <1>4
  <2> HIDE DEF recs
  <2> QED
    BY <1>2, <2>1, SeqMonotonic
<1>7. /\ stack' \in [Threads -> Seq(DOMAIN recs)]
      /\ \A u \in Threads : Len(stack'[u]) <= MaxStack
      /\ \A u \in Threads : p.stack[u] # <<>> => stack'[u] # <<>>
      /\ status' \in {"running", "stopped", "error", "crashed"}
  <2>1. CASE HasRoom(p.stack[t])
    <3>1. stack' = [p.stack EXCEPT ![t] = Append(@, key)] /\ UNCHANGED status
      BY <1>3, <2>1 DEF Pushed
    <3>2. PICK s \in Seq(DOMAIN recs) : s = p.stack[t] /\ Len(s) < MaxStack
      BY <1>1, <1>6, <2>1 DEF HasRoom
    <3>3. key \in DOMAIN recs
      BY <1>4
    <3> HIDE DEF recs
    <3>4. Append(s, key) \in Seq(DOMAIN recs) /\ Len(Append(s, key)) = Len(s) + 1
          /\ Append(s, key) # <<>>
      BY <3>2, <3>3, AppendProperties
    <3>5. Len(Append(s, key)) <= MaxStack
      BY <3>2, <3>4, TraceInstrumentAssumption, LenProperties
    <3> QED
      BY <1>1, <1>2, <1>6, <3>1, <3>2, <3>4, <3>5 DEF ProfileTyped
  <2>2. CASE ~HasRoom(p.stack[t])
    BY <1>2, <1>3, <1>6, <2>2 DEF Pushed
  <2> QED
    BY <2>1, <2>2
<1>8. made' \in 0 .. MaxCalls
  BY <1>1, <1>3, TraceInstrumentAssumption DEF LuaTyped
<1>9. ProfileTyped'
  BY <1>1, <1>3, <1>4, <1>5, <1>7 DEF ProfileTyped, Keys
<1>10. \A u \in alive : u \in Threads
  BY <1>1 DEF LuaTyped
<1>11. current # None => current \in Threads
  BY <1>1 DEF ProfileTyped
<1> QED
  BY <1>1, <1>2, <1>3, <1>7, <1>8, <1>9, <1>10, <1>11 DEF Hooked, t

\* A return event, and the call event of stop.
LEMMA ReturnHooked ==
  ASSUME IInv, NEW collect \in BOOLEAN, Return(collect) \/ Stop(collect)
  PROVE  Hooked
<1> DEFINE t == Running
           p == Prehook(t, calls[t], collect)
<1>1. LuaTyped /\ ProfileTyped /\ ChainAlive /\ t \in Threads
  BY RunningAlive DEF IInv
<1>2. PICK c \in Seq(CallFrames(Funcs)) : c = calls[t]
  BY <1>1 DEF LuaTyped, CallFrames
<1>3. /\ p.records \in [DOMAIN p.records -> BOOLEAN]
      /\ p.stack \in [Threads -> Seq(DOMAIN p.records)]
      /\ \A u \in Threads : Len(p.stack[u]) <= MaxStack
      /\ p.stack[t] # <<>>
      /\ \A u \in alive : stack[u] # <<>> => p.stack[u] # <<>>
      /\ current # None => p.stack[current] # <<>>
  <2>1. MayCollect(t, collect)
    BY DEF Return, Stop
  <2> QED
    BY <1>2, <2>1, PrehookType
<1>4. /\ current' = t /\ records' = p.records /\ UNCHANGED <<ignore, paused>>
      /\ status' \in {"running", "stopped", "error", "crashed"}
  BY <1>1 DEF Return, Stop, Popped, ProfileTyped
<1>5. /\ stack' \in [Threads -> Seq(DOMAIN p.records)]
      /\ \A u \in Threads : Len(stack'[u]) <= MaxStack
      /\ \A u \in Threads : p.stack[u] # <<>> => stack'[u] # <<>>
  <2>1. CASE Stop(collect)
    <3>1. stack' = p.stack
      BY <2>1 DEF Stop
    <3> HIDE DEF p
    <3> QED
      BY <1>3, <3>1
  <2>2. CASE Return(collect)
    <3> DEFINE tails == IF conf.vm = "puc51" THEN Len(c) - 1 - Len(Left(c)) ELSE 0
               left == AfterTails(AfterReturn(p.stack[t], Top(c).fn), tails)
    <3>1. c # <<>> /\ stack' = [p.stack EXCEPT ![t] = left]
      BY <1>2, <2>2 DEF Return, Popped
    <3>2. tails \in Nat
      BY <3>1, LeftType
    <3> HIDE DEF p, tails, t
    <3>3. PICK s \in Seq(DOMAIN p.records) : s = p.stack[t] /\ s # <<>> /\ Len(s) <= MaxStack
      BY <1>1, <1>3
    <3>4. left \in Seq(DOMAIN p.records) /\ left # <<>> /\ Len(left) <= Len(s)
      BY <3>2, <3>3, ReturnType
    <3>5. Len(left) <= MaxStack
      BY <3>3, <3>4, TraceInstrumentAssumption, LenProperties
    <3> HIDE DEF left
    <3> QED
      BY <1>1, <1>3, <3>1, <3>4, <3>5
  <2> QED
    BY <2>1, <2>2
<1> HIDE DEF p
<1>6. ProfileTyped'
  BY <1>1, <1>3, <1>4, <1>5 DEF ProfileTyped, Keys
<1>7. alive \subseteq Threads /\ (current # None => current \in Threads)
  BY <1>1 DEF LuaTyped, ProfileTyped
<1> QED
  BY <1>1, <1>3, <1>4, <1>5, <1>6, <1>7 DEF Hooked
-----------------------------------------------------------------------------
(* The chain *)

\* The threads that wait, and the one that runs, after a change of the chain.
LEMMA ChainStep ==
  ASSUME LuaTyped, ChainAlive, Moved
  PROVE  /\ chain' \in Seq(Threads) /\ chain' # <<>> /\ chain'[1] = Main
         /\ ChainAlive' /\ alive' \subseteq alive
         /\ \A i \in 1 .. Len(chain') - 1 :
              chain'[i] = Running \/ \E j \in 1 .. Len(chain) - 1 : chain'[i] = chain[j]
         /\ \/ Running' = Running
            \/ \E j \in 1 .. Len(chain) - 1 : Running' = chain[j]
            \/ Hooked /\ UNCHANGED alive
<1> DEFINE n == Len(chain)
           Goal == /\ chain' \in Seq(Threads) /\ chain' # <<>> /\ chain'[1] = Main
                   /\ ChainAlive' /\ alive' \subseteq alive
                   /\ \A i \in 1 .. Len(chain') - 1 :
                        chain'[i] = Running \/ \E j \in 1 .. n - 1 : chain'[i] = chain[j]
                   /\ \/ Running' = Running
                      \/ \E j \in 1 .. n - 1 : Running' = chain[j]
                      \/ Hooked /\ UNCHANGED alive
<1>1. /\ n \in Nat \ {0} /\ Running = chain[n]
      /\ \A i \in 1 .. n - 1 : chain[i] # Running
  BY RunningAlive
<1>2. chain \in Seq(Threads) /\ chain # <<>> /\ chain[1] = Main /\ alive \subseteq Threads
  BY DEF LuaTyped
<1>3. ASSUME UNCHANGED <<chain, alive>> PROVE Goal
  BY <1>1, <1>2, <1>3 DEF ChainAlive, Running, Top
<1>4. ASSUME n > 1, chain' = Pop(chain), alive' \in {alive, alive \ {Running}} PROVE Goal
  <2>1. n - 1 \in 0 .. n
    BY <1>1
  <2>2. /\ chain' \in Seq(Threads) /\ Len(chain') = n - 1
        /\ \A i \in 1 .. n - 1 : chain'[i] = chain[i]
    BY <1>2, <1>4, <2>1, PrefixType DEF Pop
  <2> HIDE DEF n
  <2>3. chain' # <<>> /\ chain'[1] = Main /\ Running' = chain[n - 1]
    BY <1>1, <1>2, <1>4, <2>2, EmptySeq DEF Running, Top
  <2>4. \A i \in 1 .. n : chain[i] \in alive
    BY DEF ChainAlive, n
  <2>5. \A i \in 1 .. n - 1 : chain'[i] \in alive'
    BY <1>1, <1>4, <2>2, <2>4
  <2>6. \A i, j \in 1 .. n : chain[i] = chain[j] => i = j
    BY DEF ChainAlive, n
  <2>7. ChainAlive'
    BY <1>1, <2>2, <2>5, <2>6 DEF ChainAlive
  <2> QED
    BY <1>1, <1>4, <2>2, <2>3, <2>7
<1>5. ASSUME NEW u \in alive \ Range(chain), chain' = Append(chain, u), UNCHANGED alive, Hooked
      PROVE  Goal
  <2>1. u \in Threads
    BY <1>2
  <2>2. /\ chain' \in Seq(Threads) /\ Len(chain') = n + 1 /\ chain'[n + 1] = u
        /\ \A i \in 1 .. n : chain'[i] = chain[i]
    BY <1>2, <1>5, <2>1, AppendProperties
  <2>3. \A i \in 1 .. n : chain[i] # u
    BY <1>2, LenProperties DEF Range
  <2> HIDE DEF n
  <2>4. chain' # <<>> /\ chain'[1] = Main
    BY <1>1, <1>2, <2>2, EmptySeq
  <2>5. \A i \in 1 .. n : chain[i] \in alive
    BY DEF ChainAlive, n
  <2>6. \A i \in 1 .. n + 1 : chain'[i] \in alive'
    BY <1>1, <1>5, <2>2, <2>5
  <2>7. \A i, j \in 1 .. n : chain[i] = chain[j] => i = j
    BY DEF ChainAlive, n
  <2>8. \A i, j \in 1 .. n + 1 : chain'[i] = chain'[j] => i = j
    BY <1>1, <2>2, <2>3, <2>7
  <2>9. ChainAlive'
    BY <1>1, <2>2, <2>6, <2>8 DEF ChainAlive
  <2> QED
    BY <1>1, <1>5, <2>2, <2>4, <2>9
<1> QED
  BY <1>3, <1>4, <1>5 DEF Moved

\* Where the running thread has a stack after a step and no living thread has
\* lost one, those that wait keep theirs.
LEMMA CallersStep ==
  ASSUME IInv, Moved, stack'[Running] # <<>>,
         \A u \in alive : stack[u] # <<>> => stack'[u] # <<>>,
         current' # None => stack'[current'] # <<>>,
         \A u \in Threads : calls'[u] # <<>> =>
           u \in alive' /\ (calls[u] # <<>> \/ u = Running)
  PROVE  StacksOfCallers' /\ CurrentKept'
<1>1. LuaTyped /\ ChainAlive /\ StacksOfCallers
  BY DEF IInv
<1>2. Len(chain) \in Nat \ {0} /\ Running \in alive /\ chain[1] = Main
  BY <1>1, RunningAlive DEF LuaTyped
<1>3. \A j \in 1 .. Len(chain) - 1 : stack'[chain[j]] # <<>>
  BY <1>1, <1>2 DEF ChainAlive, StacksOfCallers
<1>4. stack'[Main] # <<>>
  BY <1>1, <1>2 DEF ChainAlive, StacksOfCallers
<1>5. /\ \A i \in 1 .. Len(chain') - 1 :
           chain'[i] = Running \/ \E j \in 1 .. Len(chain) - 1 : chain'[i] = chain[j]
      /\ \/ Running' = Running
         \/ \E j \in 1 .. Len(chain) - 1 : Running' = chain[j]
         \/ Hooked /\ UNCHANGED alive
      /\ alive' \subseteq alive
  BY <1>1, ChainStep
<1>6. \A u \in Threads : calls'[u] # <<>> => u \in alive' /\ stack'[u] # <<>>
  BY <1>1, <1>5 DEF StacksOfCallers
<1>7. StacksOfCallers'
  BY <1>3, <1>4, <1>5, <1>6 DEF StacksOfCallers
<1>8. CurrentKept'
  <2>1. SUFFICES ASSUME stack'[Running'] = <<>> PROVE current' \in alive'
    BY DEF CurrentKept
  <2>2. Hooked /\ UNCHANGED alive
    BY <1>3, <1>5, <2>1
  <2> QED
    BY <1>2, <2>2 DEF Hooked
<1> QED
  BY <1>7, <1>8
-----------------------------------------------------------------------------
(* Steps *)

\* What becomes of the program's own state by a change of the running thread's
\* calls to c.
LEMMA LuaStep ==
  ASSUME IInv, Moved, NEW c \in Seq(CallFrames(Funcs)),
         calls' = [calls EXCEPT ![Running] = c], UNCHANGED conf,
         caught' \subseteq Threads, hostErr' \subseteq Threads, made' \in 0 .. MaxCalls
  PROVE  LuaTyped' /\ ChainAlive'
<1>1. LuaTyped /\ ChainAlive
  BY DEF IInv
<1>2. chain' \in Seq(Threads) /\ chain' # <<>> /\ chain'[1] = Main /\ ChainAlive' /\ alive' \subseteq alive
  BY <1>1, ChainStep
<1>3. calls' \in [Threads -> Seq(CallFrames(Funcs))]
  <2>1. calls \in [Threads -> Seq(CallFrames(Funcs))]
    BY <1>1 DEF LuaTyped, CallFrames
  <2> QED
    BY <2>1
<1> QED
  BY <1>1, <1>2, <1>3 DEF LuaTyped, CallFrames

\* A call event of a call that leaves the running thread with calls c.
LEMMA CallStep ==
  ASSUME IInv, NEW f \in Funcs, NEW collect \in BOOLEAN, NEW c \in Seq(CallFrames(Funcs)),
         calls' = [calls EXCEPT ![Running] = c],
         CallHook(Running, f, collect), UNCHANGED <<caught, hostErr>>,
         \/ UNCHANGED <<chain, alive>>
         \/ Len(chain) > 1 /\ chain' = Pop(chain) /\ UNCHANGED alive
         \/ \E u \in alive \ Range(chain) : chain' = Append(chain, u) /\ UNCHANGED alive
  PROVE  IInv' /\ StackKept
<1>1. LuaTyped /\ ChainAlive /\ StacksOfCallers /\ Running \in alive /\ Running \in Threads
  BY RunningAlive DEF IInv
<1>2. calls \in [Threads -> Seq(CallFrames(Funcs))]
  BY <1>1 DEF LuaTyped, CallFrames
<1>3. calls' \in [Threads -> Seq(CallFrames(Funcs))]
  BY <1>2
<1>4. Hooked /\ made' \in 0 .. MaxCalls /\ UNCHANGED conf
  BY <1>3, CallHooked
<1>5. Moved
  BY <1>4 DEF Moved
<1>6. LuaTyped' /\ ChainAlive'
  <2>1. caught' \subseteq Threads /\ hostErr' \subseteq Threads
    BY <1>1 DEF LuaTyped
  <2> QED
    BY <1>4, <1>5, <2>1, LuaStep
<1>7. StacksOfCallers' /\ CurrentKept'
  <2>1. \A u \in Threads : calls'[u] # <<>> => u \in alive' /\ (calls[u] # <<>> \/ u = Running)
    BY <1>1, <1>2 DEF StacksOfCallers
  <2> QED
    BY <1>4, <1>5, <2>1, CallersStep DEF Hooked
<1> QED
  BY <1>4, <1>6, <1>7 DEF IInv, Hooked, StackKept

\* A thread is left with calls c after a return or an error: whatever the hook
\* did, the running thread keeps its stack.
LEMMA LeaveStep ==
  ASSUME IInv, NEW c \in Seq(CallFrames(Funcs)), Leave(c), UNCHANGED <<conf, made>>,
         caught' \subseteq Threads, hostErr' \subseteq Threads,
         ProfileTyped', stack'[Running] # <<>>,
         \A u \in alive : stack[u] # <<>> => stack'[u] # <<>>,
         current' # None => stack'[current'] # <<>>
  PROVE  IInv'
<1>1. LuaTyped /\ ChainAlive /\ StacksOfCallers
  BY DEF IInv
<1>2. /\ Len(chain) \in Nat \ {0} /\ Running = chain[Len(chain)] /\ chain[1] = Main
      /\ Running \in alive /\ Running \in Threads
  BY <1>1, RunningAlive DEF LuaTyped
<1>3. calls \in [Threads -> Seq(CallFrames(Funcs))] /\ made \in 0 .. MaxCalls
  BY <1>1 DEF LuaTyped, CallFrames
<1>4. calls' = [calls EXCEPT ![Running] = c]
  BY DEF Leave
<1>5. Moved
  <2>1. CASE c = <<>> /\ Running # Main
    BY <1>2, <2>1 DEF Leave, Moved
  <2>2. CASE ~(c = <<>> /\ Running # Main)
    BY <2>2 DEF Leave, Moved
  <2> QED
    BY <2>1, <2>2
<1>6. LuaTyped' /\ ChainAlive'
  BY <1>3, <1>4, <1>5, LuaStep
<1>7. \A u \in Threads : calls'[u] # <<>> => u \in alive' /\ (calls[u] # <<>> \/ u = Running)
  <2> SUFFICES ASSUME NEW u \in Threads, calls'[u] # <<>>
               PROVE  u \in alive' /\ (calls[u] # <<>> \/ u = Running)
    OBVIOUS
  <2>1. CASE u = Running
    BY <1>2, <1>3, <1>4, <2>1 DEF Leave
  <2>2. CASE u # Running
    BY <1>1, <1>3, <1>4, <2>2 DEF Leave, StacksOfCallers
  <2> QED
    BY <2>1, <2>2
<1>8. StacksOfCallers' /\ CurrentKept'
  BY <1>5, <1>7, CallersStep
<1> QED
  BY <1>6, <1>8 DEF IInv

\* A step that leaves the program and the stacks as they are.
LEMMA QuietStep ==
  ASSUME IInv, UNCHANGED <<conf, lua, current, stack, records>>,
         ignore' \subseteq Ignorable, paused' \in BOOLEAN,
         status' \in {"running", "stopped", "error", "crashed"}
  PROVE  IInv' /\ StackKept
<1>1. UNCHANGED <<alive, chain, calls, caught, hostErr, made>>
  BY DEF lua
<1>2. LuaTyped' /\ ChainAlive' /\ StacksOfCallers' /\ CurrentKept'
  BY <1>1 DEF IInv, LuaTyped, ChainAlive, StacksOfCallers, CurrentKept, Running, Top
<1>3. ProfileTyped'
  BY DEF IInv, ProfileTyped, Keys
<1> QED
  BY <1>2, <1>3 DEF IInv, CurrentKept, StackKept

\* The invariant holds when profiling starts.
LEMMA InitIInv == Init => IInv
<1> SUFFICES ASSUME Init PROVE IInv
  OBVIOUS
<1> DEFINE base == [i \in DOMAIN BaseFrames |-> Frame(BaseFrames[i], conf.load)]
<1>1. conf.load \in BOOLEAN /\ conf \in Confs
  BY TraceInstrumentAssumption DEF Init, AllConfs
<1>2. base \in Seq(CallFrames(Funcs))
  <2>1. BaseFrames \in Seq(Funcs)
    BY TraceInstrumentAssumption
  <2>2. /\ Len(BaseFrames) \in Nat /\ DOMAIN BaseFrames = 1 .. Len(BaseFrames)
        /\ \A i \in 1 .. Len(BaseFrames) : BaseFrames[i] \in Funcs
    BY <2>1, LenProperties, ElementOfSeq
  <2>3. base \in [1 .. Len(BaseFrames) -> CallFrames(Funcs)]
    BY <1>1, <2>2 DEF Frame, CallFrames
  <2> HIDE DEF base
  <2> QED
    BY <2>2, <2>3
<1>3. calls = [t \in Threads |-> IF t # Main THEN <<>> ELSE base]
  BY DEF Init
<1>4. Main \in Threads /\ MaxCalls \in Nat /\ MaxStack \in Nat
  BY TraceInstrumentAssumption
<1> HIDE DEF base
<1>5. calls \in [Threads -> Seq(CallFrames(Funcs))] /\ calls[Main] = base
  BY <1>2, <1>3, <1>4
<1>6. chain = <<Main>> /\ Len(chain) = 1 /\ chain[1] = Main /\ chain # <<>> /\ chain \in Seq(Threads)
  BY <1>4 DEF Init
<1>7. LuaTyped
  <2>1. /\ alive \subseteq Threads /\ caught \subseteq Threads /\ hostErr \subseteq Threads
        /\ made \in 0 .. MaxCalls
    BY <1>4 DEF Init
  <2> QED
    BY <1>1, <1>5, <1>6, <2>1 DEF LuaTyped, CallFrames
<1>8. /\ NewStack(base) \in Seq(NewKeys(base)) /\ Len(NewStack(base)) \in 1 .. MaxStack
      /\ NewStack(base) # <<>>
  BY <1>2, <1>7, NewStackType, EmptySeq
<1>9. /\ DOMAIN records = NewKeys(base) /\ records \in [NewKeys(base) -> BOOLEAN]
      /\ stack = [t \in Threads |-> IF t = Main THEN NewStack(base) ELSE <<>>]
  BY <1>5 DEF Init, IsIgnored
<1>10. ProfileTyped
  <2>1. <<>> \in Seq(NewKeys(base)) /\ Len(<<>>) = 0
    OBVIOUS
  <2>2. \A t \in Threads : stack[t] \in Seq(NewKeys(base)) /\ Len(stack[t]) <= MaxStack
    BY <1>4, <1>8, <1>9, <2>1
  <2>3. stack \in [Threads -> Seq(Keys)] /\ records \in [Keys -> BOOLEAN]
    BY <1>9, <2>2 DEF Keys
  <2>4. /\ ignore \subseteq Ignorable /\ paused \in BOOLEAN /\ current \in Threads \cup {None}
        /\ status \in {"running", "stopped", "error", "crashed"}
    BY DEF Init
  <2> QED
    BY <2>2, <2>3, <2>4 DEF ProfileTyped
<1>11. ChainAlive
  BY <1>4, <1>6 DEF Init, ChainAlive
<1>12. StacksOfCallers
  <2>1. alive = Threads /\ \A t \in Threads : t # Main => calls[t] = <<>>
    BY <1>3 DEF Init
  <2> QED
    BY <1>4, <1>6, <1>8, <1>9, <2>1 DEF StacksOfCallers
<1>13. CurrentKept
  BY DEF Init, CurrentKept
<1> QED
  BY <1>7, <1>10, <1>11, <1>12, <1>13 DEF IInv

\* Every step keeps the invariant, and the stack that it switches from.
LEMMA NextIInv ==
  ASSUME IInv, [Next]_vars
  PROVE  IInv' /\ [StackKept]_vars
<1>1. /\ LuaTyped /\ ProfileTyped /\ ChainAlive /\ StacksOfCallers /\ CurrentKept
      /\ Running \in Threads /\ Running \in alive
  BY RunningAlive DEF IInv
<1>2. PICK c \in Seq(CallFrames(Funcs)) : c = calls[Running]
  BY <1>1 DEF LuaTyped, CallFrames
<1>3. ResumeFn \in Funcs /\ YieldFn \in Funcs
  BY TraceInstrumentAssumption DEF Funcs
<1>4. \A f \in Funcs : Called(c, f) \in Seq(CallFrames(Funcs))
  BY CallsType
<1>5. ASSUME NEW f \in Funcs, NEW collect \in BOOLEAN, Call(f, collect)
      PROVE  IInv' /\ StackKept
  <2>1. /\ calls' = [calls EXCEPT ![Running] = Called(c, f)]
        /\ CallHook(Running, f, collect) /\ UNCHANGED <<alive, chain, caught, hostErr>>
    BY <1>2, <1>5 DEF Call
  <2> QED
    BY <1>4, <2>1, CallStep
<1>6. ASSUME NEW f \in Funcs, NEW collect \in BOOLEAN, TailCall(f, collect)
      PROVE  IInv' /\ StackKept
  <2>1. /\ calls' = [calls EXCEPT ![Running] = TailCalled(c, f)] /\ c # <<>>
        /\ CallHook(Running, f, collect) /\ UNCHANGED <<alive, chain, caught, hostErr>>
    BY <1>2, <1>6 DEF TailCall
  <2>2. TailCalled(c, f) \in Seq(CallFrames(Funcs))
    BY <2>1, CallsType
  <2> QED
    BY <2>1, <2>2, CallStep
<1>7. ASSUME NEW u \in Threads, NEW collect \in BOOLEAN, Resume(u, collect)
      PROVE  IInv' /\ StackKept
  <2>1. /\ calls' = [calls EXCEPT ![Running] = Called(c, ResumeFn)]
        /\ CallHook(Running, ResumeFn, collect) /\ UNCHANGED <<alive, caught, hostErr>>
        /\ u \in alive \ Range(chain) /\ chain' = Append(chain, u)
    BY <1>2, <1>7 DEF Resume
  <2> QED
    BY <1>3, <1>4, <2>1, CallStep
<1>8. ASSUME NEW collect \in BOOLEAN, Yield(collect)
      PROVE  IInv' /\ StackKept
  <2>1. /\ calls' = [calls EXCEPT ![Running] = Called(c, YieldFn)]
        /\ CallHook(Running, YieldFn, collect) /\ UNCHANGED <<alive, caught, hostErr>>
        /\ Len(chain) > 1 /\ chain' = Pop(chain)
    BY <1>2, <1>8 DEF Yield
  <2> QED
    BY <1>3, <1>4, <2>1, CallStep
<1>9. ASSUME NEW collect \in BOOLEAN, Return(collect)
      PROVE  IInv' /\ StackKept
  <2>1. Hooked
    BY <1>9, ReturnHooked
  <2>2. /\ Leave(Left(c)) /\ c # <<>> /\ UNCHANGED <<conf, hostErr, made>>
        /\ caught' = caught \ {Running}
    BY <1>2, <1>9 DEF Return
  <2>3. Left(c) \in Seq(CallFrames(Funcs)) /\ caught' \subseteq Threads /\ hostErr' \subseteq Threads
    BY <1>1, <2>2, LeftType DEF LuaTyped
  <2>4. IInv'
    BY <2>1, <2>2, <2>3, LeaveStep DEF Hooked
  <2> QED
    BY <2>1, <2>4 DEF Hooked, StackKept
<1>10. ASSUME NEW collect \in BOOLEAN, Stop(collect)
       PROVE  IInv' /\ StackKept
  <2>1. Hooked
    BY <1>10, ReturnHooked
  <2>2. UNCHANGED <<conf, alive, chain, calls, caught, hostErr, made>>
    BY <1>10 DEF Stop, lua
  <2>3. LuaTyped' /\ ChainAlive'
    BY <1>1, <2>2 DEF LuaTyped, ChainAlive
  <2>4. StacksOfCallers' /\ CurrentKept'
    <3>1. \A u \in Threads : calls'[u] # <<>> => u \in alive' /\ (calls[u] # <<>> \/ u = Running)
      BY <1>1, <2>2 DEF StacksOfCallers
    <3>2. Moved
      BY <2>2 DEF Moved
    <3> QED
      BY <2>1, <3>1, <3>2, CallersStep DEF Hooked
  <2> QED
    BY <2>1, <2>3, <2>4 DEF IInv, Hooked, StackKept
<1>11. ASSUME ReturnUnseen \/ Raise
       PROVE  IInv' /\ StackKept
  <2>1. /\ c # <<>> /\ stack[Running] # <<>>
        /\ UNCHANGED <<conf, made, ignore, status, paused, current, stack, records>>
    BY <1>1, <1>2, <1>11 DEF ReturnUnseen, Raise, StacksOfCallers
  <2>2. ProfileTyped' /\ (current' # None => stack'[current'] # <<>>)
    BY <1>1, <2>1 DEF ProfileTyped, Keys, CurrentKept
  <2>3. caught' \subseteq Threads /\ hostErr' \subseteq Threads
    BY <1>1, <1>11, TraceInstrumentAssumption DEF ReturnUnseen, Raise, LuaTyped
  <2>4. CASE ReturnUnseen
    <3>1. Leave(Left(c))
      BY <1>2, <2>4 DEF ReturnUnseen
    <3>2. Left(c) \in Seq(CallFrames(Funcs))
      BY <2>1, LeftType
    <3> QED
      BY <2>1, <2>2, <2>3, <3>1, <3>2, LeaveStep DEF StackKept
  <2>5. CASE Raise
    <3>1. Leave(Unwound(c, Pcalls))
      BY <1>2, <2>5 DEF Raise
    <3>2. Unwound(c, Pcalls) \in Seq(CallFrames(Funcs))
      BY CallsType
    <3> QED
      BY <2>1, <2>2, <2>3, <3>1, <3>2, LeaveStep DEF StackKept
  <2> QED
    BY <1>11, <2>4, <2>5
<1>12. ASSUME \/ \E f \in Ignorable : Ignore(f)
              \/ PauseExecution \/ ResumeExecution \/ PausedEvent
              \/ CollectWithoutRoom \/ Finalize
       PROVE  IInv' /\ StackKept
  <2>1. /\ UNCHANGED <<conf, lua, current, stack, records>>
        /\ ignore' \subseteq Ignorable /\ paused' \in BOOLEAN
        /\ status' \in {"running", "stopped", "error", "crashed"}
    BY <1>1, <1>12 DEF ProfileTyped, Ignore, PauseExecution, ResumeExecution, PausedEvent,
       CollectWithoutRoom, Finalize
  <2> QED
    BY <2>1, QuietStep
<1>13. ASSUME UNCHANGED vars
       PROVE  IInv' /\ StackKept
  <2>1. /\ UNCHANGED <<conf, lua, current, stack, records>>
        /\ ignore' \subseteq Ignorable /\ paused' \in BOOLEAN
        /\ status' \in {"running", "stopped", "error", "crashed"}
    BY <1>1, <1>13 DEF ProfileTyped, vars
  <2> QED
    BY <2>1, QuietStep
<1> QED
  BY <1>5, <1>6, <1>7, <1>8, <1>9, <1>10, <1>11, <1>12, <1>13 DEF Next

\* The threads that wait in the chain have stacks and are alive, in every
\* reachable state, and so is the thread before whenever the running one has
\* no stack yet (lmprof_thread_info_gc runs only then).
THEOREM Invariant == Spec => []IInv
<1>1. IInv /\ [Next]_vars => IInv'
  BY NextIInv
<1> QED
  BY <1>1, InitIInv, PTL DEF Spec

\* The thread registry and every profile stack are well typed: an entry of a
\* stack has its record, and no stack outgrows LMPROF_MAXSTACK.
THEOREM StacksTyped == Spec => [](LuaTyped /\ ProfileTyped)
<1>1. IInv => LuaTyped /\ ProfileTyped
  BY DEF IInv
<1> QED
  BY <1>1, Invariant, PTL

\* traceevent_prehook never frees the stack that it switches from, for any
\* number of coroutines and any options.
THEOREM SwitchAlwaysKeepsStack == Spec => SwitchKeepsStack
<1>1. IInv /\ [Next]_vars => [StackKept]_vars
  BY NextIInv
<1> QED
  BY <1>1, Invariant, PTL DEF Spec, SwitchKeepsStack, StackKept
-----------------------------------------------------------------------------
(* The events *)

\* What a scope may be named for.
Named == Funcs \cup {Root, GC}
Marks == Funcs \cup {Root, GC, Routine, FrameTrack, Stray}

\* The functions of a sequence of keys.
FnsOf(s) == [i \in DOMAIN s |-> s[i][1]]
Fns(K) == {k[1] : k \in K}
-----------------------------------------------------------------------------
(* Sequences *)

\* What follows the first m elements.
LEMMA RestType ==
  ASSUME NEW S, NEW s \in Seq(S), NEW m \in 0 .. Len(s)
  PROVE  /\ SubSeq(s, m + 1, Len(s)) \in Seq(S)
         /\ Len(SubSeq(s, m + 1, Len(s))) = Len(s) - m
         /\ \A i \in 1 .. Len(s) - m : SubSeq(s, m + 1, Len(s))[i] = s[m + i]
<1> DEFINE r == SubSeq(s, m + 1, Len(s))
<1>1. Len(s) \in Nat /\ m \in Nat /\ m <= Len(s) /\ \A i \in 1 .. Len(s) : s[i] \in S
  BY LenProperties, ElementOfSeq
<1>2. /\ Len(r) = IF m + 1 <= Len(s) THEN Len(s) - (m + 1) + 1 ELSE 0
      /\ r \in Seq(S)
      /\ \A i \in 1 .. Len(s) - (m + 1) + 1 : r[i] = s[(m + 1) + i - 1]
  BY <1>1, SubSeqProperties
<1>3. \A i \in 1 .. Len(s) - m : i \in 1 .. Len(s) - (m + 1) + 1 /\ (m + 1) + i - 1 = m + i
  BY <1>1
<1> HIDE DEF r
<1>4. r \in Seq(S) /\ Len(r) = Len(s) - m /\ \A i \in 1 .. Len(s) - m : r[i] = s[m + i]
  BY <1>1, <1>2, <1>3
<1> QED
  BY <1>4 DEF r

\* A sequence is its beginning and its rest.
LEMMA PrefixAndRest ==
  ASSUME NEW S, NEW s \in Seq(S), NEW m \in 0 .. Len(s)
  PROVE  s = SubSeq(s, 1, m) \o SubSeq(s, m + 1, Len(s))
<1> DEFINE p == SubSeq(s, 1, m)
           r == SubSeq(s, m + 1, Len(s))
<1>1. p \in Seq(S) /\ Len(p) = m /\ \A i \in 1 .. m : p[i] = s[i]
  BY PrefixType
<1>2. r \in Seq(S) /\ Len(r) = Len(s) - m /\ \A i \in 1 .. Len(s) - m : r[i] = s[m + i]
  BY RestType
<1>3. Len(s) \in Nat /\ m \in Nat /\ m <= Len(s)
  BY LenProperties
<1> HIDE DEF p, r
<1>4. /\ p \o r \in Seq(S) /\ Len(p \o r) = Len(p) + Len(r)
      /\ \A i \in 1 .. Len(p) + Len(r) : (p \o r)[i] = IF i <= Len(p) THEN p[i] ELSE r[i - Len(p)]
  BY <1>1, <1>2, ConcatProperties
<1>5. Len(p \o r) = Len(s) /\ \A i \in 1 .. Len(s) : (p \o r)[i] = s[i]
  <2>1. \A i \in 1 .. Len(s) : i <= m => i \in 1 .. m
    BY <1>3
  <2>2. \A i \in 1 .. Len(s) : ~(i <= m) => i - m \in 1 .. Len(s) - m /\ m + (i - m) = i
    BY <1>3
  <2>3. \A i \in 1 .. Len(s) : ~(i <= m) => r[i - m] = s[i]
    BY <1>2, <2>2
  <2>4. Len(p) + Len(r) = Len(s)
    BY <1>1, <1>2, <1>3
  <2> QED
    BY <1>1, <1>4, <2>1, <2>3, <2>4
<1>6. p \o r = s
  BY <1>4, <1>5, SeqEqual
<1> QED
  BY <1>6 DEF p, r

\* A concatenation's parts, by its length.
LEMMA ConcatParts ==
  ASSUME NEW S, NEW a \in Seq(S), NEW b \in Seq(S)
  PROVE  /\ a \o b \in Seq(S) /\ Len(a \o b) = Len(a) + Len(b)
         /\ SubSeq(a \o b, 1, Len(a)) = a
         /\ SubSeq(a \o b, Len(a) + 1, Len(a \o b)) = b
<1> DEFINE c == a \o b
           p == SubSeq(c, 1, Len(a))
           r == SubSeq(c, Len(a) + 1, Len(c))
<1>1. /\ c \in Seq(S) /\ Len(c) = Len(a) + Len(b)
      /\ \A i \in 1 .. Len(a) + Len(b) : c[i] = IF i <= Len(a) THEN a[i] ELSE b[i - Len(a)]
  BY ConcatProperties
<1>2. Len(a) \in Nat /\ Len(b) \in Nat /\ Len(a) \in 0 .. Len(c)
  BY <1>1, LenProperties
<1> HIDE DEF c
<1>3. p \in Seq(S) /\ Len(p) = Len(a) /\ \A i \in 1 .. Len(a) : p[i] = c[i]
  BY <1>1, <1>2, PrefixType
<1>4. /\ r \in Seq(S) /\ Len(r) = Len(c) - Len(a)
      /\ \A i \in 1 .. Len(c) - Len(a) : r[i] = c[Len(a) + i]
  BY <1>1, <1>2, RestType
<1> HIDE DEF p, r
<1>5. p = a
  <2>1. \A i \in 1 .. Len(a) : p[i] = a[i]
    BY <1>1, <1>2, <1>3
  <2> QED
    BY <1>3, <2>1, SeqEqual
<1>6. r = b
  <2>1. Len(r) = Len(b) /\ Len(c) - Len(a) = Len(b)
    BY <1>1, <1>2, <1>4
  <2>2. ASSUME NEW i \in 1 .. Len(b) PROVE r[i] = b[i]
    <3>1. PICK j \in 1 .. Len(a) + Len(b) : j = Len(a) + i /\ ~(j <= Len(a)) /\ j - Len(a) = i
      BY <1>2
    <3>2. c[j] = b[i]
      BY <1>1, <3>1
    <3> QED
      BY <1>4, <2>1, <3>1, <3>2
  <2> QED
    BY <1>4, <2>1, <2>2, SeqEqual
<1> QED
  BY <1>1, <1>5, <1>6 DEF c, p, r

\* The functions of keys, of one sequence after another.
LEMMA FnsOfType ==
  ASSUME NEW K, NEW a \in Seq(K)
  PROVE  /\ FnsOf(a) \in Seq(Fns(K)) /\ Len(FnsOf(a)) = Len(a)
         /\ \A i \in 1 .. Len(a) : FnsOf(a)[i] = a[i][1]
<1>1. Len(a) \in Nat /\ DOMAIN a = 1 .. Len(a) /\ \A i \in 1 .. Len(a) : a[i] \in K
  BY LenProperties, ElementOfSeq
<1>2. FnsOf(a) \in [1 .. Len(a) -> Fns(K)]
  BY <1>1 DEF FnsOf, Fns
<1>3. FnsOf(a) \in Seq(Fns(K)) /\ Len(FnsOf(a)) = Len(a)
  <2> PICK f : f = FnsOf(a)
    OBVIOUS
  <2>1. f \in [1 .. Len(a) -> Fns(K)]
    BY <1>2
  <2>2. f \in Seq(Fns(K)) /\ Len(f) = Len(a)
    BY <1>1, <2>1
  <2> QED
    BY <2>2
<1> QED
  BY <1>1, <1>3 DEF FnsOf

\* The functions of two sequences, one after the other.
LEMMA FnsOfConcat ==
  ASSUME NEW K, NEW a \in Seq(K), NEW b \in Seq(K)
  PROVE  FnsOf(a \o b) = FnsOf(a) \o FnsOf(b)
<1> DEFINE N == Fns(K)
           l == FnsOf(a \o b)
           f == FnsOf(a)
           g == FnsOf(b)
<1>2. /\ a \o b \in Seq(K) /\ Len(a \o b) = Len(a) + Len(b)
      /\ \A i \in 1 .. Len(a) + Len(b) : (a \o b)[i] = IF i <= Len(a) THEN a[i] ELSE b[i - Len(a)]
  BY ConcatProperties
<1>3. Len(a) \in Nat /\ Len(b) \in Nat
  BY LenProperties
<1>4. l \in Seq(N) /\ Len(l) = Len(a) + Len(b) /\ \A i \in 1 .. Len(a) + Len(b) : l[i] = (a \o b)[i][1]
  <2>1. PICK c \in Seq(K) : c = a \o b
    BY <1>2
  <2>2. /\ FnsOf(c) \in Seq(N) /\ Len(FnsOf(c)) = Len(c)
        /\ \A i \in 1 .. Len(c) : FnsOf(c)[i] = c[i][1]
    BY FnsOfType
  <2> QED
    BY <1>2, <2>1, <2>2
<1>5. f \in Seq(N) /\ Len(f) = Len(a) /\ \A i \in 1 .. Len(a) : f[i] = a[i][1]
  BY FnsOfType
<1>6. g \in Seq(N) /\ Len(g) = Len(b) /\ \A i \in 1 .. Len(b) : g[i] = b[i][1]
  BY FnsOfType
<1> HIDE DEF N, l, f, g
<1>7. /\ f \o g \in Seq(N) /\ Len(f \o g) = Len(f) + Len(g)
      /\ \A i \in 1 .. Len(f) + Len(g) : (f \o g)[i] = IF i <= Len(f) THEN f[i] ELSE g[i - Len(f)]
  <2>1. PICK x \in Seq(N), y \in Seq(N) : x = f /\ y = g
    BY <1>5, <1>6
  <2>2. /\ x \o y \in Seq(N) /\ Len(x \o y) = Len(x) + Len(y)
        /\ \A i \in 1 .. Len(x) + Len(y) : (x \o y)[i] = IF i <= Len(x) THEN x[i] ELSE y[i - Len(x)]
    BY ConcatProperties
  <2> QED
    BY <2>1, <2>2
<1>8. \A i \in 1 .. Len(a) + Len(b) : l[i] = (f \o g)[i]
  <2> TAKE i \in 1 .. Len(a) + Len(b)
  <2>1. CASE i <= Len(a)
    BY <1>2, <1>3, <1>4, <1>5, <1>6, <1>7, <2>1
  <2>2. CASE ~(i <= Len(a))
    <3>0. i - Len(a) \in 1 .. Len(b)
      BY <1>3, <2>2
    <3>1. PICK j \in 1 .. Len(b) : j = i - Len(a)
      BY <3>0
    <3>2. (a \o b)[i] = b[j] /\ l[i] = (a \o b)[i][1]
      BY <1>2, <1>4, <2>2, <3>1
    <3>3. (f \o g)[i] = g[j]
      BY <1>3, <1>5, <1>6, <1>7, <2>2, <3>1
    <3> QED
      BY <1>6, <3>2, <3>3
  <2> QED
    BY <2>1, <2>2
<1>9. l = f \o g
  BY <1>4, <1>5, <1>6, <1>7, <1>8, SeqEqual
<1> QED
  BY <1>9 DEF l, f, g
-----------------------------------------------------------------------------
(* Shown *)

\* The positions of the keys that have events.
Listed(s, recs) == {i \in DOMAIN s : ~recs[s[i]]}

\* What is shown of a stack: the functions of its entries that have events.
LEMMA ShownType ==
  ASSUME NEW N, NEW K, \A k \in K : k[1] \in N, NEW s \in Seq(K), NEW recs
  PROVE  /\ Shown(s, recs) = FnsOf(Selected(s, Listed(s, recs)))
         /\ Selected(s, Listed(s, recs)) \in Seq(K)
         /\ Shown(s, recs) \in Seq(N) /\ Shown(s, recs) \in Seq(Fns(K))
<1>1. Shown(s, recs) = FnsOf(Selected(s, Listed(s, recs)))
  BY DEF Shown, FnsOf, Listed
<1>2. Selected(s, Listed(s, recs)) \in Seq(K)
  BY SelectedType
<1>3. FnsOf(Selected(s, Listed(s, recs))) \in Seq(Fns(K))
  BY <1>2, FnsOfType
<1>4. Seq(Fns(K)) \subseteq Seq(N)
  <2>1. Fns(K) \subseteq N
    BY DEF Fns
  <2> QED
    BY <2>1, SeqMonotonic
<1> QED
  BY <1>1, <1>2, <1>3, <1>4

\* The root alone or nothing leaves nothing above it.
LEMMA ShownEmpty ==
  ASSUME NEW recs
  PROVE  Shown(<<>>, recs) = <<>>
<1>1. Len(<<>>) = 0 /\ Len(<<>>) \in Nat
  OBVIOUS
<1>2. Selected(<<>>, Listed(<<>>, recs)) = <<>>
  BY <1>1, UpToDef
<1>3. Shown(<<>>, recs) = FnsOf(<<>>)
  BY <1>2 DEF Shown, FnsOf, Listed
<1> QED
  BY <1>3 DEF FnsOf

\* Whether a function is ignored is settled with its record: what is fetched
\* later changes nothing.
LEMMA ShownAgrees ==
  ASSUME NEW K, NEW s \in Seq(K), NEW recs, NEW recs2, \A k \in K : recs2[k] = recs[k]
  PROVE  Shown(s, recs2) = Shown(s, recs)
<1>1. DOMAIN s = 1 .. Len(s) /\ \A i \in 1 .. Len(s) : s[i] \in K
  BY LenProperties, ElementOfSeq
<1>2. Listed(s, recs2) = Listed(s, recs)
  BY <1>1 DEF Listed
<1> QED
  BY <1>2 DEF Shown, Listed

\* The events of a stack are those of its beginning and of its rest.
LEMMA ShownSplit ==
  ASSUME NEW K, NEW s \in Seq(K), NEW recs, NEW m \in 0 .. Len(s)
  PROVE  Shown(s, recs) = Shown(SubSeq(s, 1, m), recs)
                          \o Shown(SubSeq(s, m + 1, Len(s)), recs)
<1> DEFINE p == SubSeq(s, 1, m)
           r == SubSeq(s, m + 1, Len(s))
           T == Listed(s, recs)
           U == Listed(r, recs)
           V == Listed(p, recs)
<1>1. p \in Seq(K) /\ Len(p) = m /\ \A i \in 1 .. m : p[i] = s[i]
  BY PrefixType
<1>2. r \in Seq(K) /\ Len(r) = Len(s) - m /\ \A i \in 1 .. Len(s) - m : r[i] = s[m + i]
  BY RestType
<1>3. Len(s) \in Nat /\ m \in Nat /\ m <= Len(s) /\ DOMAIN s = 1 .. Len(s)
  BY LenProperties
<1> HIDE DEF p, r
<1>4. DOMAIN p = 1 .. m /\ DOMAIN r = 1 .. Len(s) - m
  BY <1>1, <1>2, LenProperties
<1>5. \A i \in 1 .. Len(s) - m : i \in U <=> m + i \in T
  BY <1>2, <1>3, <1>4 DEF Listed
<1>6. \A i \in 1 .. Len(p) : i \in T <=> i \in V
  BY <1>1, <1>3, <1>4 DEF Listed
<1> HIDE DEF T, U, V
<1>7. Selected(s, T) = Selected(p, T) \o Selected(r, U)
  BY <1>5, SelectedSplit DEF p, r
<1>8. Selected(p, T) = Selected(p, V)
  BY <1>1, <1>6, SelectedSame
<1>9. Selected(p, V) \in Seq(K) /\ Selected(r, U) \in Seq(K)
  BY <1>1, <1>2, SelectedType
<1>10. FnsOf(Selected(s, T)) = FnsOf(Selected(p, V)) \o FnsOf(Selected(r, U))
  <2>1. PICK a \in Seq(K), b \in Seq(K) : a = Selected(p, V) /\ b = Selected(r, U)
    BY <1>9
  <2>2. FnsOf(a \o b) = FnsOf(a) \o FnsOf(b)
    BY FnsOfConcat
  <2> QED
    BY <1>7, <1>8, <2>1, <2>2, Zenon
<1>11. /\ Shown(s, recs) = FnsOf(Selected(s, T)) /\ Shown(p, recs) = FnsOf(Selected(p, V))
       /\ Shown(r, recs) = FnsOf(Selected(r, U))
  BY DEF Shown, FnsOf, Listed, T, U, V
<1> QED
  BY <1>10, <1>11 DEF p, r

\* The same above the root.
LEMMA ShownTailSplit ==
  ASSUME NEW K, NEW s \in Seq(K), NEW recs, NEW m \in 1 .. Len(s)
  PROVE  Shown(Tail(s), recs) = Shown(Tail(SubSeq(s, 1, m)), recs)
                                \o Shown(SubSeq(s, m + 1, Len(s)), recs)
<1> DEFINE p == SubSeq(s, 1, m)
           r == SubSeq(s, m + 1, Len(s))
           q == Tail(s)
           a == Tail(p)
<1>1. Len(s) \in Nat /\ m \in Nat /\ 1 <= m /\ m <= Len(s) /\ m \in 0 .. Len(s) /\ s # <<>>
  BY LenProperties, EmptySeq
<1>2. p \in Seq(K) /\ Len(p) = m /\ \A i \in 1 .. m : p[i] = s[i]
  BY <1>1, PrefixType
<1>3. r \in Seq(K) /\ Len(r) = Len(s) - m /\ \A i \in 1 .. Len(s) - m : r[i] = s[m + i]
  BY <1>1, RestType
<1>4. q \in Seq(K) /\ Len(q) = Len(s) - 1 /\ \A i \in 1 .. Len(s) - 1 : q[i] = s[i + 1]
  BY <1>1, HeadTailProperties
<1> HIDE DEF p, r, q
<1>5. a \in Seq(K) /\ Len(a) = m - 1 /\ \A i \in 1 .. m - 1 : a[i] = p[i + 1]
  <2>1. p # <<>>
    BY <1>1, <1>2, EmptySeq
  <2> QED
    BY <1>2, <2>1, HeadTailProperties
<1> HIDE DEF a
<1>6. PICK n \in Nat : n = m - 1 /\ n + 1 = m /\ n \in 0 .. Len(q)
  BY <1>1, <1>4
<1>7. SubSeq(q, 1, n) = a
  <2> DEFINE b == SubSeq(q, 1, n)
  <2>1. b \in Seq(K) /\ Len(b) = n /\ \A i \in 1 .. n : b[i] = q[i]
    BY <1>4, <1>6, PrefixType
  <2> HIDE DEF b
  <2>2. ASSUME NEW i \in 1 .. n PROVE b[i] = a[i]
    <3>1. i \in 1 .. Len(s) - 1 /\ i \in 1 .. m - 1 /\ i + 1 \in 1 .. m
      BY <1>1, <1>6
    <3>2. q[i] = s[i + 1] /\ a[i] = p[i + 1] /\ p[i + 1] = s[i + 1]
      BY <1>2, <1>4, <1>5, <3>1
    <3> QED
      BY <2>1, <3>2
  <2>3. b = a
    BY <1>5, <1>6, <2>1, <2>2, SeqEqual
  <2> QED
    BY <2>3 DEF b
<1>8. SubSeq(q, n + 1, Len(q)) = r
  <2> DEFINE b == SubSeq(q, n + 1, Len(q))
  <2>1. b \in Seq(K) /\ Len(b) = Len(q) - n /\ \A i \in 1 .. Len(q) - n : b[i] = q[n + i]
    BY <1>4, <1>6, RestType
  <2> HIDE DEF b
  <2>2. Len(q) - n = Len(s) - m /\ \A i \in 1 .. Len(s) - m : b[i] = r[i]
    <3>1. Len(q) - n = Len(s) - m
      BY <1>1, <1>4, <1>6
    <3>2. \A i \in 1 .. Len(s) - m : n + i \in 1 .. Len(s) - 1 /\ (n + i) + 1 = m + i
      BY <1>1, <1>6
    <3> QED
      BY <1>3, <1>4, <2>1, <3>1, <3>2
  <2>3. b = r
    BY <1>3, <2>1, <2>2, SeqEqual
  <2> QED
    BY <2>3 DEF b
<1>9. Shown(q, recs) = Shown(SubSeq(q, 1, n), recs) \o Shown(SubSeq(q, n + 1, Len(q)), recs)
  BY <1>4, <1>6, ShownSplit
<1> QED
  BY <1>7, <1>8, <1>9 DEF p, r, q, a

\* One entry more, and the same above the root.
LEMMA ShownAppend ==
  ASSUME NEW recs
  PROVE  \A s \in Seq(DOMAIN recs), k \in DOMAIN recs :
           /\ Shown(Append(s, k), recs) = Shown(s, recs) \o Shown(<<k>>, recs)
           /\ s # <<>> => Shown(Tail(Append(s, k)), recs)
                          = Shown(Tail(s), recs) \o Shown(<<k>>, recs)
<1> DEFINE K == DOMAIN recs
<1> SUFFICES ASSUME NEW s \in Seq(K), NEW k \in K
             PROVE  /\ Shown(Append(s, k), recs) = Shown(s, recs) \o Shown(<<k>>, recs)
                    /\ s # <<>> => Shown(Tail(Append(s, k)), recs)
                                   = Shown(Tail(s), recs) \o Shown(<<k>>, recs)
  OBVIOUS
<1> HIDE DEF K
<1> DEFINE r == Append(s, k)
           n == Len(s)
<1>1. n \in Nat /\ <<k>> \in Seq(K) /\ Len(<<k>>) = 1
  BY LenProperties
<1>2. r \in Seq(K) /\ Len(r) = n + 1 /\ r = s \o <<k>>
  BY AppendProperties, AppendIsConcat
<1>3. SubSeq(r, 1, n) = s /\ SubSeq(r, n + 1, Len(r)) = <<k>>
  <2>1. PICK e \in Seq(K) : e = <<k>> /\ Len(e) = 1
    BY <1>1
  <2>2. SubSeq(s \o e, 1, Len(s)) = s /\ SubSeq(s \o e, Len(s) + 1, Len(s \o e)) = e
    BY ConcatParts
  <2> HIDE DEF r
  <2> QED
    BY <1>2, <2>1, <2>2
<1>4. PICK m \in Nat : m = n /\ m \in 0 .. Len(r)
  BY <1>1, <1>2
<1>5. s # <<>> => m \in 1 .. Len(r)
  BY <1>1, <1>2, <1>4, EmptySeq
<1> HIDE DEF r, n
<1>6. Shown(r, recs) = Shown(SubSeq(r, 1, m), recs) \o Shown(SubSeq(r, m + 1, Len(r)), recs)
  BY <1>2, <1>4, ShownSplit
<1>7. ASSUME s # <<>>
      PROVE  Shown(Tail(r), recs) = Shown(Tail(SubSeq(r, 1, m)), recs)
                                    \o Shown(SubSeq(r, m + 1, Len(r)), recs)
  BY <1>2, <1>5, <1>7, ShownTailSplit
<1> QED
  BY <1>3, <1>4, <1>6, <1>7 DEF r, n
-----------------------------------------------------------------------------
(* Tracks *)

Tracks == Threads \cup {FrameTrack}
TracksTyped(tr) == tr \in [Tracks -> Seq(Marks)]

\* Scopes that begin, and that end.
LEMMA BegunType ==
  ASSUME NEW tr, TracksTyped(tr), NEW k \in Tracks, NEW w \in Seq(Marks)
  PROVE  /\ TracksTyped(Begun(tr, k, w)) /\ Begun(tr, k, w)[k] = tr[k] \o w
         /\ \A j \in Tracks \ {k} : Begun(tr, k, w)[j] = tr[j]
<1>1. tr[k] \in Seq(Marks)
  BY DEF TracksTyped
<1>2. tr[k] \o w \in Seq(Marks)
  BY <1>1, ConcatProperties
<1> QED
  BY <1>2 DEF Begun, TracksTyped

\* The end of scopes leaves marks, on its track only.
LEMMA EndedType ==
  ASSUME NEW tr, TracksTyped(tr), NEW k \in Tracks, NEW w \in Seq(Marks)
  PROVE  /\ TracksTyped(Ended(tr, k, w))
         /\ \A j \in Tracks \ {k} : Ended(tr, k, w)[j] = tr[j]
<1>1. PICK open \in Seq(Marks) : open = tr[k]
  BY DEF TracksTyped
<1>2. Stray \in Marks
  BY DEF Marks
<1>3. Append(open, Stray) \in Seq(Marks)
  BY <1>2, AppendProperties
<1> DEFINE n == Len(open) - Len(w)
           ends == IF n >= 0 /\ SubSeq(open, n + 1, Len(open)) = w THEN SubSeq(open, 1, n)
                   ELSE Append(open, Stray)
<1>4. ends \in Seq(Marks)
  <2>1. ASSUME n >= 0 PROVE SubSeq(open, 1, n) \in Seq(Marks)
    <3>0. Len(open) \in Nat /\ Len(w) \in Nat
      BY LenProperties
    <3>1. PICK m \in 0 .. Len(open) : m = n
      <4>1. n \in 0 .. Len(open)
        BY <2>1, <3>0
      <4> QED
        BY <4>1
    <3>2. SubSeq(open, 1, m) \in Seq(Marks)
      BY PrefixType
    <3> QED
      BY <3>1, <3>2
  <2> QED
    BY <1>3, <2>1
<1>5. Ended(tr, k, w) = [tr EXCEPT ![k] = ends]
  BY <1>1 DEF Ended, TracksTyped
<1> HIDE DEF ends
<1> QED
  BY <1>4, <1>5 DEF TracksTyped

\* The end of the scopes that are last on a track removes them.
LEMMA EndedMatch ==
  ASSUME NEW tr, TracksTyped(tr), NEW k \in Tracks, NEW a \in Seq(Marks), NEW w \in Seq(Marks),
         tr[k] = a \o w
  PROVE  Ended(tr, k, w) = [tr EXCEPT ![k] = a]
<1>1. PICK open \in Seq(Marks) : open = tr[k] /\ open = a \o w
  BY DEF TracksTyped
<1>2. /\ Len(open) = Len(a) + Len(w)
      /\ SubSeq(open, 1, Len(a)) = a /\ SubSeq(open, Len(a) + 1, Len(open)) = w
  BY <1>1, ConcatParts
<1>3. Len(a) \in Nat /\ Len(w) \in Nat
  BY LenProperties
<1>4. Len(open) - Len(w) = Len(a)
  BY <1>2, <1>3
<1>5. /\ Len(open) - Len(w) >= 0
      /\ SubSeq(open, (Len(open) - Len(w)) + 1, Len(open)) = w
      /\ SubSeq(open, 1, Len(open) - Len(w)) = a
  BY <1>2, <1>3, <1>4
<1>6. Ended(tr, k, w) =
        [tr EXCEPT ![k] =
           IF /\ Len(open) - Len(w) >= 0
              /\ SubSeq(open, (Len(open) - Len(w)) + 1, Len(open)) = w
           THEN SubSeq(open, 1, Len(open) - Len(w)) ELSE Append(open, Stray)]
  BY <1>1 DEF Ended, TracksTyped
<1> QED
  BY <1>5, <1>6

\* The scopes open while the hook last fired on cur (None: not since the
\* start, or paused), with stacks st and records recs.
Scopes(tr, st, recs, cur) ==
  /\ tr[FrameTrack] = IF conf.draw /\ cur # None THEN <<FrameTrack>> ELSE <<>>
  /\ ~conf.split =>
       /\ tr[Main] = IF cur # None THEN <<Routine>> \o Shown(st[cur], recs) ELSE <<>>
       /\ \A t \in Threads \ {Main} : tr[t] = <<>>
  /\ conf.split /\ ~conf.load =>
       \A t \in Threads :
         IF st[t] # <<>> THEN tr[t] = Shown(Tail(st[t]), recs) ELSE t \in alive => tr[t] = <<>>

\* The keys of records are of functions, or the root's or the collector's.
KeysNamed(K) == \A k \in K : k[1] \in Named

\* What a stack opens and closes on the track that all threads share.
LEMMA ShownMarks ==
  ASSUME NEW recs, KeysNamed(DOMAIN recs), NEW s \in Seq(DOMAIN recs)
  PROVE  /\ Shown(s, recs) \in Seq(Marks)
         /\ <<Routine>> \o Shown(s, recs) \in Seq(Marks)
         /\ <<FrameTrack>> \in Seq(Marks) /\ <<>> \in Seq(Marks)
<1>1. \A k \in DOMAIN recs : k[1] \in Marks
  BY DEF KeysNamed, Named, Marks
<1>2. PICK K : K = DOMAIN recs
  OBVIOUS
<1>3. Shown(s, recs) \in Seq(Marks)
  <2>1. s \in Seq(K) /\ \A k \in K : k[1] \in Marks
    BY <1>1, <1>2
  <2> HIDE DEF Marks
  <2> QED
    BY <2>1, ShownType
<1>4. <<Routine>> \in Seq(Marks) /\ <<FrameTrack>> \in Seq(Marks)
  <2>1. Routine \in Marks /\ FrameTrack \in Marks
    BY DEF Marks
  <2> QED
    BY <2>1
<1>5. <<Routine>> \o Shown(s, recs) \in Seq(Marks)
  BY <1>3, <1>4, ConcatProperties
<1> QED
  BY <1>3, <1>4, <1>5

\* Scopes may be put together in any order.
LEMMA MarksAssociative ==
  \A x, y, w \in Seq(Marks) : (x \o y) \o w = x \o (y \o w)
BY ConcatAssociative

\* The main thread's track is not that of frames.
LEMMA TracksApart ==
  Main \in Tracks /\ Main \in Threads /\ FrameTrack \in Tracks /\ FrameTrack \notin Threads
BY TraceInstrumentAssumption DEF Tracks

\* traceevent_clear_stack leaves tracks, whatever is open on them.
LEMMA ClearType ==
  ASSUME NEW tr, TracksTyped(tr), NEW recs, KeysNamed(DOMAIN recs), NEW s \in Seq(DOMAIN recs)
  PROVE  TracksTyped(ClearStack(tr, s, recs)) /\ TracksTyped(AppendStack(tr, s, recs))
<1> DEFINE w == <<Routine>> \o Shown(s, recs)
           g == <<FrameTrack>>
<1>1. w \in Seq(Marks) /\ g \in Seq(Marks)
  BY ShownMarks
<1> HIDE DEF w, g
<1>2. \A r : TracksTyped(r) => /\ TracksTyped(Begun(r, Main, w)) /\ TracksTyped(Ended(r, Main, w))
                               /\ TracksTyped(Begun(r, FrameTrack, g))
                               /\ TracksTyped(Ended(r, FrameTrack, g))
  <2> SUFFICES ASSUME NEW r, TracksTyped(r)
               PROVE  /\ TracksTyped(Begun(r, Main, w)) /\ TracksTyped(Ended(r, Main, w))
                      /\ TracksTyped(Begun(r, FrameTrack, g)) /\ TracksTyped(Ended(r, FrameTrack, g))
    OBVIOUS
  <2> QED
    BY <1>1, TracksApart, BegunType, EndedType
<1> QED
  BY <1>2 DEF ClearStack, AppendStack, w, g

\* Closing all of a stack leaves nothing open on the shared tracks.
LEMMA ClearScopes ==
  ASSUME NEW tr, TracksTyped(tr), NEW recs, KeysNamed(DOMAIN recs),
         NEW st \in [Threads -> Seq(DOMAIN recs)], NEW cur \in Threads, Scopes(tr, st, recs, cur)
  PROVE  Scopes(ClearStack(tr, st[cur], recs), st, recs, None)
<1> DEFINE w == <<Routine>> \o Shown(st[cur], recs)
           g == <<FrameTrack>>
           sc == IF conf.split THEN tr ELSE Ended(tr, Main, w)
           last == IF conf.draw THEN Ended(sc, FrameTrack, g) ELSE sc
<1>1. PICK s \in Seq(DOMAIN recs) : s = st[cur]
  OBVIOUS
<1>2. w \in Seq(Marks) /\ g \in Seq(Marks) /\ <<>> \in Seq(Marks) /\ cur # None
  BY <1>1, ShownMarks, TraceInstrumentAssumption
<1>3. tr[FrameTrack] = IF conf.draw THEN g ELSE <<>>
  BY <1>2 DEF Scopes
<1>4. ~conf.split => tr[Main] = w /\ \A t \in Threads \ {Main} : tr[t] = <<>>
  BY <1>2 DEF Scopes
<1> HIDE DEF w, g
<1>5. <<>> \o w = w /\ <<>> \o g = g
  BY <1>2, ConcatEmptySeq
<1>6. ~conf.split => sc = [tr EXCEPT ![Main] = <<>>]
  <2>1. SUFFICES ASSUME ~conf.split PROVE Ended(tr, Main, w) = [tr EXCEPT ![Main] = <<>>]
    OBVIOUS
  <2>2. tr[Main] = <<>> \o w
    BY <1>4, <1>5, <2>1
  <2> QED
    BY <1>2, <2>2, TracksApart, EndedMatch
<1>7. /\ TracksTyped(sc) /\ sc[FrameTrack] = tr[FrameTrack]
      /\ ~conf.split => \A t \in Threads : sc[t] = <<>>
      /\ conf.split => sc = tr
  <2>1. CASE conf.split
    BY <2>1
  <2>2. CASE ~conf.split
    <3>1. sc = [tr EXCEPT ![Main] = <<>>]
      BY <1>6, <2>2
    <3> HIDE DEF sc
    <3> QED
      BY <1>2, <1>4, <2>2, <3>1, TracksApart DEF TracksTyped
  <2> QED
    BY <2>1, <2>2
<1> HIDE DEF sc
<1>8. conf.draw => last = [sc EXCEPT ![FrameTrack] = <<>>]
  <2>1. SUFFICES ASSUME conf.draw PROVE Ended(sc, FrameTrack, g) = [sc EXCEPT ![FrameTrack] = <<>>]
    OBVIOUS
  <2>2. sc[FrameTrack] = <<>> \o g
    BY <1>3, <1>5, <1>7, <2>1
  <2>3. TracksTyped(sc) /\ FrameTrack \in Tracks
    BY <1>7, TracksApart
  <2>4. g \in Seq(Marks) /\ <<>> \in Seq(Marks)
    BY <1>2
  <2> HIDE DEF last
  <2> QED
    BY <2>2, <2>3, <2>4, EndedMatch
<1>9. last[FrameTrack] = <<>> /\ \A t \in Threads : last[t] = sc[t]
  <2>1. CASE conf.draw
    <3>1. DOMAIN sc = Tracks
      BY <1>7 DEF TracksTyped
    <3> HIDE DEF last
    <3> QED
      BY <1>8, <2>1, <3>1, TracksApart DEF Tracks
  <2>2. CASE ~conf.draw
    BY <1>3, <1>7, <2>2
  <2> QED
    BY <2>1, <2>2
<1>10. last = ClearStack(tr, st[cur], recs)
  BY DEF ClearStack, last, sc, w, g
<1> HIDE DEF last
<1>11. Scopes(last, st, recs, None)
  <2>1. last[FrameTrack] = <<>>
    BY <1>9
  <2>2. ~conf.split => \A t \in Threads : last[t] = <<>>
    BY <1>7, <1>9
  <2>3. conf.split => \A t \in Threads : last[t] = tr[t]
    BY <1>7, <1>9
  <2> QED
    BY <2>1, <2>2, <2>3, TracksApart DEF Scopes
<1> QED
  BY <1>10, <1>11

\* Opening all of one leaves just it open.
LEMMA AppendScopes ==
  ASSUME NEW tr, TracksTyped(tr), NEW recs, KeysNamed(DOMAIN recs),
         NEW st \in [Threads -> Seq(DOMAIN recs)], NEW cur \in Threads, Scopes(tr, st, recs, None)
  PROVE  Scopes(AppendStack(tr, st[cur], recs), st, recs, cur)
<1> DEFINE w == <<Routine>> \o Shown(st[cur], recs)
           g == <<FrameTrack>>
           fr == IF conf.draw THEN Begun(tr, FrameTrack, g) ELSE tr
           last == IF conf.split THEN fr ELSE Begun(fr, Main, w)
<1>1. PICK s \in Seq(DOMAIN recs) : s = st[cur]
  OBVIOUS
<1>2. w \in Seq(Marks) /\ g \in Seq(Marks) /\ <<>> \in Seq(Marks) /\ cur # None
  BY <1>1, ShownMarks, TraceInstrumentAssumption
<1>3. tr[FrameTrack] = <<>> /\ (~conf.split => \A t \in Threads : tr[t] = <<>>)
  BY DEF Scopes
<1>4. last = AppendStack(tr, st[cur], recs)
  BY DEF AppendStack
<1> HIDE DEF w, g
<1>5. <<>> \o w = w /\ <<>> \o g = g
  BY <1>2, ConcatEmptySeq
<1>6. TracksTyped(fr) /\ fr[FrameTrack] = (IF conf.draw THEN g ELSE <<>>)
      /\ \A t \in Threads : fr[t] = tr[t]
  <2>1. CASE conf.draw
    <3>1. /\ TracksTyped(Begun(tr, FrameTrack, g))
          /\ Begun(tr, FrameTrack, g)[FrameTrack] = tr[FrameTrack] \o g
          /\ \A j \in Tracks \ {FrameTrack} : Begun(tr, FrameTrack, g)[j] = tr[j]
      BY <1>2, TracksApart, BegunType
    <3> QED
      BY <1>3, <1>5, <2>1, <3>1, TracksApart DEF Tracks
  <2>2. CASE ~conf.draw
    BY <1>3, <2>2
  <2> QED
    BY <2>1, <2>2
<1> HIDE DEF fr
<1>7. ~conf.split => /\ last[Main] = w /\ last[FrameTrack] = fr[FrameTrack]
                     /\ \A t \in Threads \ {Main} : last[t] = <<>>
  <2>1. SUFFICES ASSUME ~conf.split
                 PROVE  /\ Begun(fr, Main, w)[Main] = w
                        /\ Begun(fr, Main, w)[FrameTrack] = fr[FrameTrack]
                        /\ \A t \in Threads \ {Main} : Begun(fr, Main, w)[t] = <<>>
    OBVIOUS
  <2>2. /\ Begun(fr, Main, w)[Main] = fr[Main] \o w
        /\ \A j \in Tracks \ {Main} : Begun(fr, Main, w)[j] = fr[j]
    BY <1>2, <1>6, TracksApart, BegunType
  <2> QED
    BY <1>3, <1>5, <1>6, <2>1, <2>2, TracksApart DEF Tracks
<1>8. conf.split => last = fr
  OBVIOUS
<1> HIDE DEF last
<1>9. last[FrameTrack] = IF conf.draw THEN g ELSE <<>>
  BY <1>6, <1>7, <1>8
<1>10. Scopes(last, st, recs, cur)
  <2>1. conf.split => \A t \in Threads : last[t] = tr[t]
    BY <1>6, <1>8
  <2> QED
    BY <1>2, <1>7, <1>9, <2>1 DEF Scopes, w, g
<1> QED
  BY <1>4, <1>10
-----------------------------------------------------------------------------
(* Keys *)

\* The keys of a traceback are of its functions.
LEMMA LoadedNames ==
  ASSUME NEW fr \in Seq(CallFrames(Funcs))
  PROVE  /\ DOMAIN LoadedChain(fr) = 1 .. Len(fr)
         /\ \A i \in 1 .. Len(fr) : LoadedChain(fr)[i][1] = fr[i].fn
<1> DEFINE Step(u, i) == LoadedKey(fr[i].fn, IF i = 1 THEN RootKey ELSE u[i - 1])
           A == {m \in Nat : \E u : u = [i \in 1 .. m |-> Step(u, i)]}
           key == CHOOSE u : u = [i \in 1 .. Len(fr) |-> Step(u, i)]
<1>1. Len(fr) \in Nat
  BY LenProperties
<1>2. 0 \in A
  <2>1. [i \in 1 .. 0 |-> <<>>] = [i \in 1 .. 0 |-> Step([k \in 1 .. 0 |-> <<>>], i)]
    OBVIOUS
  <2> QED
    BY <2>1
<1>3. ASSUME NEW m \in Nat, m \in A PROVE m + 1 \in A
  <2>1. PICK u : u = [i \in 1 .. m |-> Step(u, i)]
    BY <1>3
  <2> DEFINE v == [i \in 1 .. m + 1 |-> IF i = m + 1 THEN Step(u, i) ELSE u[i]]
  <2>2. \A i \in 1 .. m + 1 : v[i] = Step(v, i)
    <3> TAKE i \in 1 .. m + 1
    <3>1. i # 1 => v[i - 1] = u[i - 1]
      OBVIOUS
    <3>2. Step(v, i) = Step(u, i)
      BY <3>1
    <3>3. i # m + 1 => i \in 1 .. m
      OBVIOUS
    <3>4. \A k \in 1 .. m : u[k] = Step(u, k)
      <4> HIDE DEF Step
      <4> QED
        BY <2>1
    <3> HIDE DEF Step
    <3> QED
      BY <3>2, <3>3, <3>4
  <2>3. v = [i \in 1 .. m + 1 |-> Step(v, i)]
    <3>1. v = [i \in 1 .. m + 1 |-> v[i]]
      OBVIOUS
    <3> HIDE DEF v, Step
    <3> QED
      BY <2>2, <3>1
  <2> HIDE DEF v, Step
  <2> QED
    BY <2>3
<1>4. Len(fr) \in A
  <2> HIDE DEF A
  <2> QED
    BY <1>1, <1>2, <1>3, InductionOnNat
<1>5. LoadedChain(fr) = [i \in 1 .. Len(fr) |-> key[i]]
  BY DEF LoadedChain
<1>6. key = [i \in 1 .. Len(fr) |-> Step(key, i)]
  <2> HIDE DEF Step
  <2> QED
    BY <1>4
<1>7. \A i \in 1 .. Len(fr) : key[i] = Step(key, i)
  <2> HIDE DEF Step, key
  <2> QED
    BY <1>6
<1>8. \A i \in 1 .. Len(fr) : key[i][1] = fr[i].fn
  <2> HIDE DEF key
  <2> QED
    BY <1>7 DEF LoadedKey
<1> HIDE DEF key
<1> QED
  BY <1>5, <1>8

\* Every key that a hook fetches is of a function, the root or the collector.
LEMMA FetchedNames ==
  ASSUME NEW recs, KeysNamed(DOMAIN recs), NEW fr \in Seq(CallFrames(Funcs)),
         NEW f \in Funcs, NEW parent, NEW collect
  PROVE  /\ KeysNamed(NewKeys(fr)) /\ GCKey[1] \in Named /\ Key(f, parent)[1] \in Named
         /\ \A K : KeysNamed(K) => KeysNamed(DOMAIN Fetched(recs, K))
<1>1. GCKey[1] \in Named /\ RootKey[1] \in Named /\ Key(f, parent)[1] \in Named
  BY DEF GCKey, RootKey, Key, Named
<1>2. \A i \in 1 .. Len(fr) : fr[i].fn \in Named
  <2>1. \A i \in 1 .. Len(fr) : fr[i] \in CallFrames(Funcs)
    BY ElementOfSeq
  <2> QED
    BY <2>1 DEF CallFrames, Named
<1>3. \A k \in Range(LoadedChain(fr)) : k[1] \in Named
  BY <1>2, LoadedNames DEF Range
<1>4. KeysNamed(NewKeys(fr))
  BY <1>1, <1>3 DEF KeysNamed, NewKeys
<1>5. \A K : DOMAIN Fetched(recs, K) = DOMAIN recs \cup K
  BY DEF Fetched
<1> QED
  BY <1>1, <1>4, <1>5 DEF KeysNamed
-----------------------------------------------------------------------------
(* Scopes *)

\* What is fetched later does not change which scopes are open.
LEMMA FetchedScopes ==
  ASSUME NEW tr, NEW recs, NEW st \in [Threads -> Seq(DOMAIN recs)],
         NEW cur \in Threads \cup {None}, Scopes(tr, st, recs, cur), NEW K
  PROVE  Scopes(tr, st, Fetched(recs, K), cur)
<1> DEFINE new == Fetched(recs, K)
           D == DOMAIN recs
<1>1. \A k \in D : new[k] = recs[k]
  BY DEF Fetched
<1> HIDE DEF new, D
<1>2. \A s \in Seq(D) : Shown(s, new) = Shown(s, recs)
  BY <1>1, ShownAgrees
<1>3. cur # None => Shown(st[cur], new) = Shown(st[cur], recs)
  BY <1>2 DEF D
<1>4. \A t \in Threads : st[t] # <<>> => Shown(Tail(st[t]), new) = Shown(Tail(st[t]), recs)
  <2> SUFFICES ASSUME NEW t \in Threads, st[t] # <<>>
               PROVE  Shown(Tail(st[t]), new) = Shown(Tail(st[t]), recs)
    OBVIOUS
  <2>1. PICK s \in Seq(D) : s = st[t]
    BY DEF D
  <2>2. Tail(s) \in Seq(D)
    BY <2>1, HeadTailProperties
  <2> QED
    BY <1>2, <2>1, <2>2
<1>5. Scopes(tr, st, new, cur)
  BY <1>3, <1>4 DEF Scopes
<1> QED
  BY <1>5 DEF new

\* Nor does a stack that is made, with the root only, or freed.
LEMMA MadeScopes ==
  ASSUME NEW tr, NEW recs, NEW st, NEW st2, NEW cur, Scopes(tr, st, recs, cur),
         cur # None => st2[cur] = st[cur],
         \A u \in Threads : \/ st2[u] = st[u]
                            \/ st[u] = <<>> /\ u \in alive /\ (~conf.load => st2[u] = <<RootKey>>)
                            \/ st2[u] = <<>> /\ u \notin alive
  PROVE  Scopes(tr, st2, recs, cur)
<1>1. Tail(<<RootKey>>) = <<>>
  OBVIOUS
<1>2. Shown(Tail(<<RootKey>>), recs) = <<>>
  BY <1>1, ShownEmpty
<1>3. ASSUME conf.split, ~conf.load, NEW t \in Threads
      PROVE  IF st2[t] # <<>> THEN tr[t] = Shown(Tail(st2[t]), recs) ELSE t \in alive => tr[t] = <<>>
  <2>1. IF st[t] # <<>> THEN tr[t] = Shown(Tail(st[t]), recs) ELSE t \in alive => tr[t] = <<>>
    BY <1>3 DEF Scopes
  <2>2. CASE st2[t] = st[t]
    BY <2>1, <2>2
  <2>3. CASE st[t] = <<>> /\ t \in alive /\ st2[t] = <<RootKey>>
    BY <1>2, <2>1, <2>3
  <2>4. CASE st2[t] = <<>> /\ t \notin alive
    BY <2>4
  <2> QED
    BY <1>3, <2>2, <2>3, <2>4
<1> QED
  BY <1>3 DEF Scopes
-----------------------------------------------------------------------------
(* Hooks *)

\* traceevent_prehook leaves open what the running thread has open.
LEMMA PrehookScopes ==
  ASSUME IInv, KeysNamed(Keys), TracksTyped(tracks), Scopes(tracks, stack, records, current),
         NEW fr \in Seq(CallFrames(Funcs)), NEW collect \in BOOLEAN, MayCollect(Running, collect)
  PROVE  LET p == Prehook(Running, fr, collect)
         IN  /\ TracksTyped(p.tracks) /\ KeysNamed(DOMAIN p.records)
             /\ Scopes(p.tracks, p.stack, p.records, Running)
<1> DEFINE t == Running
           p == Prehook(t, fr, collect)
           new == stack[t] = <<>>
           K == (IF new THEN NewKeys(fr) ELSE {}) \cup (IF collect THEN {GCKey} ELSE {})
           recs == Fetched(records, K)
           stacks == [u \in Threads |->
                        IF u = t THEN IF new THEN NewStack(fr) ELSE stack[t]
                        ELSE IF collect /\ Dead(u) THEN <<>> ELSE stack[u]]
           cleared == IF current = None THEN tracks ELSE ClearStack(tracks, stack[current], recs)
<1>1. LuaTyped /\ ProfileTyped /\ ChainAlive /\ CurrentKept
  BY DEF IInv
<1>2. t \in alive /\ t \in Threads /\ alive \subseteq Threads /\ t # None
  BY <1>1, RunningAlive, TraceInstrumentAssumption DEF LuaTyped
<1>3. /\ p.records = recs /\ p.stack = stacks
      /\ p.tracks = IF t = current THEN tracks ELSE AppendStack(cleared, stacks[t], recs)
  BY DEF Prehook
<1>4. DOMAIN recs = DOMAIN records \cup K
  BY DEF Fetched
<1>5. KeysNamed(DOMAIN recs)
  <2>1. ResumeFn \in Funcs
    BY TraceInstrumentAssumption DEF Funcs
  <2>2. KeysNamed(NewKeys(fr)) /\ GCKey[1] \in Named
    BY <2>1, FetchedNames DEF Keys
  <2>3. KeysNamed(K)
    BY <2>2 DEF KeysNamed
  <2> QED
    BY <1>4, <2>3 DEF KeysNamed, Keys
<1>6. stack \in [Threads -> Seq(DOMAIN records)] /\ current \in Threads \cup {None}
  BY <1>1 DEF ProfileTyped, Keys
<1>7. Scopes(tracks, stack, recs, current)
  BY <1>6, FetchedScopes
<1>8. stack \in [Threads -> Seq(DOMAIN recs)]
  <2>1. DOMAIN records \subseteq DOMAIN recs
    BY <1>4
  <2> HIDE DEF recs
  <2> QED
    BY <1>6, <2>1, SeqMonotonic
<1>9. stacks \in [Threads -> Seq(DOMAIN recs)]
  <2>1. p.stack \in [Threads -> Seq(DOMAIN p.records)]
    BY PrehookType
  <2> HIDE DEF p, recs, stacks
  <2> QED
    BY <1>3, <2>1
<1>10. \A u \in Threads : \/ stacks[u] = stack[u]
                          \/ stack[u] = <<>> /\ u \in alive /\ (~conf.load => stacks[u] = <<RootKey>>)
                          \/ stacks[u] = <<>> /\ u \notin alive
  <2>1. ~conf.load => NewStack(fr) = <<RootKey>>
    <3>1. <<RootKey>> \o <<>> = <<RootKey>>
      OBVIOUS
    <3> QED
      BY <3>1 DEF NewStack
  <2> QED
    BY <1>2, <2>1 DEF Dead
<1>11. current # None =>
         stacks[current] = stack[current] \/ (current # t /\ stacks[current] = <<>>)
  <2>1. current # None => current \in Threads /\ stack[current] # <<>>
    BY <1>1, <1>6 DEF CurrentKept
  <2> QED
    BY <2>1
<1> HIDE DEF recs, stacks, K
<1>12. CASE t = current
  <2>1. stacks[t] = stack[t]
    BY <1>2, <1>11, <1>12
  <2>2. Scopes(tracks, stacks, recs, t)
    BY <1>7, <1>10, <1>12, <2>1, MadeScopes
  <2> QED
    BY <1>3, <1>5, <1>12, <2>2
<1>13. CASE t # current
  <2>1. TracksTyped(cleared) /\ Scopes(cleared, stack, recs, None)
    <3>1. CASE current = None
      BY <1>7, <3>1
    <3>2. CASE current # None
      <4>1. current \in Threads /\ stack[current] \in Seq(DOMAIN recs)
        BY <1>6, <1>8, <3>2
      <4>2. TracksTyped(ClearStack(tracks, stack[current], recs))
        BY <1>5, <4>1, ClearType
      <4>3. Scopes(ClearStack(tracks, stack[current], recs), stack, recs, None)
        BY <1>5, <1>7, <1>8, <4>1, ClearScopes
      <4> QED
        BY <3>2, <4>2, <4>3
    <3> QED
      BY <3>1, <3>2
  <2> HIDE DEF cleared
  <2>2. Scopes(cleared, stacks, recs, None)
    <3>1. PICK c : c = None
      OBVIOUS
    <3>2. Scopes(cleared, stack, recs, c) /\ (c # None => stacks[c] = stack[c])
      BY <2>1, <3>1
    <3>3. Scopes(cleared, stacks, recs, c)
      BY <1>10, <3>2, MadeScopes
    <3> QED
      BY <3>1, <3>3
  <2>3. Scopes(AppendStack(cleared, stacks[t], recs), stacks, recs, t)
    BY <1>2, <1>5, <1>9, <2>1, <2>2, AppendScopes
  <2>4. stacks[t] \in Seq(DOMAIN recs)
    BY <1>2, <1>9
  <2>5. TracksTyped(AppendStack(cleared, stacks[t], recs))
    BY <1>5, <2>1, <2>4, ClearType
  <2> QED
    BY <1>3, <1>5, <1>13, <2>3, <2>5
<1> QED
  BY <1>12, <1>13

\* One function in, with its begin event.
LEMMA PushedScopes ==
  ASSUME NEW p, NEW t \in Threads, NEW key, key[1] \in Named,
         TracksTyped(p.tracks), KeysNamed(DOMAIN p.records),
         p.stack \in [Threads -> Seq(DOMAIN p.records)], p.stack[t] # <<>>,
         Scopes(p.tracks, p.stack, p.records, t), Pushed(p, t, key)
  PROVE  /\ TracksTyped(tracks') /\ KeysNamed(DOMAIN records')
         /\ status' = "running" => Scopes(tracks', stack', records', t)
<1> DEFINE recs == Fetched(p.records, {key})
           w == Shown(<<key>>, recs)
           k == TrackOf(t)
<1>1. DOMAIN recs = DOMAIN p.records \cup {key} /\ key \in DOMAIN recs
  BY DEF Fetched
<1>2. KeysNamed(DOMAIN recs)
  BY <1>1 DEF KeysNamed
<1>3. Scopes(p.tracks, p.stack, recs, t)
  BY FetchedScopes
<1>4. p.stack \in [Threads -> Seq(DOMAIN recs)]
  <2>1. DOMAIN p.records \subseteq DOMAIN recs
    BY <1>1
  <2> HIDE DEF recs
  <2> QED
    BY <2>1, SeqMonotonic
<1>5. k \in Tracks /\ k \in Threads /\ k # FrameTrack
  BY TracksApart DEF TrackOf, Tracks
<1>6. records' = recs
  BY DEF Pushed
<1> HIDE DEF recs
<1>7. <<key>> \in Seq(DOMAIN recs)
  BY <1>1
<1>8. w \in Seq(Marks)
  BY <1>2, <1>7, ShownMarks
<1>9. CASE ~HasRoom(p.stack[t])
  <2>1. tracks' = p.tracks /\ status' = "error"
    BY <1>9 DEF Pushed
  <2> QED
    BY <1>2, <1>6, <2>1
<1>10. CASE HasRoom(p.stack[t])
  <2>1. PICK s \in Seq(DOMAIN recs) : s = p.stack[t] /\ s # <<>>
    BY <1>4
  <2>2. stack' = [p.stack EXCEPT ![t] = Append(s, key)] /\ tracks' = Begun(p.tracks, k, w)
    BY <1>10, <2>1 DEF Pushed, recs
  <2>3. /\ TracksTyped(tracks') /\ tracks'[k] = p.tracks[k] \o w
        /\ \A j \in Tracks \ {k} : tracks'[j] = p.tracks[j]
    BY <1>5, <1>8, <2>2, BegunType
  <2>4. /\ Shown(Append(s, key), recs) = Shown(s, recs) \o w
        /\ Shown(Tail(Append(s, key)), recs) = Shown(Tail(s), recs) \o w
    BY <1>1, <2>1, ShownAppend
  <2>5. stack'[t] = Append(s, key) /\ \A u \in Threads \ {t} : stack'[u] = p.stack[u]
    BY <2>2
  <2>6. Append(s, key) # <<>>
    BY <1>1, <2>1, AppendProperties
  <2>7. t # None
    BY TraceInstrumentAssumption
  <2> HIDE DEF w, k
  <2>8. tracks'[FrameTrack] = IF conf.draw THEN <<FrameTrack>> ELSE <<>>
    BY <1>3, <1>5, <2>3, <2>7, TracksApart DEF Scopes
  <2>9. ASSUME ~conf.split
        PROVE  /\ tracks'[Main] = <<Routine>> \o Shown(stack'[t], recs)
               /\ \A u \in Threads \ {Main} : tracks'[u] = <<>>
    <3>1. k = Main
      BY <2>9 DEF TrackOf, k
    <3>2. p.tracks[Main] = <<Routine>> \o Shown(s, recs)
      BY <1>3, <2>1, <2>7, <2>9 DEF Scopes
    <3>3. PICK a \in Seq(Marks), b \in Seq(Marks) :
            a = <<Routine>> /\ b = Shown(s, recs)
      <4>1. Shown(s, recs) \in Seq(Marks)
        BY <1>2, ShownMarks
      <4>2. <<Routine>> \in Seq(Marks)
        BY DEF Marks
      <4> QED
        BY <4>1, <4>2
    <3>4. (a \o b) \o w = a \o (b \o w)
      BY <1>8, MarksAssociative
    <3>5. tracks'[Main] = <<Routine>> \o Shown(stack'[t], recs)
      BY <2>3, <2>4, <2>5, <3>1, <3>2, <3>3, <3>4
    <3>6. \A u \in Threads \ {Main} : tracks'[u] = <<>>
      BY <1>3, <2>3, <2>9, <3>1 DEF Scopes, Tracks
    <3> QED
      BY <3>5, <3>6
  <2>10. ASSUME conf.split, ~conf.load, NEW u \in Threads
         PROVE  IF stack'[u] # <<>> THEN tracks'[u] = Shown(Tail(stack'[u]), recs)
                ELSE u \in alive => tracks'[u] = <<>>
    <3>1. k = t
      BY <2>10 DEF TrackOf, k
    <3>2. IF p.stack[u] # <<>> THEN p.tracks[u] = Shown(Tail(p.stack[u]), recs)
          ELSE u \in alive => p.tracks[u] = <<>>
      BY <1>3, <2>10 DEF Scopes
    <3>3. CASE u = t
      BY <2>1, <2>3, <2>4, <2>5, <2>6, <3>1, <3>2, <3>3
    <3>4. CASE u # t
      BY <2>3, <2>5, <3>1, <3>2, <3>4 DEF Tracks
    <3> QED
      BY <3>3, <3>4
  <2>11. Scopes(tracks', stack', recs, t)
    BY <2>7, <2>8, <2>9, <2>10 DEF Scopes
  <2> QED
    BY <1>2, <1>6, <2>3, <2>11
<1> QED
  BY <1>9, <1>10

\* Functions out, as far as m entries, with their end events.
LEMMA PoppedScopes ==
  ASSUME NEW p, NEW t \in Threads, TracksTyped(p.tracks), KeysNamed(DOMAIN p.records),
         p.stack \in [Threads -> Seq(DOMAIN p.records)],
         Scopes(p.tracks, p.stack, p.records, t),
         NEW m \in 1 .. Len(p.stack[t]), Popped(p, t, SubSeq(p.stack[t], 1, m))
  PROVE  /\ TracksTyped(tracks') /\ KeysNamed(DOMAIN records')
         /\ Scopes(tracks', stack', records', t)
<1> DEFINE recs == p.records
           closed == SubSeq(p.stack[t], m + 1, Len(p.stack[t]))
           w == Shown(closed, recs)
           k == TrackOf(t)
<1>1. PICK s \in Seq(DOMAIN recs) : s = p.stack[t] /\ m \in 1 .. Len(s)
  OBVIOUS
<1>2. PICK left \in Seq(DOMAIN recs) : left = SubSeq(s, 1, m) /\ Len(left) = m
  <2>1. m \in 0 .. Len(s)
    BY <1>1, LenProperties
  <2> QED
    BY <2>1, PrefixType
<1>3. closed \in Seq(DOMAIN recs)
  <2>1. m \in 0 .. Len(s)
    BY <1>1, LenProperties
  <2>2. SubSeq(s, m + 1, Len(s)) \in Seq(DOMAIN recs)
    BY <2>1, RestType
  <2> QED
    BY <1>1, <2>2
<1>4. /\ stack' = [p.stack EXCEPT ![t] = left] /\ records' = recs
      /\ tracks' = Ended(p.tracks, k, w)
  BY <1>1, <1>2 DEF Popped
<1>5. k \in Tracks /\ k \in Threads /\ k # FrameTrack
  BY TracksApart DEF TrackOf, Tracks
<1>6. /\ Shown(s, recs) = Shown(left, recs) \o w
      /\ Shown(Tail(s), recs) = Shown(Tail(left), recs) \o w
  <2>1. m \in 0 .. Len(s)
    BY <1>1, LenProperties
  <2>2. Shown(s, recs) = Shown(SubSeq(s, 1, m), recs) \o Shown(SubSeq(s, m + 1, Len(s)), recs)
    BY <2>1, ShownSplit
  <2>3. Shown(Tail(s), recs) = Shown(Tail(SubSeq(s, 1, m)), recs)
                               \o Shown(SubSeq(s, m + 1, Len(s)), recs)
    BY <1>1, ShownTailSplit
  <2> QED
    BY <1>1, <1>2, <2>2, <2>3
<1> HIDE DEF closed
<1>7. w \in Seq(Marks)
  BY <1>3, ShownMarks
<1>8. left # <<>> /\ s # <<>> /\ Tail(left) \in Seq(DOMAIN recs)
  <2>1. left # <<>> /\ s # <<>>
    <3>1. Len(s) \in Nat /\ Len(s) >= 1 /\ Len(left) = m /\ m >= 1
      BY <1>1, <1>2, LenProperties
    <3>2. Len(s) # 0 /\ Len(left) # 0
      BY <3>1
    <3> QED
      BY <3>2, EmptySeq
  <2> QED
    BY <2>1, HeadTailProperties
<1>9. t # None
  BY TraceInstrumentAssumption
<1>10. PICK x \in Seq(Marks), y \in Seq(Marks), z \in Seq(Marks) :
         x = <<Routine>> /\ y = Shown(left, recs) /\ z = Shown(Tail(left), recs)
  <2>1. Shown(left, recs) \in Seq(Marks) /\ Shown(Tail(left), recs) \in Seq(Marks)
    BY <1>8, ShownMarks
  <2>2. <<Routine>> \in Seq(Marks)
    BY DEF Marks
  <2> QED
    BY <2>1, <2>2
<1>11. TracksTyped(tracks') /\ \A j \in Tracks \ {k} : tracks'[j] = p.tracks[j]
  BY <1>4, <1>5, <1>7, EndedType
<1>12. stack'[t] = left /\ \A u \in Threads \ {t} : stack'[u] = p.stack[u]
  BY <1>4
<1> HIDE DEF w, k
<1>13. tracks'[FrameTrack] = IF conf.draw THEN <<FrameTrack>> ELSE <<>>
  BY <1>5, <1>9, <1>11, TracksApart DEF Scopes
<1>14. ASSUME ~conf.split
       PROVE  /\ tracks'[Main] = <<Routine>> \o Shown(stack'[t], recs)
              /\ \A u \in Threads \ {Main} : tracks'[u] = <<>>
  <2>1. k = Main
    BY <1>14 DEF TrackOf, k
  <2>2. p.tracks[Main] = x \o (y \o w)
    BY <1>1, <1>6, <1>9, <1>10, <1>14 DEF Scopes
  <2>3. PICK a \in Seq(Marks) : a = x \o y
    BY ConcatProperties
  <2>4. p.tracks[k] = a \o w
    <3>1. \A v \in Seq(Marks) : (x \o y) \o v = x \o (y \o v)
      BY MarksAssociative
    <3>2. (x \o y) \o w = x \o (y \o w)
      BY <1>7, <3>1, Zenon
    <3> QED
      BY <2>1, <2>2, <2>3, <3>2, Zenon
  <2>5. tracks' = [p.tracks EXCEPT ![k] = a]
    BY <1>4, <1>5, <1>7, <2>4, EndedMatch
  <2>6. tracks'[Main] = a
    BY <1>5, <2>1, <2>5 DEF TracksTyped
  <2>7. \A u \in Threads \ {Main} : tracks'[u] = <<>>
    BY <1>11, <1>14, <2>1 DEF Scopes, Tracks
  <2> QED
    BY <1>10, <1>12, <2>3, <2>6, <2>7
<1>15. ASSUME conf.split, ~conf.load, NEW u \in Threads
       PROVE  IF stack'[u] # <<>> THEN tracks'[u] = Shown(Tail(stack'[u]), recs)
              ELSE u \in alive => tracks'[u] = <<>>
  <2>1. k = t
    BY <1>15 DEF TrackOf, k
  <2>2. IF p.stack[u] # <<>> THEN p.tracks[u] = Shown(Tail(p.stack[u]), recs)
        ELSE u \in alive => p.tracks[u] = <<>>
    BY <1>15 DEF Scopes
  <2>3. CASE u = t
    <3>1. p.tracks[k] = z \o w
      BY <1>1, <1>6, <1>8, <1>10, <2>1, <2>2, <2>3
    <3>2. tracks' = [p.tracks EXCEPT ![k] = z]
      BY <1>4, <1>5, <1>7, <3>1, EndedMatch
    <3>3. tracks'[u] = z
      BY <1>5, <2>1, <2>3, <3>2 DEF TracksTyped
    <3> QED
      BY <1>8, <1>10, <1>12, <2>3, <3>3
  <2>4. CASE u # t
    BY <1>11, <1>12, <2>1, <2>2, <2>4 DEF Tracks
  <2> QED
    BY <2>3, <2>4
<1>16. Scopes(tracks', stack', recs, t)
  BY <1>9, <1>13, <1>14, <1>15 DEF Scopes
<1> QED
  BY <1>4, <1>11, <1>16

\* Above the first r entries of s, the root among them, the next is the last one
\* of f; none is if the root alone is left.
Below(s, f, r) ==
  \/ (\A j \in 2 .. Len(s) : s[j][1] # f) /\ r = 1
  \/ /\ r + 1 \in 2 .. Len(s) /\ s[r + 1][1] = f
     /\ \A j \in r + 2 .. Len(s) : s[j][1] # f

\* The entries left of r when n more return.
Fewer(r, n) == IF r - n <= 1 THEN 1 ELSE r - n

\* A return leaves what is below the last entry of its function, and its tail
\* returns one entry less each.
LEMMA ReturnParts ==
  ASSUME NEW K, NEW s \in Seq(K), s # <<>>, NEW f, NEW n \in Nat
  PROVE  \E r \in 1 .. Len(s) : \E q \in 1 .. r :
           /\ AfterTails(AfterReturn(s, f), n) = SubSeq(s, 1, q)
           /\ q = Fewer(r, n)
           /\ Below(s, f, r)
<1> DEFINE matches == {i \in 2 .. Len(s) : s[i][1] = f}
           m == IF matches = {} THEN 1 ELSE Max(matches) - 1
           r == AfterReturn(s, f)
           k == Max({1, Len(r) - n})
<1>1. Len(s) \in Nat \ {0}
  BY EmptySeq
<1>2. /\ m \in 1 .. Len(s)
      /\ \/ (\A j \in 2 .. Len(s) : s[j][1] # f) /\ m = 1
         \/ /\ m + 1 \in 2 .. Len(s) /\ s[m + 1][1] = f
            /\ \A j \in m + 2 .. Len(s) : s[j][1] # f
  <2>1. CASE matches = {}
    BY <1>1, <2>1
  <2>2. CASE matches # {}
    <3>1. Max(matches) \in matches /\ \A x \in matches : Max(matches) >= x
      <4>1. matches \in SUBSET (1 .. Len(s))
        BY <1>1
      <4> HIDE DEF matches
      <4> QED
        BY <1>1, <2>2, <4>1, MaxIn
    <3>2. PICK x \in 2 .. Len(s) :
            x = Max(matches) /\ s[x][1] = f /\ \A y \in 2 .. Len(s) : s[y][1] = f => x >= y
      BY <3>1
    <3>3. m = x - 1
      BY <2>2, <3>2
    <3> HIDE DEF m
    <3>4. m \in 1 .. Len(s) /\ m + 1 = x
      BY <1>1, <3>3
    <3> QED
      BY <1>1, <3>2, <3>4
  <2> QED
    BY <2>1, <2>2
<1>3. r = SubSeq(s, 1, m)
  BY DEF AfterReturn
<1> HIDE DEF m, r
<1>4. /\ m \in 0 .. Len(s) /\ r \in Seq(K) /\ Len(r) = m
      /\ \A i \in 1 .. m : r[i] = s[i]
  BY <1>1, <1>2, <1>3, PrefixType
<1>5. k \in 1 .. Len(r) /\ k = IF m - n <= 1 THEN 1 ELSE m - n
  <2>1. Len(r) \in Nat /\ Len(r) >= 1
    BY <1>1, <1>2, <1>4
  <2>2. Max({1, Len(r) - n}) = IF Len(r) - n <= 1 THEN 1 ELSE Len(r) - n
    BY <2>1 DEF Max
  <2> QED
    BY <1>4, <2>1, <2>2
<1>6. AfterTails(r, n) = SubSeq(r, 1, k)
  BY DEF AfterTails
<1> HIDE DEF k
<1>7. k \in 1 .. m /\ k \in 0 .. Len(s) /\ k \in 0 .. Len(r) /\ \A i \in 1 .. k : i \in 1 .. m
  BY <1>1, <1>2, <1>4, <1>5
<1>8. SubSeq(r, 1, k) = SubSeq(s, 1, k)
  <2> DEFINE a == SubSeq(r, 1, k)
             b == SubSeq(s, 1, k)
  <2>1. a \in Seq(K) /\ Len(a) = k /\ \A i \in 1 .. k : a[i] = r[i]
    BY <1>4, <1>7, PrefixType
  <2>2. b \in Seq(K) /\ Len(b) = k /\ \A i \in 1 .. k : b[i] = s[i]
    BY <1>7, PrefixType
  <2> HIDE DEF a, b
  <2>3. \A i \in 1 .. k : a[i] = b[i]
    BY <1>4, <1>7, <2>1, <2>2
  <2>4. a = b
    BY <2>1, <2>2, <2>3, SeqEqual
  <2> QED
    BY <2>4 DEF a, b
<1>9. AfterTails(AfterReturn(s, f), n) = SubSeq(s, 1, k)
  BY <1>6, <1>8 DEF r
<1>10. Below(s, f, m) /\ k = Fewer(m, n)
  BY <1>2, <1>5 DEF Below, Fewer
<1> QED
  BY <1>2, <1>7, <1>9, <1>10

\* So they leave a beginning of the stack.
LEMMA ReturnPrefix ==
  ASSUME NEW K, NEW s \in Seq(K), s # <<>>, NEW f, NEW n \in Nat
  PROVE  \E m \in 1 .. Len(s) : AfterTails(AfterReturn(s, f), n) = SubSeq(s, 1, m)
<1>1. PICK r \in 1 .. Len(s) : \E q \in 1 .. r : AfterTails(AfterReturn(s, f), n) = SubSeq(s, 1, q)
  BY ReturnParts
<1>2. PICK q \in 1 .. r : AfterTails(AfterReturn(s, f), n) = SubSeq(s, 1, q)
  BY <1>1
<1>3. q \in 1 .. Len(s)
  BY <1>1, LenProperties
<1> QED
  BY <1>2, <1>3
-----------------------------------------------------------------------------
(* Steps *)

\* What the event list shows of the stacks, with the keys it shows them by.
Traced ==
  /\ KeysNamed(Keys) /\ TracksTyped(tracks)
  /\ paused => current # None
  /\ status = "running" => Scopes(tracks, stack, records, IF paused THEN None ELSE current)
  /\ MergedStops

\* The death of a thread opens and closes nothing.
LEMMA LaterScopes ==
  ASSUME UNCHANGED conf, alive' \subseteq alive, Scopes(tracks', stack', records', current')
  PROVE  Scopes(tracks, stack, records, current)'
BY DEF Scopes

\* What is closed for good, in a stop or in the end of a C client.
LEMMA ClosedScopes ==
  ASSUME UNCHANGED conf, NEW st, NEW recs, Scopes(tracks', st, recs, None)
  PROVE  MergedStops'
BY TraceInstrumentAssumption DEF Scopes, MergedStops

\* A call event.
LEMMA CallTraced ==
  ASSUME IInv, Traced, Hooks, NEW f \in Funcs, NEW collect \in BOOLEAN,
         calls' \in [Threads -> Seq(CallFrames(Funcs))], alive' \subseteq alive,
         CallHook(Running, f, collect)
  PROVE  Traced'
<1> DEFINE t == Running
           p == Prehook(t, calls'[t], collect)
           key == Key(f, Top(p.stack[t]))
<1>1. t \in Threads /\ t # None
  BY RunningAlive, TraceInstrumentAssumption DEF IInv
<1>2. /\ MayCollect(t, collect) /\ Pushed(p, t, key) /\ current' = t
      /\ UNCHANGED <<conf, paused>> /\ ~paused
  BY DEF CallHook, Hooks
<1>3. calls'[t] \in Seq(CallFrames(Funcs)) /\ Scopes(tracks, stack, records, current)
  BY <1>1 DEF Traced, Hooks
<1>4. /\ p.records \in [DOMAIN p.records -> BOOLEAN]
      /\ p.stack \in [Threads -> Seq(DOMAIN p.records)] /\ p.stack[t] # <<>>
  BY <1>2, <1>3, PrehookType
<1>5. TracksTyped(p.tracks) /\ KeysNamed(DOMAIN p.records) /\ Scopes(p.tracks, p.stack, p.records, t)
  BY <1>2, <1>3, PrehookScopes DEF Traced
<1>6. key[1] \in Named
  BY DEF Key, Named
<1>7. status' \in {"running", "error"}
  BY <1>2 DEF Pushed, Hooks
<1> HIDE DEF p, key, t
<1>8. /\ TracksTyped(tracks') /\ KeysNamed(DOMAIN records')
      /\ status' = "running" => Scopes(tracks', stack', records', t)
  BY <1>1, <1>2, <1>4, <1>5, <1>6, PushedScopes
<1>9. status' = "running" => Scopes(tracks, stack, records, current)'
  BY <1>2, <1>8, LaterScopes
<1>10. TracksTyped(tracks)' /\ KeysNamed(Keys)'
  BY <1>8 DEF TracksTyped, KeysNamed, Keys
<1>11. ~paused'
  BY <1>2
<1>12. (status = "running" => Scopes(tracks, stack, records, IF paused THEN None ELSE current))'
  BY <1>9, <1>11
<1>13. MergedStops'
  BY <1>7 DEF MergedStops
<1> QED
  BY <1>10, <1>11, <1>12, <1>13 DEF Traced

\* A return event.
LEMMA ReturnTraced ==
  ASSUME IInv, Traced, NEW collect \in BOOLEAN, Return(collect), alive' \subseteq alive
  PROVE  Traced'
<1> DEFINE t == Running
           p == Prehook(t, calls[t], collect)
           tails == IF conf.vm = "puc51" THEN Len(calls[t]) - 1 - Len(Left(calls[t])) ELSE 0
           left == AfterTails(AfterReturn(p.stack[t], Top(calls[t]).fn), tails)
<1>1. t \in Threads /\ t # None /\ calls \in [Threads -> Seq(CallFrames(Funcs))]
  BY RunningAlive, TraceInstrumentAssumption DEF IInv, LuaTyped, CallFrames
<1>2. /\ MayCollect(t, collect) /\ Popped(p, t, left) /\ current' = t /\ calls[t] # <<>>
      /\ UNCHANGED <<conf, paused, status>> /\ ~paused /\ status = "running"
  BY DEF Return, Hooks
<1>3. PICK c \in Seq(CallFrames(Funcs)) : c = calls[t]
  BY <1>1
<1>4. Scopes(tracks, stack, records, current)
  BY <1>2 DEF Traced
<1>5. /\ p.records \in [DOMAIN p.records -> BOOLEAN]
      /\ p.stack \in [Threads -> Seq(DOMAIN p.records)] /\ p.stack[t] # <<>>
  BY <1>2, <1>3, PrehookType
<1>6. TracksTyped(p.tracks) /\ KeysNamed(DOMAIN p.records) /\ Scopes(p.tracks, p.stack, p.records, t)
  BY <1>2, <1>3, <1>4, PrehookScopes DEF Traced
<1>7. tails \in Nat
  BY <1>2, <1>3, LeftType
<1> HIDE DEF p, tails, t
<1>8. PICK m \in 1 .. Len(p.stack[t]) : left = SubSeq(p.stack[t], 1, m)
  <2>1. PICK s \in Seq(DOMAIN p.records) : s = p.stack[t] /\ s # <<>>
    BY <1>1, <1>5
  <2>2. \E m \in 1 .. Len(s) : AfterTails(AfterReturn(s, Top(calls[t]).fn), tails) = SubSeq(s, 1, m)
    BY <1>7, <2>1, ReturnPrefix
  <2> QED
    BY <2>1, <2>2
<1> HIDE DEF left
<1>9. TracksTyped(tracks') /\ KeysNamed(DOMAIN records') /\ Scopes(tracks', stack', records', t)
  <2>1. Popped(p, t, SubSeq(p.stack[t], 1, m))
    BY <1>2, <1>8
  <2> QED
    BY <1>1, <1>5, <1>6, <2>1, PoppedScopes
<1>10. Scopes(tracks, stack, records, current)'
  BY <1>2, <1>9, LaterScopes
<1>11. TracksTyped(tracks)' /\ KeysNamed(Keys)'
  BY <1>9 DEF TracksTyped, KeysNamed, Keys
<1>12. ~paused' /\ status' = "running"
  BY <1>2
<1>13. (status = "running" => Scopes(tracks, stack, records, IF paused THEN None ELSE current))'
  BY <1>10, <1>12
<1> QED
  BY <1>11, <1>12, <1>13 DEF Traced, MergedStops

\* The call event of stop.
LEMMA StopTraced ==
  ASSUME IInv, Traced, NEW collect \in BOOLEAN, Stop(collect)
  PROVE  Traced'
<1> DEFINE t == Running
           p == Prehook(t, calls[t], collect)
<1>1. t \in Threads /\ t # None /\ calls \in [Threads -> Seq(CallFrames(Funcs))]
  BY RunningAlive, TraceInstrumentAssumption DEF IInv, LuaTyped, CallFrames
<1>2. /\ MayCollect(t, collect) /\ UNCHANGED <<conf, paused>> /\ ~paused
      /\ status = "running" /\ status' = "stopped" /\ records' = p.records
      /\ tracks' = ClearStack(p.tracks, p.stack[t], p.records)
  BY DEF Stop, MayCall, Hooks
<1>3. PICK c \in Seq(CallFrames(Funcs)) : c = calls[t]
  BY <1>1
<1>4. Scopes(tracks, stack, records, current)
  BY <1>2 DEF Traced
<1>5. p.stack \in [Threads -> Seq(DOMAIN p.records)]
  BY <1>2, <1>3, PrehookType
<1>6. TracksTyped(p.tracks) /\ KeysNamed(DOMAIN p.records) /\ Scopes(p.tracks, p.stack, p.records, t)
  BY <1>2, <1>3, <1>4, PrehookScopes DEF Traced
<1> HIDE DEF p, t
<1>7. Scopes(tracks', p.stack, p.records, None)
  BY <1>1, <1>2, <1>5, <1>6, ClearScopes
<1>8. TracksTyped(tracks')
  <2>1. p.stack[t] \in Seq(DOMAIN p.records)
    BY <1>1, <1>5
  <2> QED
    BY <1>2, <1>6, <2>1, ClearType
<1>9. MergedStops'
  BY <1>2, <1>7, ClosedScopes
<1>10. TracksTyped(tracks)' /\ KeysNamed(Keys)'
  BY <1>2, <1>6, <1>8 DEF TracksTyped, KeysNamed, Keys
<1>11. ~paused' /\ status' # "running"
  BY <1>2
<1> QED
  BY <1>9, <1>10, <1>11 DEF Traced

\* A step that fires no hook: the program's own, and the client's.
LEMMA ClientTraced ==
  ASSUME IInv, Traced, UNCHANGED <<conf, current, stack, records>>, alive' \subseteq alive,
         \/ UNCHANGED <<status, paused, tracks>>
         \/ PauseExecution \/ ResumeExecution \/ PausedEvent \/ CollectWithoutRoom \/ Finalize
  PROVE  Traced'
<1>1. /\ stack \in [Threads -> Seq(DOMAIN records)] /\ current \in Threads \cup {None}
      /\ KeysNamed(DOMAIN records) /\ KeysNamed(Keys)' /\ TracksTyped(tracks)
      /\ current # None => stack[current] \in Seq(DOMAIN records)
  BY DEF IInv, ProfileTyped, Traced, Keys, KeysNamed
<1>2. CASE UNCHANGED <<status, paused, tracks>>
  <2>1. Traced
    OBVIOUS
  <2> QED
    BY <1>2, <2>1 DEF Traced, TracksTyped, KeysNamed, Keys, Scopes, MergedStops
<1>3. CASE PauseExecution
  <2>1. /\ current \in Threads /\ current # None /\ status' = "running" /\ paused'
        /\ tracks' = ClearStack(tracks, stack[current], records)
        /\ Scopes(tracks, stack, records, current)
    BY <1>1, <1>3 DEF PauseExecution, Hooks, Traced
  <2>2. TracksTyped(tracks') /\ Scopes(tracks', stack, records, None)
    BY <1>1, <2>1, ClearType, ClearScopes
  <2>3. Scopes(tracks, stack, records, None)'
    BY <2>2 DEF Scopes
  <2>4. (status = "running" => Scopes(tracks, stack, records, IF paused THEN None ELSE current))'
    BY <2>1, <2>3
  <2> QED
    BY <1>1, <2>1, <2>2, <2>4 DEF Traced, TracksTyped, MergedStops
<1>4. CASE ResumeExecution
  <2>1. /\ current \in Threads /\ current # None /\ status' = "running" /\ ~paused'
        /\ tracks' = AppendStack(tracks, stack[current], records)
        /\ Scopes(tracks, stack, records, None)
    BY <1>1, <1>4 DEF ResumeExecution, Traced
  <2>2. TracksTyped(tracks') /\ Scopes(tracks', stack, records, current)
    BY <1>1, <2>1, ClearType, AppendScopes
  <2>3. Scopes(tracks', stack', records', current')
    BY <2>2
  <2>4. Scopes(tracks, stack, records, current)'
    BY <2>3, LaterScopes
  <2>5. (status = "running" => Scopes(tracks, stack, records, IF paused THEN None ELSE current))'
    BY <2>1, <2>4
  <2> QED
    BY <1>1, <2>1, <2>2, <2>5 DEF Traced, TracksTyped, MergedStops
<1>5. CASE PausedEvent \/ CollectWithoutRoom
  <2>1. /\ status' \in {"error", "crashed"} /\ UNCHANGED <<paused, tracks>>
    BY <1>5 DEF PausedEvent, CollectWithoutRoom
  <2> QED
    BY <1>1, <2>1 DEF Traced, TracksTyped, MergedStops
<1>6. CASE Finalize
  <2>1. /\ status = "running" /\ status' = "stopped" /\ ~paused /\ ~paused'
        /\ tracks' = IF current = None THEN tracks ELSE ClearStack(tracks, stack[current], records)
        /\ Scopes(tracks, stack, records, current)
    BY <1>6 DEF Finalize, Hooks, Traced
  <2>2. TracksTyped(tracks') /\ Scopes(tracks', stack, records, None)
    <3>1. CASE current = None
      BY <1>1, <2>1, <3>1
    <3>2. CASE current # None
      <4>1. current \in Threads /\ tracks' = ClearStack(tracks, stack[current], records)
        BY <1>1, <2>1, <3>2
      <4> QED
        BY <1>1, <2>1, <3>2, <4>1, ClearType, ClearScopes
    <3> QED
      BY <3>1, <3>2
  <2>3. MergedStops'
    BY <2>2, ClosedScopes
  <2> QED
    BY <1>1, <2>1, <2>2, <2>3 DEF Traced, TracksTyped
<1> QED
  BY <1>2, <1>3, <1>4, <1>5, <1>6

\* Nothing is open when profiling starts.
LEMMA InitTraced == Init => Traced
<1> SUFFICES ASSUME Init PROVE Traced
  OBVIOUS
<1>1. IInv
  BY InitIInv
<1>2. calls[Main] \in Seq(CallFrames(Funcs))
  BY <1>1, TraceInstrumentAssumption DEF IInv, LuaTyped, CallFrames
<1>3. KeysNamed(Keys)
  <2>1. DOMAIN records = NewKeys(calls[Main])
    BY DEF Init
  <2>2. KeysNamed(DOMAIN [k \in {} |-> TRUE]) /\ ResumeFn \in Funcs
    BY TraceInstrumentAssumption DEF KeysNamed, Funcs
  <2>3. KeysNamed(NewKeys(calls[Main]))
    BY <1>2, <2>2, FetchedNames
  <2> QED
    BY <2>1, <2>3 DEF Keys
<1>4. TracksTyped(tracks)
  <2>1. <<>> \in Seq(Marks)
    OBVIOUS
  <2> QED
    BY <2>1 DEF Init, TracksTyped, Tracks
<1>5. Scopes(tracks, stack, records, None)
  <2>1. \A k \in Tracks : tracks[k] = <<>>
    BY DEF Init, Tracks
  <2>2. ~conf.load => stack[Main] = <<RootKey>>
    <3>1. <<RootKey>> \o <<>> = <<RootKey>>
      OBVIOUS
    <3> QED
      BY <3>1, TraceInstrumentAssumption DEF Init, NewStack
  <2>3. Shown(Tail(<<RootKey>>), records) = <<>>
    <3>1. Tail(<<RootKey>>) = <<>>
      OBVIOUS
    <3> QED
      BY <3>1, ShownEmpty
  <2>4. \A u \in Threads \ {Main} : stack[u] = <<>>
    BY DEF Init
  <2>5. \A u \in Threads : tracks[u] = <<>>
    BY <2>1 DEF Tracks
  <2>6. ASSUME ~conf.load, NEW u \in Threads, stack[u] # <<>>
        PROVE  Shown(Tail(stack[u]), records) = <<>>
    <3>1. u = Main
      BY <2>4, <2>6
    <3> QED
      BY <2>2, <2>3, <2>6, <3>1
  <2> QED
    BY <2>1, <2>5, <2>6, TracksApart DEF Scopes
<1> QED
  BY <1>3, <1>4, <1>5 DEF Init, Traced, MergedStops

\* Every step leaves open what the stacks say.
LEMMA NextTraced ==
  ASSUME IInv, Traced, [Next]_vars
  PROVE  Traced'
<1>1. IInv'
  BY NextIInv
<1>2. LuaTyped /\ ChainAlive /\ calls' \in [Threads -> Seq(CallFrames(Funcs))]
  BY <1>1 DEF IInv, LuaTyped, CallFrames
<1>3. ResumeFn \in Funcs /\ YieldFn \in Funcs
  BY TraceInstrumentAssumption DEF Funcs
<1>4. ASSUME NEW f \in Funcs, NEW collect \in BOOLEAN, Call(f, collect) \/ TailCall(f, collect)
      PROVE  Traced'
  <2>1. Hooks /\ CallHook(Running, f, collect) /\ UNCHANGED alive
    BY <1>4 DEF Call, TailCall, MayCall
  <2> QED
    BY <1>2, <2>1, CallTraced
<1>5. ASSUME NEW u \in Threads, NEW collect \in BOOLEAN, Resume(u, collect)
      PROVE  Traced'
  <2>1. Hooks /\ CallHook(Running, ResumeFn, collect) /\ UNCHANGED alive
    BY <1>5 DEF Resume, MayCall
  <2> QED
    BY <1>2, <1>3, <2>1, CallTraced
<1>6. ASSUME NEW collect \in BOOLEAN, Yield(collect)
      PROVE  Traced'
  <2>1. Hooks /\ CallHook(Running, YieldFn, collect) /\ UNCHANGED alive
    BY <1>6 DEF Yield, MayCall
  <2> QED
    BY <1>2, <1>3, <2>1, CallTraced
<1>7. ASSUME NEW collect \in BOOLEAN, Return(collect)
      PROVE  Traced'
  <2>1. alive' \subseteq alive
    BY <1>7 DEF Return, Leave
  <2> QED
    BY <1>7, <2>1, ReturnTraced
<1>8. ASSUME NEW collect \in BOOLEAN, Stop(collect)
      PROVE  Traced'
  BY <1>8, StopTraced
<1>9. ASSUME ReturnUnseen \/ Raise \/ UNCHANGED vars \/ \E f \in Ignorable : Ignore(f)
      PROVE  Traced'
  <2>1. UNCHANGED <<conf, current, stack, records, status, paused, tracks>> /\ alive' \subseteq alive
    BY <1>9 DEF ReturnUnseen, Raise, Leave, vars, lua, Ignore
  <2> QED
    BY <2>1, ClientTraced
<1>10. ASSUME PauseExecution \/ ResumeExecution \/ PausedEvent \/ CollectWithoutRoom \/ Finalize
       PROVE  Traced'
  <2>1. UNCHANGED <<conf, current, stack, records>> /\ alive' \subseteq alive
    BY <1>10 DEF PauseExecution, ResumeExecution, PausedEvent, CollectWithoutRoom, Finalize, lua
  <2> QED
    BY <1>10, <2>1, ClientTraced
<1> QED
  BY <1>4, <1>5, <1>6, <1>7, <1>8, <1>9, <1>10 DEF Next

\* The inductive invariant of the event list: what is open on the shared
\* track, or on each thread's, is what the stacks hold.
THEOREM AlwaysTraced == Spec => [](IInv /\ Traced)
<1>1. Init => IInv /\ Traced
  BY InitIInv, InitTraced
<1>2. IInv /\ Traced /\ [Next]_vars => (IInv /\ Traced)'
  BY NextIInv, NextTraced
<1> QED
  BY <1>1, <1>2, PTL DEF Spec

\* Every variable holds a value of its kind, the event list's tracks too.
THEOREM TypeCorrect == Spec => []TypeOK
<1>1. IInv /\ Traced => TypeOK
  BY DEF IInv, Traced, TypeOK, TracksTyped, Tracks, Marks
<1> QED
  BY <1>1, AlwaysTraced, PTL

\* The begin and end events are bracketed: the scopes open in the event list
\* are the entries of the profile stacks (traceevent_scope), for any coroutines,
\* functions, ignored functions, layouts and depth.
THEOREM ScopesAlwaysOpen == Spec => []OpenScopes
<1>1. IInv /\ Traced => OpenScopes
  <2> SUFFICES ASSUME IInv, Traced, status = "running" PROVE OpenScopes
    BY DEF OpenScopes
  <2>1. /\ Scopes(tracks, stack, records, IF paused THEN None ELSE current)
        /\ paused \in BOOLEAN /\ (paused => current # None)
    BY DEF Traced, IInv, ProfileTyped
  <2> QED
    BY <2>1 DEF OpenScopes, Scopes
<1> QED
  BY <1>1, AlwaysTraced, PTL

\* A stop, and the end of a C client's session, close all that is open on the
\* track that the threads share, and the frame.
THEOREM StopsCloseAll == Spec => []MergedStops
<1>1. Traced => MergedStops
  BY DEF Traced
<1> QED
  BY <1>1, AlwaysTraced, PTL
-----------------------------------------------------------------------------
(* The stacks follow the calls *)

\* What the stack s of a thread with the calls c has of them, under the machine
\* vm; b: the top call has just caught an error.
Trails(vm, s, c, b) ==
  IF vm = "puc51" THEN Follows(FnsOf(s), Len(s), c, Pcalls, b)
  ELSE Embeds(FnsOf(s), Len(s), c)

Followed ==
  status = "running" =>
    \A t \in alive \ hostErr :
      stack[t] # <<>> /\ (~conf.load \/ t = Main) =>
        Trails(conf.vm, stack[t], calls[t], t \in caught)

\* A stack with the root alone has the calls of a thread without any.
LEMMA RootTrails ==
  ASSUME NEW k, NEW vm
  PROVE  Trails(vm, <<k>>, <<>>, FALSE)
<1>1. Len(<<k>>) = 1 /\ <<>> \in Seq(CallFrames(Funcs)) /\ Len(<<>>) = 0
  OBVIOUS
<1>2. PICK c \in Seq(CallFrames(Funcs)) : c = <<>> /\ \A i \in 1 .. Len(c) : c[i].seen = FALSE
  <2>1. \A i \in 1 .. 0 : <<>>[i].seen = FALSE
    OBVIOUS
  <2> QED
    BY <1>1, <2>1
<1>3. Follows(FnsOf(<<k>>), 1, c, Pcalls, FALSE)
  BY <1>2, FollowsNone
<1>4. Embeds(FnsOf(<<k>>), 1, c)
  BY <1>3, FollowsEmbeds
<1> QED
  BY <1>1, <1>2, <1>3, <1>4 DEF Trails

\* A call.
LEMMA CallTrails ==
  ASSUME NEW K, NEW s \in Seq(K), s # <<>>, NEW key \in K,
         NEW c \in Seq(CallFrames(Funcs)), NEW f \in Funcs, key[1] = f,
         NEW d, d = Called(c, f) \/ (c # <<>> /\ d = TailCalled(c, f)),
         NEW vm, Trails(vm, s, c, FALSE)
  PROVE  Trails(vm, Append(s, key), d, FALSE)
<1>1. PICK n \in Nat \ {0} : n = Len(s)
  BY EmptySeq
<1>2. PICK r \in Seq(K) : /\ r = Append(s, key) /\ Len(r) = n + 1 /\ r[n + 1] = key
                          /\ \A i \in 1 .. n : r[i] = s[i]
  <2>1. /\ Append(s, key) \in Seq(K) /\ Len(Append(s, key)) = Len(s) + 1
        /\ Append(s, key)[Len(s) + 1] = key
        /\ \A i \in 1 .. Len(s) : Append(s, key)[i] = s[i]
    BY AppendProperties
  <2> QED
    BY <1>1, <2>1
<1>3. Len(FnsOf(s)) = Len(s) /\ \A i \in 1 .. Len(s) : FnsOf(s)[i] = s[i][1]
  BY FnsOfType
<1>4. Len(FnsOf(r)) = Len(r) /\ \A i \in 1 .. Len(r) : FnsOf(r)[i] = r[i][1]
  BY FnsOfType
<1>5. PICK g, h : g = FnsOf(s) /\ h = FnsOf(r)
  OBVIOUS
<1>6. h[n + 1] = f /\ \A i \in 1 .. n : h[i] = g[i]
  <2>1. n + 1 \in 1 .. n + 1 /\ \A i \in 1 .. n : i \in 1 .. n + 1
    OBVIOUS
  <2> QED
    BY <1>1, <1>2, <1>3, <1>4, <1>5, <2>1
<1>7. CASE vm = "puc51"
  <2>1. Follows(g, n, c, Pcalls, FALSE)
    BY <1>1, <1>5, <1>7 DEF Trails
  <2>2. Follows(h, n + 1, d, Pcalls, FALSE)
    <3>1. \A P : Follows(g, n, c, P, FALSE) => Follows(h, n + 1, d, P, FALSE)
      BY <1>6, FollowsCalled
    <3> QED
      BY <2>1, <3>1
  <2> QED
    BY <1>2, <1>5, <1>7, <2>2 DEF Trails
<1>8. CASE vm # "puc51"
  <2>1. Embeds(g, n, c)
    BY <1>1, <1>5, <1>8 DEF Trails
  <2>2. Embeds(h, n + 1, d)
    BY <1>6, <2>1, EmbedsCalled
  <2> QED
    BY <1>2, <1>5, <1>8, <2>2 DEF Trails
<1> QED
  BY <1>7, <1>8

\* A return with its tail returns, which in PUC Lua are those of the calls that
\* were replaced.
LEMMA ReturnTrails ==
  ASSUME NEW K, NEW s \in Seq(K), s # <<>>, NEW c \in Seq(CallFrames(Funcs)), c # <<>>,
         NEW vm, NEW b \in BOOLEAN, Trails(vm, s, c, b),
         NEW tails, tails = IF vm = "puc51" THEN Len(c) - 1 - Len(Left(c)) ELSE 0
  PROVE  Trails(vm, AfterTails(AfterReturn(s, Top(c).fn), tails), Left(c), FALSE)
<1>1. PICK n \in Nat \ {0} : n = Len(s)
  BY EmptySeq
<1>2. PICK k \in 0 .. Len(c) - 1 : Left(c) = SubSeq(c, 1, k)
  BY LeftIs
<1>3. Len(c) \in Nat \ {0} /\ k \in 0 .. Len(c) /\ k < Len(c)
  <2>1. Len(c) \in Nat \ {0}
    BY EmptySeq
  <2> QED
    BY <1>2, <2>1
<1>4. PICK d : d = SubSeq(c, 1, k) /\ d = Left(c)
  BY <1>2
<1>5. Len(d) = k
  BY <1>3, <1>4, PrefixType
<1>6. tails \in Nat /\ tails = IF vm = "puc51" THEN Len(c) - 1 - k ELSE 0
  BY <1>2, <1>3, <1>4, <1>5
<1>7. PICK f : f = Top(c).fn
  OBVIOUS
<1>8. PICK r \in 1 .. Len(s) : \E q \in 1 .. r :
           /\ AfterTails(AfterReturn(s, f), tails) = SubSeq(s, 1, q)
           /\ q = Fewer(r, tails)
           /\ Below(s, f, r)
  <2>1. PICK x \in Nat : x = tails
    BY <1>6
  <2>2. \E r \in 1 .. Len(s) : \E q \in 1 .. r :
           /\ AfterTails(AfterReturn(s, f), x) = SubSeq(s, 1, q)
           /\ q = Fewer(r, x)
           /\ Below(s, f, r)
    BY ReturnParts
  <2> QED
    BY <2>1, <2>2
<1>9. PICK q \in 1 .. r :
           /\ AfterTails(AfterReturn(s, f), tails) = SubSeq(s, 1, q)
           /\ q = Fewer(r, tails)
           /\ Below(s, f, r)
  BY <1>8
<1>10. q \in 0 .. Len(s) /\ q \in Nat /\ r \in Nat /\ q <= n
  BY <1>1
<1>11. PICK u \in Seq(K) : /\ u = SubSeq(s, 1, q) /\ Len(u) = q
                           /\ \A i \in 1 .. q : u[i] = s[i]
  <2>1. /\ SubSeq(s, 1, q) \in Seq(K) /\ Len(SubSeq(s, 1, q)) = q
        /\ \A i \in 1 .. q : SubSeq(s, 1, q)[i] = s[i]
    BY <1>10, PrefixType
  <2> QED
    BY <2>1
<1>12. Len(FnsOf(s)) = Len(s) /\ \A i \in 1 .. Len(s) : FnsOf(s)[i] = s[i][1]
  BY FnsOfType
<1>13. Len(FnsOf(u)) = Len(u) /\ \A i \in 1 .. Len(u) : FnsOf(u)[i] = u[i][1]
  BY FnsOfType
<1>14. PICK g, h : g = FnsOf(s) /\ h = FnsOf(u)
  OBVIOUS
<1>15. \A i \in 1 .. q : h[i] = g[i]
  BY <1>1, <1>10, <1>11, <1>12, <1>13, <1>14
<1>16. \A j \in 2 .. n : g[j] = s[j][1]
  BY <1>1, <1>12, <1>14
<1>17. \/ (\A j \in 2 .. n : g[j] # f) /\ r = 1
       \/ /\ r + 1 \in 2 .. n /\ g[r + 1] = f
          /\ \A j \in r + 2 .. n : g[j] # f
  <2>1. \A j \in r + 2 .. n : j \in 2 .. n
    BY <1>10
  <2> QED
    BY <1>1, <1>9, <1>16, <2>1 DEF Below
<1>18. CASE vm = "puc51"
  <2>1. Follows(g, n, c, Pcalls, b)
    BY <1>1, <1>14, <1>18 DEF Trails
  <2>2. q = IF r - (Len(c) - 1 - k) <= 1 THEN 1 ELSE r - (Len(c) - 1 - k)
    BY <1>6, <1>9, <1>18 DEF Fewer
  <2>3. Follows(g, q, d, Pcalls, FALSE)
    <3>1. \/ (\A j \in 2 .. n : g[j] # Top(c).fn) /\ r = 1
          \/ /\ r + 1 \in 2 .. n /\ g[r + 1] = Top(c).fn
             /\ \A j \in r + 2 .. n : g[j] # Top(c).fn
      BY <1>7, <1>17
    <3>2. d = SubSeq(c, 1, k) /\ r \in Nat /\ q \in Nat
      BY <1>4, <1>10
    <3>3. Follows(g, q, d, Pcalls, FALSE) /\ q <= n
      BY <2>1, <2>2, <3>1, <3>2, FollowsReturned, ZenonT(30)
    <3> QED
      BY <3>3
  <2>4. Follows(h, q, d, Pcalls, FALSE)
    <3>1. Len(d) \in Nat
      BY <1>5
    <3> QED
      BY <1>10, <1>15, <2>3, <3>1, FollowsAgree
  <2> QED
    BY <1>4, <1>7, <1>9, <1>11, <1>14, <1>18, <2>4 DEF Trails
<1>19. CASE vm # "puc51"
  <2>1. Embeds(g, n, c)
    BY <1>1, <1>14, <1>19 DEF Trails
  <2>2. q = r
    BY <1>6, <1>9, <1>19 DEF Fewer
  <2>3. \A j \in 2 .. n : g[j] = Top(c).fn => j <= q + 1
    BY <1>1, <1>7, <1>10, <1>17, <2>2
  <2>4. Embeds(g, q, SubSeq(c, 1, k))
    BY <1>3, <1>10, <2>1, <2>3, EmbedsLeft
  <2>5. Embeds(h, q, d)
    BY <1>4, <1>10, <1>15, <2>4, EmbedsAgree
  <2> QED
    BY <1>4, <1>7, <1>9, <1>11, <1>14, <1>19, <2>5 DEF Trails
<1> QED
  BY <1>18, <1>19

\* An error that a function of Pcalls catches, and a return that LuaJIT has no
\* event of: the entries stay.
LEMMA LeaveTrails ==
  ASSUME NEW K, NEW s \in Seq(K), NEW c \in Seq(CallFrames(Funcs)), NEW vm,
         NEW b \in BOOLEAN, Trails(vm, s, c, b)
  PROVE  /\ ~b /\ Unwound(c, Pcalls) # <<>> => Trails(vm, s, Unwound(c, Pcalls), TRUE)
         /\ c # <<>> /\ vm # "puc51" => Trails(vm, s, Left(c), FALSE)
<1>1. PICK n \in Nat : n = Len(s)
  BY LenProperties
<1>2. PICK g : g = FnsOf(s)
  OBVIOUS
<1>3. ASSUME vm # "puc51", NEW k \in 0 .. Len(c) PROVE Embeds(g, n, SubSeq(c, 1, k))
  <2>1. Embeds(g, n, c)
    BY <1>1, <1>2, <1>3 DEF Trails
  <2> QED
    BY <2>1, EmbedsLeft
<1>4. ASSUME ~b, Unwound(c, Pcalls) # <<>> PROVE Trails(vm, s, Unwound(c, Pcalls), TRUE)
  <2>1. CASE vm = "puc51"
    <3>1. Follows(g, n, c, Pcalls, FALSE)
      BY <1>1, <1>2, <1>4, <2>1 DEF Trails
    <3>2. Follows(g, n, Unwound(c, Pcalls), Pcalls, TRUE)
      BY <1>4, <3>1, FollowsRaised
    <3> QED
      BY <1>1, <1>2, <2>1, <3>2 DEF Trails
  <2>2. CASE vm # "puc51"
    <3>1. PICK k \in 0 .. Len(c) : Unwound(c, Pcalls) = SubSeq(c, 1, k)
      BY UnwoundIs
    <3> QED
      BY <1>1, <1>2, <1>3, <2>2, <3>1 DEF Trails
  <2> QED
    BY <2>1, <2>2
<1>5. ASSUME c # <<>>, vm # "puc51" PROVE Trails(vm, s, Left(c), FALSE)
  <2>1. PICK k \in 0 .. Len(c) - 1 : Left(c) = SubSeq(c, 1, k)
    BY <1>5, LeftIs
  <2>2. k \in 0 .. Len(c)
    BY LenProperties
  <2> QED
    BY <1>1, <1>2, <1>3, <1>5, <2>1, <2>2 DEF Trails
<1> QED
  BY <1>4, <1>5

\* The threads other than t are as before.
LEMMA OthersFollow ==
  ASSUME Followed, status = "running", UNCHANGED conf, alive' \subseteq alive, hostErr \subseteq hostErr',
         NEW t \in Threads, calls \in [Threads -> Seq(CallFrames(Funcs))], alive \subseteq Threads,
         NEW d, calls' = [calls EXCEPT ![t] = d],
         \A u \in Threads \ {t} : /\ u \in caught' <=> u \in caught
                                  /\ u \in alive => stack'[u] = stack[u],
         /\ t \in alive' \ hostErr' /\ stack'[t] # <<>> /\ (~conf.load \/ t = Main)
         => Trails(conf.vm, stack'[t], d, t \in caught')
  PROVE  Followed'
<1> SUFFICES ASSUME NEW u \in alive' \ hostErr', stack'[u] # <<>>, ~conf'.load \/ u = Main
             PROVE  Trails(conf.vm, stack'[u], calls'[u], u \in caught')
  BY DEF Followed
<1>1. CASE u = t
  BY <1>1
<1>2. CASE u # t
  <2>1. u \in Threads /\ u \in alive \ hostErr
    OBVIOUS
  <2>2. stack'[u] = stack[u] /\ calls'[u] = calls[u] /\ ((u \in caught') = (u \in caught))
    BY <1>2, <2>1
  <2>3. Trails(conf.vm, stack[u], calls[u], u \in caught)
    BY <2>1, <2>2 DEF Followed
  <2> QED
    BY <2>2, <2>3
<1> QED
  BY <1>1, <1>2

\* Membership is a Boolean.
LEMMA TruthOf ==
  ASSUME NEW x, NEW S
  PROVE  \E b \in BOOLEAN : b = (x \in S)
<1>1. CASE x \in S
  BY <1>1, TRUE = (x \in S)
<1>2. CASE x \notin S
  BY <1>2, FALSE = (x \in S)
<1> QED
  BY <1>1, <1>2

\* At the start only the main thread has a stack.
LEMMA MainFollows ==
  ASSUME Init, Trails(conf.vm, stack[Main], calls[Main], FALSE)
  PROVE  Followed
<1> SUFFICES ASSUME NEW t \in alive \ hostErr, stack[t] # <<>>
             PROVE  Trails(conf.vm, stack[t], calls[t], t \in caught)
  BY DEF Followed
<1>1. t = Main /\ (t \in caught) = FALSE
  BY DEF Init
<1> QED
  BY <1>1

\* The stacks after traceevent_prehook.
LEMMA PrehookStacks ==
  ASSUME IInv, NEW fr, NEW collect \in BOOLEAN
  PROVE  LET p == Prehook(Running, fr, collect)
         IN  /\ \A u \in alive \ {Running} : p.stack[u] = stack[u]
             /\ p.stack[Running] = IF stack[Running] = <<>> THEN NewStack(fr) ELSE stack[Running]
<1>1. Running \in Threads /\ alive \subseteq Threads
  BY RunningAlive DEF IInv, LuaTyped
<1> QED
  BY <1>1 DEF Prehook, Dead

\* A call event.
LEMMA CallFollowed ==
  ASSUME IInv, Followed, Hooks, Running \notin caught, NEW f \in Funcs, NEW collect \in BOOLEAN,
         NEW d, \/ d = Called(calls[Running], f)
                \/ calls[Running] # <<>> /\ d = TailCalled(calls[Running], f),
         calls' = [calls EXCEPT ![Running] = d], UNCHANGED <<alive, caught, hostErr>>,
         CallHook(Running, f, collect)
  PROVE  Followed'
<1> DEFINE t == Running
           p == Prehook(t, calls'[t], collect)
           key == Key(f, Top(p.stack[t]))
<1>1. t \in Threads /\ calls \in [Threads -> Seq(CallFrames(Funcs))] /\ alive \subseteq Threads
  BY RunningAlive DEF IInv, LuaTyped, CallFrames
<1>2. PICK c \in Seq(CallFrames(Funcs)) : c = calls[t]
  BY <1>1
<1>3. d \in Seq(CallFrames(Funcs))
  <2>1. d = Called(c, f) \/ (c # <<>> /\ d = TailCalled(c, f))
    BY <1>2
  <2> QED
    BY <2>1, CalledIs
<1>4. /\ MayCollect(t, collect) /\ Pushed(p, t, key) /\ UNCHANGED conf /\ status = "running"
  BY DEF CallHook, Hooks
<1>5. /\ p.records \in [DOMAIN p.records -> BOOLEAN]
      /\ p.stack \in [Threads -> Seq(DOMAIN p.records)] /\ p.stack[t] # <<>>
  <2>1. calls'[t] \in Seq(CallFrames(Funcs))
    BY <1>1, <1>3
  <2> QED
    BY <1>4, <2>1, PrehookType
<1>6. /\ \A u \in alive \ {t} : p.stack[u] = stack[u]
      /\ p.stack[t] = IF stack[t] = <<>> THEN NewStack(calls'[t]) ELSE stack[t]
  BY PrehookStacks
<1>7. key[1] = f
  BY DEF Key
<1> HIDE DEF p, key, t
<1>8. status' = "running" => stack' = [p.stack EXCEPT ![t] = Append(@, key)]
  BY <1>4 DEF Pushed
<1>9. ASSUME status' = "running", t \notin hostErr, ~conf.load \/ t = Main, t \in alive
      PROVE  Trails(conf.vm, stack'[t], d, FALSE)
  <2>1. PICK K : K = DOMAIN p.records \cup {key}
    OBVIOUS
  <2>2. PICK s \in Seq(K) : s = p.stack[t] /\ s # <<>> /\ stack'[t] = Append(s, key)
    <3>1. p.stack[t] \in Seq(DOMAIN p.records)
      BY <1>1, <1>5
    <3>2. p.stack[t] \in Seq(K)
      BY <2>1, <3>1, SeqMonotonic
    <3> QED
      BY <1>1, <1>5, <1>8, <1>9, <3>2
  <2>3. Trails(conf.vm, s, c, FALSE)
    <3>1. CASE stack[t] = <<>>
      <4>1. t # Main /\ c = <<>>
        BY <1>1, <1>2, <3>1 DEF IInv, StacksOfCallers
      <4>2. s = <<RootKey>>
        <5>1. <<RootKey>> \o <<>> = <<RootKey>>
          OBVIOUS
        <5> QED
          BY <1>6, <1>9, <2>2, <3>1, <4>1, <5>1 DEF NewStack
      <4> QED
        BY <4>1, <4>2, RootTrails
    <3>2. CASE stack[t] # <<>>
      <4>1. Trails(conf.vm, stack[t], calls[t], t \in caught)
        BY <1>4, <1>9, <3>2 DEF Followed
      <4>2. s = stack[t] /\ (t \in caught) = FALSE
        BY <1>6, <2>2, <3>2 DEF t
      <4> QED
        BY <1>2, <4>1, <4>2
    <3> QED
      BY <3>1, <3>2
  <2>4. key \in K
    BY <2>1
  <2>5. d = Called(c, f) \/ (c # <<>> /\ d = TailCalled(c, f))
    BY <1>2 DEF t
  <2>6. Trails(conf.vm, Append(s, key), d, FALSE)
    BY <1>7, <2>2, <2>3, <2>4, <2>5, CallTrails
  <2> QED
    BY <2>2, <2>6
<1> SUFFICES ASSUME status' = "running" PROVE Followed'
  BY DEF Followed
<1>10. \A u \in Threads \ {t} : /\ u \in caught' <=> u \in caught
                                /\ u \in alive => stack'[u] = stack[u]
  BY <1>5, <1>6, <1>8
<1>11. (t \in caught') = FALSE /\ calls' = [calls EXCEPT ![t] = d] /\ alive' \subseteq alive
       /\ hostErr \subseteq hostErr'
  BY DEF t
<1>12. /\ t \in alive' \ hostErr' /\ stack'[t] # <<>> /\ (~conf.load \/ t = Main)
       => Trails(conf.vm, stack'[t], d, t \in caught')
  BY <1>9, <1>11
<1> QED
  BY <1>1, <1>4, <1>10, <1>11, <1>12, OthersFollow

\* A return event.
LEMMA ReturnFollowed ==
  ASSUME IInv, Followed, NEW collect \in BOOLEAN, Return(collect)
  PROVE  Followed'
<1> DEFINE t == Running
           p == Prehook(t, calls[t], collect)
           tails == IF conf.vm = "puc51" THEN Len(calls[t]) - 1 - Len(Left(calls[t])) ELSE 0
           left == AfterTails(AfterReturn(p.stack[t], Top(calls[t]).fn), tails)
<1>1. t \in Threads /\ calls \in [Threads -> Seq(CallFrames(Funcs))] /\ alive \subseteq Threads
  BY RunningAlive DEF IInv, LuaTyped, CallFrames
<1>2. /\ MayCollect(t, collect) /\ Popped(p, t, left) /\ calls[t] # <<>>
      /\ UNCHANGED <<conf, hostErr, status>> /\ status = "running"
      /\ Leave(Left(calls[t])) /\ caught' = caught \ {t}
  BY DEF Return, Hooks
<1>3. PICK c \in Seq(CallFrames(Funcs)) : c = calls[t] /\ c # <<>>
  BY <1>1, <1>2
<1>4. /\ p.stack \in [Threads -> Seq(DOMAIN p.records)] /\ p.stack[t] # <<>>
  BY <1>2, <1>3, PrehookType
<1>5. /\ \A u \in alive \ {t} : p.stack[u] = stack[u]
      /\ p.stack[t] = IF stack[t] = <<>> THEN NewStack(calls[t]) ELSE stack[t]
  BY PrehookStacks
<1>6. stack[t] # <<>>
  BY <1>1, <1>3 DEF IInv, StacksOfCallers
<1>7. calls' = [calls EXCEPT ![t] = Left(c)] /\ alive' \subseteq alive
  BY <1>2, <1>3 DEF Leave
<1>8. stack' = [p.stack EXCEPT ![t] = left]
  BY <1>2 DEF Popped
<1>9. tails = IF conf.vm = "puc51" THEN Len(c) - 1 - Len(Left(c)) ELSE 0
  BY <1>3
<1> HIDE DEF p, tails, t
<1>10. ASSUME t \notin hostErr, ~conf.load \/ t = Main, t \in alive
       PROVE  Trails(conf.vm, stack'[t], Left(c), FALSE)
  <2>1. PICK K : K = DOMAIN p.records
    OBVIOUS
  <2>2. PICK s \in Seq(K) : s = p.stack[t] /\ s = stack[t] /\ s # <<>>
    BY <1>1, <1>4, <1>5, <1>6, <2>1
  <2>3. PICK b \in BOOLEAN : b = (t \in caught)
    BY TruthOf
  <2>4. Trails(conf.vm, stack[t], calls[t], t \in caught)
    BY <1>2, <1>6, <1>10 DEF Followed
  <2>5. Trails(conf.vm, s, c, b)
    BY <1>3, <2>2, <2>3, <2>4
  <2>6. Trails(conf.vm, AfterTails(AfterReturn(s, Top(c).fn), tails), Left(c), FALSE)
    BY <1>3, <1>9, <2>2, <2>5, ReturnTrails
  <2>7. stack'[t] = AfterTails(AfterReturn(s, Top(c).fn), tails)
    BY <1>1, <1>3, <1>4, <1>8, <2>2
  <2> QED
    BY <2>6, <2>7
<1> HIDE DEF left
<1>11. \A u \in Threads \ {t} : /\ u \in caught' <=> u \in caught
                                /\ u \in alive => stack'[u] = stack[u]
  BY <1>2, <1>4, <1>5, <1>8
<1>12. (t \in caught') = FALSE /\ hostErr \subseteq hostErr'
  BY <1>2
<1>13. /\ t \in alive' \ hostErr' /\ stack'[t] # <<>> /\ (~conf.load \/ t = Main)
       => Trails(conf.vm, stack'[t], Left(c), t \in caught')
  BY <1>7, <1>10, <1>12
<1> QED
  BY <1>1, <1>2, <1>7, <1>11, <1>12, <1>13, OthersFollow

\* A return or an error that there is no event of.
LEMMA UnseenFollowed ==
  ASSUME IInv, Followed, ReturnUnseen \/ Raise
  PROVE  Followed'
<1> DEFINE t == Running
<1>1. t \in Threads /\ calls \in [Threads -> Seq(CallFrames(Funcs))] /\ alive \subseteq Threads
  BY RunningAlive DEF IInv, LuaTyped, CallFrames
<1>2. PICK c \in Seq(CallFrames(Funcs)) : c = calls[t]
  BY <1>1
<1>3. PICK s \in Seq(Keys) : s = stack[t]
  <2>1. stack[t] \in Seq(Keys)
    BY <1>1 DEF IInv, ProfileTyped
  <2> QED
    BY <2>1
<1>4. PICK b \in BOOLEAN : b = (t \in caught)
  BY TruthOf
<1>5. UNCHANGED <<conf, stack, status>> /\ status = "running" /\ c # <<>>
  BY <1>2 DEF ReturnUnseen, Raise, Hooks
<1>6. s # <<>>
  BY <1>1, <1>2, <1>3, <1>5 DEF IInv, StacksOfCallers
<1>7. ASSUME t \notin hostErr, ~conf.load \/ t = Main, t \in alive
      PROVE  Trails(conf.vm, s, c, b)
  BY <1>2, <1>3, <1>4, <1>5, <1>6, <1>7 DEF Followed
<1>8. CASE ReturnUnseen
  <2>1. /\ conf.vm # "puc51" /\ calls' = [calls EXCEPT ![t] = Left(c)] /\ alive' \subseteq alive
        /\ caught' = caught \ {t} /\ hostErr' = hostErr
    BY <1>2, <1>8 DEF ReturnUnseen, Leave
  <2>2. ASSUME t \notin hostErr, ~conf.load \/ t = Main, t \in alive
        PROVE  Trails(conf.vm, s, Left(c), FALSE)
    <3>1. Trails(conf.vm, s, c, b)
      BY <1>7, <2>2
    <3> QED
      BY <1>5, <2>1, <3>1, LeaveTrails
  <2>3. (t \in caught') = FALSE /\ stack'[t] = s
    BY <1>3, <1>5, <2>1
  <2>4. /\ t \in alive' \ hostErr' /\ stack'[t] # <<>> /\ (~conf.load \/ t = Main)
        => Trails(conf.vm, stack'[t], Left(c), t \in caught')
    BY <2>1, <2>2, <2>3
  <2>5. \A u \in Threads \ {t} : /\ u \in caught' <=> u \in caught
                                 /\ u \in alive => stack'[u] = stack[u]
    BY <1>5, <2>1
  <2> HIDE DEF t
  <2> QED
    BY <1>1, <1>5, <2>1, <2>4, <2>5, OthersFollow
<1>9. CASE Raise
  <2> DEFINE d == Unwound(c, Pcalls)
  <2>1. /\ calls' = [calls EXCEPT ![t] = d] /\ t \notin caught
        /\ alive' = IF d = <<>> /\ t # Main THEN alive \ {t} ELSE alive
        /\ caught' = IF d = <<>> THEN caught ELSE caught \cup {t}
        /\ hostErr' = IF d = <<>> /\ t = Main THEN {Main} \cup hostErr ELSE hostErr
    BY <1>2, <1>9 DEF Raise, Leave
  <2>2. ASSUME t \notin hostErr, ~conf.load \/ t = Main, t \in alive, d # <<>>
        PROVE  Trails(conf.vm, s, d, TRUE)
    <3>1. Trails(conf.vm, s, c, b) /\ ~b
      BY <1>4, <1>7, <2>1, <2>2
    <3> QED
      BY <2>2, <3>1, LeaveTrails
  <2> HIDE DEF d, t
  <2>3. t \in alive' \ hostErr' => d # <<>> /\ (t \in caught') = TRUE /\ t \in alive \ hostErr
    BY <2>1
  <2>4. stack'[t] = s
    BY <1>3, <1>5 DEF t
  <2>5. /\ t \in alive' \ hostErr' /\ stack'[t] # <<>> /\ (~conf.load \/ t = Main)
        => Trails(conf.vm, stack'[t], d, t \in caught')
    BY <2>2, <2>3, <2>4
  <2>6. \A u \in Threads \ {t} : /\ u \in caught' <=> u \in caught
                                 /\ u \in alive => stack'[u] = stack[u]
    BY <1>5, <2>1
  <2>7. alive' \subseteq alive /\ hostErr \subseteq hostErr'
    BY <2>1
  <2> QED
    BY <1>1, <1>5, <2>1, <2>5, <2>6, <2>7, OthersFollow
<1> QED
  BY <1>8, <1>9

\* When the profiler starts the main thread has the root and, with load_stack,
\* the functions active.
LEMMA InitFollowed ==
  ASSUME Len(BaseFrames) < MaxStack, Init
  PROVE  Followed
<1>1. IInv
  BY InitIInv
<1>2. calls[Main] \in Seq(CallFrames(Funcs))
  BY <1>1, TraceInstrumentAssumption DEF IInv, LuaTyped, CallFrames
<1>3. PICK c \in Seq(CallFrames(Funcs)) : c = calls[Main]
  BY <1>2
<1>4. Len(c) = Len(BaseFrames) /\ \A i \in 1 .. Len(c) : c[i].seen = conf.load
  <2>1. calls[Main] = [i \in 1 .. Len(BaseFrames) |-> Frame(BaseFrames[i], conf.load)]
    BY TraceInstrumentAssumption DEF Init
  <2>2. Len(BaseFrames) \in Nat
    BY TraceInstrumentAssumption
  <2> QED
    BY <1>3, <2>1, <2>2 DEF Frame
<1>5. PICK s \in Seq(NewKeys(c)) : s = stack[Main] /\ s = NewStack(c) /\ Len(s) \in 1 .. MaxStack
  BY <1>1, <1>3, NewStackType, TraceInstrumentAssumption DEF Init, IInv
<1>6. conf.load \in BOOLEAN
  BY TraceInstrumentAssumption DEF Init, AllConfs
<1>7. CASE ~conf.load
  <2>1. s = <<RootKey>>
    <3>1. <<RootKey>> \o <<>> = <<RootKey>>
      OBVIOUS
    <3> QED
      BY <1>5, <1>7, <3>1 DEF NewStack
  <2>2. Len(s) = 1 /\ \A i \in 1 .. Len(c) : c[i].seen = FALSE
    BY <1>4, <1>7, <2>1
  <2>3. Follows(FnsOf(s), 1, c, Pcalls, FALSE)
    BY <2>2, FollowsNone
  <2>4. Embeds(FnsOf(s), 1, c)
    BY <2>3, FollowsEmbeds
  <2>5. Trails(conf.vm, s, c, FALSE)
    BY <2>2, <2>3, <2>4 DEF Trails
  <2> QED
    BY <1>3, <1>5, <2>5, MainFollows
<1>8. CASE conf.load
  <2> DEFINE l == LoadedChain(c)
  <2>1. DOMAIN l = 1 .. Len(c) /\ \A i \in 1 .. Len(c) : l[i][1] = c[i].fn
    BY LoadedNames
  <2>2. s = <<RootKey>> \o SubSeq(l, 1, Min({Len(c), MaxStack - 1}))
    BY <1>5, <1>8 DEF NewStack
  <2> HIDE DEF l
  <2>3. Len(c) \in Nat /\ MaxStack \in Nat /\ Min({Len(c), MaxStack - 1}) = Len(c)
    <3>1. Len(c) \in Nat /\ MaxStack - 1 \in Nat /\ Len(c) <= MaxStack - 1
      BY <1>4, LenProperties, TraceInstrumentAssumption
    <3> QED
      BY <3>1, MinOf, TraceInstrumentAssumption
  <2>4. PICK r : r = SubSeq(l, 1, Len(c))
    OBVIOUS
  <2>5. Len(r) = Len(c) /\ DOMAIN r = 1 .. Len(c) /\ \A i \in 1 .. Len(c) : r[i] = l[i]
    BY <2>1, <2>3, <2>4
  <2>6. s = <<RootKey>> \o r
    BY <2>2, <2>3, <2>4
  <2>7. Len(s) = Len(c) + 1 /\ \A i \in 1 .. Len(c) : s[i + 1] = l[i]
    BY <2>3, <2>5, <2>6
  <2>8. FnsOf(s) = FnsOf(s) /\ \A i \in 1 .. Len(s) : FnsOf(s)[i] = s[i][1]
    BY FnsOfType
  <2>9. PICK g : g = FnsOf(s)
    OBVIOUS
  <2>10. \A i \in 1 .. Len(c) : g[i + 1] = c[i].fn
    <3> TAKE i \in 1 .. Len(c)
    <3>1. i + 1 \in 1 .. Len(s)
      BY <2>3, <2>7
    <3> QED
      BY <2>1, <2>7, <2>8, <2>9, <3>1
  <2>11. Follows(g, Len(c) + 1, c, Pcalls, FALSE)
    <3>1. \A i \in 1 .. Len(c) : c[i].seen = TRUE
      BY <1>4, <1>8
    <3> QED
      BY <2>10, <3>1, FollowsNone
  <2>12. Embeds(g, Len(c) + 1, c)
    <3>1. Len(c) + 1 \in Nat
      BY <2>3
    <3> QED
      BY <2>11, <3>1, FollowsEmbeds
  <2>13. Trails(conf.vm, s, c, FALSE)
    BY <2>7, <2>9, <2>11, <2>12 DEF Trails
  <2> QED
    BY <1>3, <1>5, <2>13, MainFollows
<1> QED
  BY <1>7, <1>8

\* Every step keeps the stacks in step with the calls.
LEMMA NextFollowed ==
  ASSUME IInv, Followed, [Next]_vars
  PROVE  Followed'
<1>1. ResumeFn \in Funcs /\ YieldFn \in Funcs
  BY TraceInstrumentAssumption DEF Funcs
<1>2. ASSUME NEW f \in Funcs, NEW collect \in BOOLEAN, Call(f, collect) \/ TailCall(f, collect)
      PROVE  Followed'
  <2>1. PICK d : /\ \/ d = Called(calls[Running], f)
                    \/ calls[Running] # <<>> /\ d = TailCalled(calls[Running], f)
                 /\ calls' = [calls EXCEPT ![Running] = d]
    BY <1>2 DEF Call, TailCall
  <2>2. /\ Hooks /\ Running \notin caught /\ CallHook(Running, f, collect)
        /\ UNCHANGED <<alive, caught, hostErr>>
    BY <1>2 DEF Call, TailCall, MayCall
  <2> QED
    BY <2>1, <2>2, CallFollowed
<1>3. ASSUME NEW u \in Threads, NEW collect \in BOOLEAN, Resume(u, collect)
      PROVE  Followed'
  <2>1. PICK d : /\ d = Called(calls[Running], ResumeFn)
                 /\ calls' = [calls EXCEPT ![Running] = d]
    BY <1>3 DEF Resume
  <2>2. /\ Hooks /\ Running \notin caught /\ CallHook(Running, ResumeFn, collect)
        /\ UNCHANGED <<alive, caught, hostErr>>
    BY <1>3 DEF Resume, MayCall
  <2> QED
    BY <1>1, <2>1, <2>2, CallFollowed
<1>4. ASSUME NEW collect \in BOOLEAN, Yield(collect)
      PROVE  Followed'
  <2>1. PICK d : /\ d = Called(calls[Running], YieldFn)
                 /\ calls' = [calls EXCEPT ![Running] = d]
    BY <1>4 DEF Yield
  <2>2. /\ Hooks /\ Running \notin caught /\ CallHook(Running, YieldFn, collect)
        /\ UNCHANGED <<alive, caught, hostErr>>
    BY <1>4 DEF Yield, MayCall
  <2> QED
    BY <1>1, <2>1, <2>2, CallFollowed
<1>5. ASSUME NEW collect \in BOOLEAN, Stop(collect)
      PROVE  Followed'
  BY <1>5 DEF Stop, Followed
<1>6. ASSUME PausedEvent \/ CollectWithoutRoom \/ Finalize
      PROVE  Followed'
  BY <1>6 DEF PausedEvent, CollectWithoutRoom, Finalize, Followed
<1>7. ASSUME PauseExecution \/ ResumeExecution \/ UNCHANGED vars \/ \E f \in Ignorable : Ignore(f)
      PROVE  Followed'
  <2>1. UNCHANGED <<conf, status, stack, alive, hostErr, calls, caught>>
    BY <1>7 DEF PauseExecution, ResumeExecution, vars, lua, Ignore
  <2> QED
    BY <2>1 DEF Followed
<1> QED
  BY <1>2, <1>3, <1>4, <1>5, <1>6, <1>7, ReturnFollowed, UnseenFollowed DEF Next

\* The functions of a thread's profile stack are its calls in progress, in
\* order, for any coroutines, functions and depth (traceevent_hook): under PUC
\* Lua these and no others but those an error unwound, until the pcall that
\* caught it returns; under LuaJIT at least these.  The functions active when a
\* profiler with load_stack starts must fit into a stack.
THEOREM ScopesAlwaysFollow ==
  ASSUME Len(BaseFrames) < MaxStack
  PROVE  Spec => []ScopesFollowCalls
<1>1. Init => IInv /\ Followed
  BY InitIInv, InitFollowed
<1>2. IInv /\ Followed /\ [Next]_vars => (IInv /\ Followed)'
  BY NextIInv, NextFollowed
<1>3. IInv /\ Followed => ScopesFollowCalls
  <2> SUFFICES ASSUME IInv, Followed, status = "running",
                      NEW t \in alive \ hostErr, stack[t] # <<>>, ~conf.load \/ t = Main
               PROVE  LET seen == SeenCalls(calls[t])
                          n == Len(seen)
                          fn(i) == stack[t][i + 1][1]
                      IN  IF conf.vm = "puc51"
                          THEN /\ Len(stack[t]) - 1 >= n
                               /\ \A i \in 1 .. n : fn(i) = seen[i].fn
                               /\ t \notin caught => Len(stack[t]) - 1 = n
                          ELSE \E at \in [1 .. n -> 1 .. Len(stack[t]) - 1] :
                                 /\ \A i \in 1 .. n : fn(at[i]) = seen[i].fn
                                 /\ \A i, j \in 1 .. n : i < j => at[i] < at[j]
    BY DEF ScopesFollowCalls
  <2>1. t \in Threads /\ calls[t] \in Seq(CallFrames(Funcs)) /\ stack[t] \in Seq(Keys)
    BY DEF IInv, LuaTyped, ProfileTyped, CallFrames
  <2>2. PICK c \in Seq(CallFrames(Funcs)), s \in Seq(Keys) : c = calls[t] /\ s = stack[t]
    BY <2>1
  <2>3. PICK b \in BOOLEAN : b = (t \in caught)
    BY TruthOf
  <2>4. Trails(conf.vm, s, c, b)
    BY <2>2, <2>3 DEF Followed
  <2>5. Len(s) \in Nat /\ Len(FnsOf(s)) = Len(s) /\ \A i \in 1 .. Len(s) : FnsOf(s)[i] = s[i][1]
    BY LenProperties, FnsOfType
  <2>6. PICK g : g = FnsOf(s) /\ \A i \in 1 .. Len(s) : g[i] = s[i][1]
    BY <2>5
  <2>10. PICK n \in Nat : n = Len(s) /\ \A i \in 1 .. n : g[i] = s[i][1]
    BY <2>5, <2>6
  <2>7. PICK seen : seen = SeenCalls(c)
    OBVIOUS
  <2>8. CASE conf.vm = "puc51"
    <3>1. Follows(g, n, c, Pcalls, b)
      BY <2>4, <2>6, <2>8, <2>10 DEF Trails
    <3>2. /\ seen \in Seq(CallFrames(Funcs)) /\ n - 1 >= Len(seen)
          /\ \A i \in 1 .. Len(seen) : g[i + 1] = seen[i].fn
          /\ ~b => n - 1 = Len(seen)
      BY <2>7, <3>1, FollowsSeen, ZenonT(30)
    <3>3. \A i \in 1 .. Len(seen) : s[i + 1][1] = seen[i].fn
      <4>1. \A i \in 1 .. Len(seen) : i + 1 \in 1 .. n
        BY <3>2, LenProperties
      <4> QED
        BY <2>10, <3>2, <4>1
    <3> QED
      BY <2>2, <2>3, <2>7, <2>8, <2>10, <3>2, <3>3
  <2>9. CASE conf.vm # "puc51"
    <3>1. Embeds(g, n, c)
      BY <2>4, <2>6, <2>9, <2>10 DEF Trails
    <3>2. PICK at \in [1 .. Len(seen) -> 1 .. n - 1] :
            /\ \A i \in 1 .. Len(seen) : g[at[i] + 1] = seen[i].fn
            /\ \A i, j \in 1 .. Len(seen) : i < j => at[i] < at[j]
      BY <2>7, <3>1, EmbedsSeen
    <3>3. \A i \in 1 .. Len(seen) : at[i] + 1 \in 1 .. n
      BY <3>2
    <3>4. \A i \in 1 .. Len(seen) : s[at[i] + 1][1] = seen[i].fn
      BY <2>10, <3>2, <3>3
    <3> QED
      BY <2>2, <2>7, <2>9, <2>10, <3>2, <3>4
  <2> QED
    BY <2>8, <2>9
<1> QED
  BY <1>1, <1>2, <1>3, PTL DEF Spec
=============================================================================
