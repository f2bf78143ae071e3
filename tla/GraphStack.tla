----------------------------- MODULE GraphStack -----------------------------
(***************************************************************************)
(* The instrumenting graph profiler: hook events of several Lua threads,   *)
(* the profile stack kept for each of them, and the measurements their     *)
(* entries leave in the records (lmprof_lib.c, lmprof_stack.h and          *)
(* lmprof_collections.c).                                                  *)
(*                                                                         *)
(* The profiler sees a thread's calls only through call and return events. *)
(* It never sees an error unwind the call stack, a call replaced by a tail *)
(* call, or what was active before it started, and under LuaJIT not even   *)
(* the return of a C function: its own stack must follow regardless.       *)
(*                                                                         *)
(* A measurement is a time here; the amounts allocated and deallocated are *)
(* pushed, subtracted and added along with it in the same way.  A hook     *)
(* takes no time: what hooks cost is collected in fields of its own that   *)
(* no measurement is corrected by.                                         *)
(***************************************************************************)
EXTENDS LuaCalls, Functions

CONSTANTS
  LuaFuncs,     \* Lua functions
  CFuncs,       \* C functions
  Pcalls,       \* the C functions that catch errors
  Threads,      \* Lua threads
  Main,         \* the thread that starts the profiler, the only one at first
  Root,         \* LMPROF_RECORD_ID_ROOT
  None,         \* no function, no event
  TailReturn,   \* the event of a tail return, which names no function
  VMs,          \* "puc51", "luajit"
  LoadStacks,   \* values of the option load_stack considered
  BaseFrames,   \* functions active on the main thread when it starts
  MaxStack,     \* LMPROF_MAXSTACK
  MaxTime,      \* bound: the clock
  MaxCalls      \* bound: calls made

Funcs == LuaFuncs \cup CFuncs

ASSUME GraphStackAssumption ==
  /\ Main \in Threads /\ IsFiniteSet(Threads)
  /\ Pcalls \subseteq CFuncs /\ LuaFuncs \cap CFuncs = {}
  /\ {Root, None, TailReturn} \cap Funcs = {} /\ Root # None /\ Root # TailReturn /\ None # TailReturn
  /\ None \notin [thread : Threads, fn : Funcs \cup {TailReturn, None}, tails : Nat]
  /\ BaseFrames \in Seq(Funcs)
  /\ LoadStacks \subseteq BOOLEAN
  /\ MaxStack \in Nat \ {0} /\ MaxTime \in Nat /\ MaxCalls \in Nat

VARIABLES
  now,          \* the clock the hooks read
  vm,           \* the events the Lua machine generates
  loadStack,    \* LMPROF_OPT_LOAD_STACK
  compress,     \* LMPROF_OPT_COMPRESS_GRAPH
  alive,        \* threads not yet dead
  calls,        \* each thread's call stack, as Lua has it
  caught,       \* threads whose top call just caught an error
  hostErr,      \* threads whose calls were unwound by an error the host caught
  status,       \* "running", "stopping", "stopped", "error"
  stack,        \* LMPROF_TAB_THREAD_STACKS: <<>> for a thread with none
  records,      \* the record hash
  popping,      \* the stack that a return event or stop is popping
  invoked,      \* ghost: calls that should be counted, by function
  lost          \* ghost: the stacks of dead threads when they were freed

options == <<vm, loadStack, compress>>
lua == <<alive, calls, caught, hostErr, invoked>>
vars == <<now, options, lua, status, stack, records, popping, lost>>

\* A record's key, <function, parent>: lmprof_record's f_id and p_id.  The
\* parent is a function when the graph is compressed, and a record otherwise.
RootKey == <<Root, Root>>
Key(f, parent) == <<f, IF compress THEN parent[1] ELSE parent>>

Zero == [count |-> 0, node |-> 0, path |-> 0]

\* Faulty: the lookup always misses.
FetchedAnew(K) ==
  [k \in DOMAIN records \cup K |-> IF k \in K THEN Zero ELSE records[k]]

\* lmprof_fetch_record for each key of K
Fetched(K) ==
  [k \in DOMAIN records \cup K |->
     IF k \in DOMAIN records THEN records[k] ELSE Zero]

\* Faulty: the measurement at the start of the call is not stored.
EntryUnset(key) == [rec |-> key, start |-> 0, path |-> 0]

\* lmprof_stack_measured_push fills an entry.
Entry(key) == [rec |-> key, start |-> now, path |-> 0]

Idle == status = "running" /\ popping = None
-----------------------------------------------------------------------------
(* Hooks *)

\* The keys of a chain of calls below the root.
Chain(frames) ==
  LET key[i \in 1 .. Len(frames)] ==
        Key(frames[i].fn, IF i = 1 THEN RootKey ELSE key[i - 1])
  IN  key

\* What lmprof_thread_stacktable_get makes for a thread with these calls: the
\* root and, with load_stack, the traceback, as much of it as fits.
NewStack(frames) ==
  LET depth == IF ~loadStack THEN 0
               ELSE IF Len(frames) < MaxStack THEN Len(frames) ELSE MaxStack - 1
  IN  [i \in 1 .. depth + 1 |->
         Entry(IF i = 1 THEN RootKey ELSE Chain(frames)[i - 1])]

\* The records it fetches for them.
NewKeys(frames) ==
  {RootKey} \cup
  (IF loadStack THEN {Chain(frames)[i] : i \in 1 .. Len(frames)} ELSE {})

\* The stacks after graph_prehook on thread t, whose calls are frames: t has
\* one.  collect: it is one of every LMPROF_STACK_GC made, and
\* lmprof_thread_info_gc frees those of dead threads first.
MayCollect(t, collect) == collect => stack[t] = <<>>

Prehook(t, frames, collect) ==
  [u \in Threads |->
     IF u = t THEN IF stack[t] = <<>> THEN NewStack(frames) ELSE stack[t]
     ELSE IF collect /\ u \notin alive THEN <<>> ELSE stack[u]]

PrehookLost(t, collect) ==
  [u \in Threads |-> IF collect /\ u # t /\ u \notin alive THEN stack[u] \o lost[u]
                     ELSE lost[u]]

PrehookKeys(t, frames) == IF stack[t] = <<>> THEN NewKeys(frames) ELSE {}

\* What graph_prehook leaves when the hook pushes nothing.
HookPrepares(t, frames, collect) ==
  /\ stack' = Prehook(t, frames, collect)
  /\ records' = Fetched(PrehookKeys(t, frames))
  /\ lost' = PrehookLost(t, collect)

\* A call event: lmprof_error when the stack is full.
CallHook(t, frames, f, collect) ==
  LET s == Prehook(t, frames, collect)
      key == Key(f, Top(s[t]).rec)
      fits == Len(s[t]) < MaxStack
  IN  /\ stack' = IF fits THEN [s EXCEPT ![t] = Append(@, Entry(key))] ELSE s
      /\ records' = Fetched(PrehookKeys(t, frames) \cup {key})
      /\ status' = IF fits THEN status ELSE "error"
      /\ lost' = PrehookLost(t, collect)

\* Faulty: the time of the children is added to the parent once more.
MeasuredPopTwice(t) ==
  LET s == stack[t]
      e == Top(s)
      n == Len(s)
      total == now - e.start
  IN  /\ stack' = [stack EXCEPT ![t] =
                     IF n = 1 THEN <<>>
                     ELSE [Pop(s) EXCEPT ![n - 1].path = @ + total + e.path]]
      /\ records' = [records EXCEPT ![e.rec] =
                       [count |-> @.count + 1,
                        node |-> @.node + (total - e.path),
                        path |-> @.path + total]]

\* Faulty: only the own time of a call is added to its parent.
MeasuredPopOwn(t) ==
  LET s == stack[t]
      e == Top(s)
      n == Len(s)
      total == now - e.start
  IN  /\ stack' = [stack EXCEPT ![t] =
                     IF n = 1 THEN <<>>
                     ELSE [Pop(s) EXCEPT ![n - 1].path = @ + total - e.path]]
      /\ records' = [records EXCEPT ![e.rec] =
                       [count |-> @.count + 1,
                        node |-> @.node + (total - e.path),
                        path |-> @.path + total]]

\* lmprof_stack_measured_pop of thread t's top entry.
MeasuredPop(t) ==
  LET s == stack[t]
      e == Top(s)
      n == Len(s)
      total == now - e.start
  IN  /\ stack' = [stack EXCEPT ![t] =
                     IF n = 1 THEN <<>>
                     ELSE [Pop(s) EXCEPT ![n - 1].path = @ + total]]
      /\ records' = [records EXCEPT ![e.rec] =
                       [count |-> @.count + 1,
                        node |-> @.node + (total - e.path),
                        path |-> @.path + total]]
-----------------------------------------------------------------------------
(* The program and its events *)

Tick ==
  /\ Idle /\ now < MaxTime
  /\ now' = now + 1
  /\ UNCHANGED <<options, lua, status, stack, records, popping, lost>>

Calls == SumFunction(invoked)

\* A thread that may call: a pcall that caught an error only returns.
MayCall(t) == Idle /\ t \in alive /\ t \notin caught

Call(t, f, collect) ==
  /\ MayCall(t) /\ MayCollect(t, collect) /\ Calls < MaxCalls
  /\ calls' = [calls EXCEPT ![t] = Called(@, f)]
  /\ invoked' = [invoked EXCEPT ![f] = @ + 1]
  /\ CallHook(t, calls'[t], f, collect)
  /\ UNCHANGED <<now, options, alive, caught, hostErr, popping>>

\* A tail call: a call event like any other.  PUC Lua replaces a call by
\* another of a Lua function only.
TailCall(t, f, collect) ==
  /\ MayCall(t) /\ MayCollect(t, collect) /\ Calls < MaxCalls
  /\ calls[t] # <<>> /\ Top(calls[t]).fn \in LuaFuncs
  /\ vm = "puc51" => f \in LuaFuncs
  /\ calls' = [calls EXCEPT ![t] = TailCalled(@, f)]
  /\ invoked' = [invoked EXCEPT ![f] = @ + 1]
  /\ CallHook(t, calls'[t], f, collect)
  /\ UNCHANGED <<now, options, alive, caught, hostErr, popping>>

Leave(t) ==
  /\ calls' = [calls EXCEPT ![t] = Left(@)]
  /\ alive' = IF t # Main /\ Left(calls[t]) = <<>> THEN alive \ {t} ELSE alive
  /\ caught' = caught \ {t}

Return(t, collect) ==
  /\ Idle /\ t \in alive /\ calls[t] # <<>> /\ MayCollect(t, collect)
  /\ vm = "puc51" \/ Top(calls[t]).fn \in LuaFuncs
  /\ Leave(t)
  /\ HookPrepares(t, calls[t], collect)
  /\ popping' = [thread |-> t, fn |-> Top(calls[t]).fn,
               tails |-> IF vm = "puc51"
                         THEN Len(calls[t]) - 1 - Len(Left(calls[t])) ELSE 0]
  /\ UNCHANGED <<now, options, hostErr, invoked, status>>

\* LuaJIT: a C function returns without an event.
ReturnUnseen(t) ==
  /\ Idle /\ t \in alive /\ calls[t] # <<>>
  /\ vm = "luajit" /\ Top(calls[t]).fn \in CFuncs
  /\ Leave(t)
  /\ UNCHANGED <<now, options, hostErr, invoked, status, stack, records, popping, lost>>

\* Faulty: a return pops one entry, whichever function it is of.
PopReturnedOnce ==
  /\ status = "running" /\ popping # None
  /\ LET t == popping.thread
     IN  /\ IF Len(stack[t]) = 1 THEN UNCHANGED <<stack, records>> ELSE MeasuredPop(t)
         /\ popping' = IF popping.tails = 0 THEN None
                       ELSE [popping EXCEPT !.fn = TailReturn, !.tails = @ - 1]
  /\ UNCHANGED <<now, options, lua, status, lost>>

\* Faulty: the root is popped too.
PopReturnedRoot ==
  /\ status = "running" /\ popping # None
  /\ LET t == popping.thread
     IN  IF stack[t] = <<>>
         THEN popping' = None /\ UNCHANGED <<stack, records>>
         ELSE /\ MeasuredPop(t)
              /\ popping' = IF popping.fn = Top(stack[t]).rec[1] THEN None ELSE popping
  /\ UNCHANGED <<now, options, lua, status, lost>>

\* One round of the loop in graph_instrument that answers a return event:
\* entries are popped up to the one of the function that returns, the root
\* excepted; a tail return pops one.
PopReturned ==
  /\ status = "running" /\ popping # None
  /\ LET t == popping.thread
         matches == popping.fn \in {TailReturn, Top(stack[t]).rec[1]}
         last == Len(stack[t]) = 1
     IN  /\ IF last THEN UNCHANGED <<stack, records>> ELSE MeasuredPop(t)
         /\ popping' = IF last \/ (matches /\ popping.tails = 0) THEN None
                     ELSE IF matches
                     THEN [popping EXCEPT !.fn = TailReturn, !.tails = @ - 1]
                     ELSE popping
  /\ UNCHANGED <<now, options, lua, status, lost>>

\* An error unwinds to the innermost pcall, or to the host, or to the resume
\* of the coroutine, which dies of it.
Raise(t) ==
  /\ MayCall(t) /\ calls[t] # <<>>
  /\ Top(calls[t]).fn \notin Pcalls
  /\ LET left == Unwound(calls[t], Pcalls)
     IN  /\ calls' = [calls EXCEPT ![t] = left]
         /\ caught' = IF left = <<>> THEN caught ELSE caught \cup {t}
         /\ hostErr' = IF left = <<>> /\ t = Main THEN hostErr \cup {t} ELSE hostErr
         /\ alive' = IF left = <<>> /\ t # Main THEN alive \ {t} ELSE alive
  /\ UNCHANGED <<now, options, invoked, status, stack, records, popping, lost>>

\* lmprof.stop: its call event is not pushed, and pop_remaining_stacks pops
\* what is left of every stack, the root included.
Stop(t, collect) ==
  /\ MayCall(t) /\ MayCollect(t, collect)
  /\ HookPrepares(t, calls[t], collect)
  /\ status' = "stopping"
  /\ UNCHANGED <<now, options, lua, popping>>

PopRemaining(t) ==
  /\ status = "stopping" /\ stack[t] # <<>>
  /\ popping # None => popping.thread = t
  /\ MeasuredPop(t)
  /\ popping' = IF Len(stack[t]) = 1 THEN None
                ELSE [thread |-> t, fn |-> None, tails |-> 0]
  /\ UNCHANGED <<now, options, lua, status, lost>>

Stopped ==
  /\ status = "stopping" /\ \A t \in Threads : stack[t] = <<>>
  /\ status' = "stopped"
  /\ UNCHANGED <<now, options, lua, stack, records, popping, lost>>
-----------------------------------------------------------------------------
\* The profiler has just started on the main thread, whose stack
\* lmprof_initialize_thread allocates.
Init ==
  /\ now = 0
  /\ vm \in VMs /\ loadStack \in LoadStacks /\ compress \in BOOLEAN
  /\ alive = Threads
  /\ calls = [t \in Threads |->
                IF t # Main THEN <<>>
                ELSE [i \in DOMAIN BaseFrames |-> Frame(BaseFrames[i], loadStack)]]
  /\ caught = {} /\ hostErr = {}
  /\ status = "running"
  /\ stack = [t \in Threads |-> IF t = Main THEN NewStack(calls[Main]) ELSE <<>>]
  /\ records = [k \in NewKeys(calls[Main]) |-> Zero]
  /\ popping = None
  /\ invoked = [f \in Funcs |->
                  IF loadStack THEN Cardinality({i \in DOMAIN BaseFrames : BaseFrames[i] = f})
                  ELSE 0]
  /\ lost = [t \in Threads |-> <<>>]

ThreadStep(t) ==
  \/ \E f \in Funcs, collect \in BOOLEAN :
       Call(t, f, collect) \/ TailCall(t, f, collect)
  \/ \E collect \in BOOLEAN : Return(t, collect) \/ Stop(t, collect)
  \/ ReturnUnseen(t)
  \/ Raise(t)
  \/ PopRemaining(t)

Next ==
  \/ Tick
  \/ PopReturned
  \/ Stopped
  \/ \E t \in Threads : ThreadStep(t)

Spec == Init /\ [][Next]_vars
-----------------------------------------------------------------------------
(* Properties *)

Entries == [rec : DOMAIN records, start : 0 .. MaxTime, path : 0 .. MaxTime]

LuaTypeOK ==
  /\ alive \subseteq Threads /\ caught \subseteq Threads /\ hostErr \subseteq Threads
  /\ calls \in [Threads -> Seq([fn : Funcs, seen : BOOLEAN, lost : BOOLEAN])]
  /\ invoked \in [Funcs -> Nat]

ProfileTypeOK ==
  /\ now \in 0 .. MaxTime
  /\ vm \in VMs /\ loadStack \in LoadStacks /\ compress \in BOOLEAN
  /\ status \in {"running", "stopping", "stopped", "error"}
  /\ stack \in [Threads -> Seq(Entries)]
  /\ lost \in [Threads -> Seq(Entries)]
  /\ \A k \in DOMAIN records : records[k] \in [count : Nat, node : Nat, path : Nat]
  /\ popping = None
     \/ popping \in [thread : Threads, fn : Funcs \cup {TailReturn, None}, tails : Nat]

\* Every variable holds a value of its kind; in particular no measurement of
\* a record or a stack entry is ever negative, which unsigned would be huge.
TypeOK == LuaTypeOK /\ ProfileTypeOK

\* The entries of a stack measure intervals that nest: what an entry's closed
\* children took lies between its start and the next entry's.  It is why the
\* unsigned subtractions of lmprof_stack_measured_pop never wrap around,
\* whatever events errors, tail calls and coroutines leave out.
Nested ==
  \A t \in Threads : \A i \in DOMAIN stack[t] :
    stack[t][i].start + stack[t][i].path
      <= IF i < Len(stack[t]) THEN stack[t][i + 1].start ELSE now

\* The root of a thread's stack outlives every event: until stop, whatever
\* returns a thread has without a call the profiler saw, its first entry is
\* still the one the stack was made with, and measures from then on.
RootStays ==
  [][status' = "running" =>
       \A t \in alive : stack[t] # <<>> =>
         /\ stack'[t] # <<>>
         /\ stack'[t][1].rec = RootKey
         /\ stack'[t][1].start = stack[t][1].start]_vars

\* The identifier by which a record's children refer to it.
ParentId(k) == IF compress THEN k[1] ELSE k

\* The time of the callees of id's records: what is not their own of theirs,
\* what the entries of a stack for them have collected, and what the records of
\* the callees themselves have.
NotOwn(id) ==
  SumFunction([k \in DOMAIN records |->
                 IF ParentId(k) = id THEN records[k].path - records[k].node ELSE 0])

Collected(id, s) ==
  SumFunction([i \in DOMAIN s |-> IF ParentId(s[i].rec) = id THEN s[i].path ELSE 0])

OfCallees(id) ==
  SumFunction([k \in DOMAIN records |->
                 IF k # RootKey /\ k[2] = id THEN records[k].path ELSE 0])

\* The graph adds up: the time of a function apart from its own is the time of
\* its callees, in the records of any one parent, counting what open entries
\* have yet to record and what was freed with the stacks of dead threads.
ChildrenAddUp ==
  \A id \in {ParentId(k) : k \in DOMAIN records} :
    NotOwn(id) + SumFunction([t \in Threads |-> Collected(id, stack[t]) + Collected(id, lost[t])])
      = OfCallees(id)

\* Under PUC Lua time goes to the function it passes in: between events the
\* stack holds the calls in progress that the profiler saw, in order, and the
\* calls an error unwound only until the pcall that caught it returns.  (An
\* error the host catches leaves them for good.)
Attribution ==
  status = "running" /\ vm = "puc51" =>
    \A t \in alive \ hostErr :
      LET seen == SeenCalls(calls[t])
          s == stack[t]
      IN  /\ popping = None \/ popping.thread # t
          /\ s # <<>>
          => /\ Len(s) - 1 >= Len(seen)
             /\ \A i \in DOMAIN seen : s[i + 1].rec[1] = seen[i].fn
             /\ t \notin caught => Len(s) - 1 = Len(seen)

\* The count in the records of a function.
CountOf(f) ==
  SumFunction([k \in DOMAIN records |-> IF k[1] = f THEN records[k].count ELSE 0])

\* lmprof_record.h calls a record's count the "number of function
\* invocations".  Once the profiler has stopped, every call made while it ran
\* is counted once, except those of threads whose stacks were freed.
CountsInvocations ==
  status = "stopped" /\ (\A t \in Threads : lost[t] = <<>>) =>
    \A f \in Funcs : CountOf(f) = invoked[f]
=============================================================================
