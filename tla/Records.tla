------------------------------- MODULE Records -------------------------------
(***************************************************************************)
(* The records of graph profiles: which record a call, a loaded frame or a *)
(* sampled frame is counted in, over several sessions of a profiler        *)
(* (lmprof_lib.c, lmprof.c, lmprof_report_graph.c).                        *)
(*                                                                         *)
(* GraphStack follows measurements, through all that Lua does to a call    *)
(* stack.  Here records have the identifiers and the hash that the code    *)
(* gives them, and functions are hashed to identifiers that may collide.   *)
(***************************************************************************)
EXTENDS RecordHash, FiniteSets, FiniteSetsExt, Functions, SequencesExt

CONSTANTS
  Threads,      \* Lua threads
  Main,         \* the one that starts the profiler
  Funcs,        \* functions
  Starter,      \* state_start, one of them
  Identifier,   \* lmprof_record_id of each
  LinesOf,      \* the lines of each; none for C functions
  BaseFrames,   \* functions active on the main thread at first
  Confs,        \* the profilers considered
  MaxStack      \* bound: active functions of a thread

\* compress, byLine, load: LMPROF_OPT_COMPRESS_GRAPH, LINE_FREQUENCY,
\* LOAD_STACK; lines, samples: LMPROF_MODE_LINE, and SAMPLE without INSTRUMENT;
\* kept: the object is persistent; noMemory: a record may not be allocated;
\* threads: threads that run.  Bounds: sessions; limit, of steps between a
\* start and a stop.
AllConfs ==
  [compress : BOOLEAN, byLine : BOOLEAN, load : BOOLEAN, lines : BOOLEAN, samples : BOOLEAN,
   kept : BOOLEAN, noMemory : BOOLEAN, threads : SUBSET Threads, sessions : Nat, limit : Nat]

Root == 0   \* LMPROF_RECORD_ID_ROOT

ASSUME RecordsAssumption ==
  /\ Main \in Threads /\ IsFiniteSet(Threads)
  /\ Starter \in Funcs /\ LinesOf[Starter] = {}
  /\ \A f \in Funcs : Identifier[f] \in Nat \ {Root} /\ LinesOf[f] \subseteq Nat \ {0}
  /\ BaseFrames \in Seq(Funcs \ {Starter})
  /\ Confs \subseteq AllConfs
  /\ \A cf \in Confs : (cf.load => cf.threads = {Main}) /\ ~(cf.lines /\ cf.samples)

VARIABLES
  conf,       \* one of Confs
  session,    \* the number of sessions begun
  running,    \* LMPROF_STATE_RUNNING
  steps,      \* steps of the program in this session
  calls,      \* each thread's active functions and their current lines
  stack,      \* LMPROF_TAB_THREAD_STACKS: records and last lines
  count,      \* each record's graph.count
  report,     \* the last report, in its order
  seen        \* ghost: the records used for each path of calls, and how often

program == <<calls, steps>>
profile == <<hash, stack, count, seen>>
vars == <<conf, session, running, program, profile, report>>

Thread(t) == t \in conf.threads /\ running /\ steps < conf.limit

\* The client's call of start has not returned: nothing else can happen.
Starting == calls[Main] # <<>> /\ Last(calls[Main]).fn = Starter
-----------------------------------------------------------------------------
(* Records.  r is what a hook has changed so far.                          *)

Work == [hash |-> hash, stack |-> stack, count |-> count, seen |-> seen]

\* Faulty: parents are records in a compressed graph too.
ParentRecord(h, id) == id

\* P_ID
ParentId(h, id) == IF conf.compress THEN h.keys[id].fn ELSE id

KeyOf(fn, parent, line) == [fn |-> fn, parent |-> parent, line |-> line]
RootKey == KeyOf(Root, Root, 0)

\* A path is followed to a record: n more calls.
Noted(s, path, id, n) ==
  LET was == IF <<path, id>> \in DOMAIN s THEN s[<<path, id>>] ELSE 0
  IN  [a \in DOMAIN s \cup {<<path, id>>} |-> IF a = <<path, id>> THEN was + n ELSE s[a]]

\* lmprof_fetch_record
Used(r, k, path, n) ==
  LET id == Fetched(r.hash, k)
  IN  [r EXCEPT !.hash = Fetch(@, k),
                !.count = [i \in DOMAIN @ \cup {id} |-> IF i \in DOMAIN @ THEN @[i] ELSE 0],
                !.seen = Noted(@, path, id, n)]

\* lmprof_stack_measured_push of the record of k on t's stack.
Pushed(r, t, k, path) ==
  [Used(r, k, path, 1) EXCEPT
     !.stack[t] = Append(@, [record |-> Fetched(r.hash, k), line |-> 0, path |-> path])]

\* The parent identifier a traceback is pushed under.
\* LMPROF_OPT_COMPRESS_GRAPH is tested the wrong way around here.
LoadedParent(id) == IF conf.compress THEN id ELSE Root

\* lmprof_thread_stacktable_get pushes the active functions of the main thread,
\* each from the line at which the one below it is.
LoadedFrame(r, active, i) ==
  LET caller == Last(r.stack[Main])
      fn == Identifier[active[i].fn]
      line == IF i = 1 THEN 0 ELSE active[i - 1].line
      parent == IF i = 1 THEN LoadedParent(caller.record)
                ELSE ParentId(r.hash, caller.record)
  IN  Pushed(r, Main, KeyOf(fn, parent, line), Append(caller.path, <<fn, line>>))

Loaded(r, active) ==
  LET upTo[i \in 0 .. Len(active)] == IF i = 0 THEN r ELSE LoadedFrame(upTo[i - 1], active, i)
  IN  IF conf.load THEN upTo[Len(active)] ELSE r

\* lmprof_thread_stacktable_get for a thread that has no stack.
NewStack(r, t) == Pushed(r, t, RootKey, <<>>)

\* graph_prehook
Prehook(t) == IF stack[t] = <<>> THEN NewStack(Work, t) ELSE Work

Leave(r) ==
  /\ hash' = r.hash /\ stack' = r.stack /\ count' = r.count /\ seen' = r.seen

\* How often a record is on a stack, above the n-th entry.
OnStack(s, n, id) == Cardinality({i \in DOMAIN s : i > n /\ s[i].record = id})

\* lmprof_stack_measured_pop of the entries above the n-th.
Popped(r, t, n) ==
  [r EXCEPT !.stack[t] = SubSeq(@, 1, n),
            !.count = [id \in DOMAIN @ |-> @[id] + OnStack(r.stack[t], n, id)]]

\* How often a record is on the stacks.
Open(stacks, id) == SumFunction([t \in Threads |-> OnStack(stacks[t], 0, id)])

\* pop_remaining_stacks: every entry of every stack, the roots too.
PoppedAll(r) ==
  [r EXCEPT !.stack = [t \in Threads |-> <<>>],
            !.count = [id \in DOMAIN @ |-> @[id] + Open(r.stack, id)]]
-----------------------------------------------------------------------------
(* The program and its hooks *)

FirstLine(f) == IF LinesOf[f] = {} THEN 0 ELSE Min(LinesOf[f])
Active(f) == [fn |-> f, line |-> FirstLine(f)]

Step == steps' = steps + 1 /\ UNCHANGED <<conf, session, running, report>>

\* LUA_HOOKCALL
CallHook(t, f) ==
  LET r == Prehook(t)
      caller == Last(r.stack[t])
      fn == Identifier[f]
      k == KeyOf(fn, ParentId(r.hash, caller.record), caller.line)
  IN  Pushed(r, t, k, Append(caller.path, <<fn, caller.line>>))

Call(t, f) ==
  /\ Thread(t) /\ ~Starting /\ f # Starter
  /\ Len(calls[t]) < MaxStack /\ Len(stack[t]) < MaxStack
  /\ calls' = [calls EXCEPT ![t] = Append(@, Active(f))]
  /\ IF conf.samples THEN UNCHANGED profile ELSE Leave(CallHook(t, f))
  /\ Step

\* Faulty: the root is popped by the return of a function without an entry.
KeptWithoutRoot(r, t, fn) ==
  LET own == {i \in 2 .. Len(r.stack[t]) : r.hash.keys[r.stack[t][i].record].fn = fn}
  IN  IF own = {} THEN 0 ELSE Max(own) - 1

\* LUA_HOOKRET: entries are popped up to one of the function that returns, but
\* never the root.
Kept(r, t, fn) ==
  LET own == {i \in 2 .. Len(r.stack[t]) : r.hash.keys[r.stack[t][i].record].fn = fn}
  IN  IF own = {} THEN 1 ELSE Max(own) - 1

Return(t) ==
  LET fn == Identifier[Last(calls[t]).fn]
      r == Prehook(t)
  IN  /\ Thread(t) /\ calls[t] # <<>>
      /\ calls' = [calls EXCEPT ![t] = Front(@)]
      /\ IF conf.samples THEN UNCHANGED profile
         ELSE Leave(Popped(r, t, Kept(r, t, fn)))
      /\ Step

\* An error unwinds a call, or LuaJIT returns from a C function: no event.
Unwind(t) ==
  /\ Thread(t) /\ ~Starting /\ calls[t] # <<>>
  /\ calls' = [calls EXCEPT ![t] = Front(@)]
  /\ UNCHANGED profile /\ Step

\* The program goes on to a line, and LUA_HOOKLINE where it is hooked.
Line(t, line) ==
  LET top == Len(calls[t])
      r == Prehook(t)
  IN  /\ Thread(t) /\ ~Starting /\ calls[t] # <<>>
      /\ line \in LinesOf[calls[t][top].fn] \ {calls[t][top].line}
      /\ calls' = [calls EXCEPT ![t][top].line = line]
      /\ IF conf.lines THEN Leave([r EXCEPT !.stack[t][Len(r.stack[t])].line = line])
         ELSE UNCHANGED profile
      /\ Step

\* Faulty: a frame below the top is never counted.
CountsLeavesOnly(r, id, leaf) == leaf

\* Every record of a sample counts once at least, that of the top always.
Counts(r, id, leaf) == leaf \/ id \notin DOMAIN r.count \/ r.count[id] = 0

\* lmprof_sample_stack, for one frame, in r.work; parent and line are those of
\* the frame below, path the path to that.
Sampled(r, fn, path, leaf, line) ==
  LET k == KeyOf(fn, r.parent, r.line)
      id == Fetched(r.work.hash, k)
      used == Used(r.work, k, path, IF leaf THEN 1 ELSE 0)
  IN  [work |-> [used EXCEPT !.count[id] = IF Counts(r.work, id, leaf) THEN @ + 1 ELSE @],
       parent |-> ParentId(used.hash, id), line |-> line, path |-> path]

SampledRoot(r) == Sampled([work |-> r, parent |-> Root, line |-> 0], Root, <<>>, FALSE, 0)

SampledFrame(r, active, i) ==
  LET fn == Identifier[active[i].fn]
  IN  Sampled(r, fn, Append(r.path, <<fn, r.line>>), i = Len(active),
              IF conf.byLine THEN active[i].line ELSE 0)

\* LUA_HOOKCOUNT in graph_sample
Sample(t) ==
  LET upTo[i \in 0 .. Len(calls[t])] ==
        IF i = 0 THEN SampledRoot(Work) ELSE SampledFrame(upTo[i - 1], calls[t], i)
  IN  /\ Thread(t) /\ conf.samples /\ ~Starting /\ calls[t] # <<>>
      /\ Leave(upTo[Len(calls[t])].work)
      /\ UNCHANGED calls /\ Step
-----------------------------------------------------------------------------
(* Sessions *)

\* state_start, called on the main thread; what it returns from is an event.
Start ==
  /\ ~running /\ session < conf.sessions
  /\ session' = session + 1 /\ running' = TRUE /\ steps' = 0
  /\ calls' = [calls EXCEPT ![Main] = Append(@, Active(Starter))]
  /\ LET new == [Work EXCEPT !.count = <<>>, !.seen = <<>>]
     IN  Leave(IF conf.samples THEN new ELSE Loaded(NewStack(new, Main), calls'[Main]))
  /\ report' = <<>> /\ UNCHANGED conf

\* lmprof_shutdown_profiler, after which the next record of this object, or of
\* another one, has number next.
Shutdown(next) ==
  /\ running' = FALSE
  /\ Clear(IF conf.kept THEN next ELSE 0)
  /\ stack' = [t \in Threads |-> <<>>]
  /\ UNCHANGED <<conf, session, steps>>

\* graph_hash_callback, for one record.
Row(h, counts, id) ==
  [id |-> id, func |-> h.keys[id].fn, parent |-> h.keys[id].parent,
   line |-> h.keys[id].line, count |-> counts[id]]

\* Faulty: the last bucket is left out.
ReportedButLast(h, counts) ==
  LET order == FlattenSeq([b \in 1 .. BucketCount - 1 |-> h.chains[b - 1]])
  IN  [i \in DOMAIN order |-> Row(h, counts, order[i])]

\* lmprof_hash_report, whose callback writes a record.
Reported(h, counts) ==
  LET order == FlattenSeq([b \in 1 .. BucketCount |-> h.chains[b - 1]])
  IN  [i \in DOMAIN order |-> Row(h, counts, order[i])]

\* Stop on thread t, by a call whose event is not counted.
Stop(t) ==
  LET popped == PoppedAll(IF conf.samples THEN Work ELSE Prehook(t))
  IN  /\ running /\ t \in conf.threads /\ ~Starting
      /\ Shutdown(popped.hash.next) /\ UNCHANGED calls
      /\ count' = popped.count /\ seen' = popped.seen
      /\ report' = Reported(popped.hash, popped.count)

Quit ==
  /\ running /\ ~Starting
  /\ Shutdown(hash.next)
  /\ UNCHANGED <<calls, count, seen, report>>

\* A record cannot be allocated, or not inserted once it has its number: an
\* error ends the session, and a call of start (lmprof_error).
OutOfMemory ==
  /\ running /\ conf.noMemory
  /\ \E failed \in {0, 1} : Shutdown(hash.next + failed)
  /\ calls' = IF Starting THEN [calls EXCEPT ![Main] = Front(@)] ELSE calls
  /\ UNCHANGED <<count, seen, report>>
-----------------------------------------------------------------------------
Init ==
  /\ HashInit
  /\ conf \in Confs /\ session = 0 /\ running = FALSE /\ steps = 0
  /\ calls = [t \in Threads |-> IF t = Main THEN [i \in DOMAIN BaseFrames |-> Active(BaseFrames[i])]
                                ELSE <<>>]
  /\ stack = [t \in Threads |-> <<>>]
  /\ count = <<>> /\ report = <<>> /\ seen = <<>>

Next ==
  \/ Start
  \/ \E t \in Threads :
       \/ \E f \in Funcs : Call(t, f)
       \/ Return(t)
       \/ Unwind(t)
       \/ \E line \in LinesOf[IF calls[t] = <<>> THEN Starter ELSE Last(calls[t]).fn] : Line(t, line)
       \/ Sample(t)
       \/ Stop(t)
  \/ Quit
  \/ OutOfMemory

Spec == Init /\ [][Next]_vars
-----------------------------------------------------------------------------
(* Properties *)

\* Every variable holds a value of its kind; stacks have the root's entry as long
\* as the session runs, and all their entries point to records.
TypeOK ==
  /\ conf \in Confs /\ session \in 0 .. conf.sessions /\ steps \in 0 .. conf.limit + 1
  /\ running \in BOOLEAN
  /\ running /\ ~conf.samples => stack[Main] # <<>>
  /\ \A t \in Threads : stack[t] # <<>> =>
       /\ running
       /\ hash.keys[stack[t][1].record] = RootKey
       /\ \A i \in DOMAIN stack[t] : /\ stack[t][i].record \in DOMAIN hash.keys
                                     /\ i > 1 => stack[t][i].record # stack[t][1].record
  /\ running => DOMAIN count = DOMAIN hash.keys

\* What a record stands for: a path of calls, or in a compressed graph the last
\* call of it.
Class(path) ==
  IF ~conf.compress \/ path = <<>> THEN path
  ELSE <<IF Len(path) = 1 THEN Root ELSE path[Len(path) - 1][1], Last(path)>>

\* Two calls, loaded frames or sampled frames are counted in one record if and
\* only if they are of one path (in a compressed graph, of one function called
\* from one function), whatever thread they are on and however they were seen
\* (P_ID, lmprof_fetch_record).
SharedPaths ==
  \A a, b \in DOMAIN seen : a[2] = b[2] <=> Class(a[1]) = Class(b[1])

Total(id) == SumFunction([a \in {b \in DOMAIN seen : b[2] = id} |-> seen[a]])

\* A record has counted every time it was pushed and is no longer on a stack,
\* although events are missing.  In a sampled graph it has counted the samples
\* it was the top of, and one more at most (lmprof_sample_stack).
CallsCounted ==
  running => \A id \in DOMAIN count :
    IF conf.samples THEN count[id] \in {Total(id), Total(id) + 1} \ {0}
    ELSE count[id] + Open(stack, id) = Total(id)

\* A report has the records of its session, each once, with all that they
\* counted, those still open at stop as well (pop_remaining_stacks,
\* lmprof_hash_report).
ReportsAll ==
  report # <<>> =>
    /\ \A a \in DOMAIN seen : Cardinality({i \in DOMAIN report : report[i].id = a[2]}) = 1
    /\ \A i \in DOMAIN report :
         /\ report[i].id \in DOMAIN count
         /\ report[i].count - Total(report[i].id) \in IF conf.samples THEN 0 .. 1 ELSE {0}

\* What other records of a report call a record by.
Name(q) == IF conf.compress THEN q.func ELSE q.id

\* The graph of a report is connected: names that include the root's, and that
\* of every record whose parent's they include, are the names of all records
\* (scripts/graph.lua, which reports an error otherwise).
Connected ==
  LET names == {Name(q) : q \in Range(report)}
  IN  \A reached \in SUBSET names :
        (\A q \in Range(report) : q.func = Root \/ q.parent \in reached => Name(q) \in reached)
        => reached = names
=============================================================================
