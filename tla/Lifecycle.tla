----------------------------- MODULE Lifecycle -----------------------------
(***************************************************************************)
(* The life of a profiling session: lmprof_lib.c's module and userdata     *)
(* API over lmprof.c's profiler state, as built for Lua 5.1 (PUC and       *)
(* LuaJIT) without LMPROF_BUILTIN.                                         *)
(*                                                                         *)
(* A session takes over four things of the Lua process, shared by every    *)
(* profiler object: the registry's singleton, debug.sethook, the allocator *)
(* with the garbage collector, and the debug hook of each coroutine.  The  *)
(* module follows them through every call that begins or ends a session,   *)
(* the calls that may come in between, coroutines that inherit a hook and  *)
(* outlive the session, and the errors the profiler raises itself.         *)
(*                                                                         *)
(* Measurements are left to the modules GraphStack and those after it.     *)
(***************************************************************************)
EXTENDS Naturals, Sequences

CONSTANTS
  Prof,         \* profiler userdata that are ever created
  Threads,      \* Lua threads: the main one and coroutines
  Main,         \* the main thread
  Base,         \* the allocator the Lua state was opened with
  Null,         \* a null lua_Alloc
  None,         \* no profiler, no thread
  ModeArgs,     \* mode sets clients pass to create, start, func, set_mode
  VMs,          \* the builds considered: "puc51", "luajit"
  MaxNest,      \* bound: nesting of profiled function calls
  Habits        \* what clients do that the code does not survive, see below

Modes == {"time", "instrument", "sample", "memory", "trace", "lines", "single_thread"}
Kinds == {"graph", "sample", "trace"}

\* lmprof_parsemode accepts the argument list.  set_mode takes any list; the
\* lists that only it accepts are left out.  The test that should reserve
\* {"trace", "sample"} for single_thread never succeeds: LMPROF_CALLBACK_MASK
\* holds a second bit, which no mode string sets.
ValidMode(m) ==
  /\ m \subseteq Modes
  /\ m \ {"lines", "single_thread"} # {}
  /\ "time" \in m => m \subseteq {"time", "lines", "single_thread"}
  /\ m \cap {"memory", "lines"} # {} /\ "sample" \in m => "instrument" \in m

\* "create_in_profile":   lmprof.create while a session counts allocations
\* "set_mode_in_profile": state:set_mode on the object whose session exists
\* "restart_finished":    state:start on a finished object of lmprof.start
\* "outlive_session":     a profiled function returns normally after its own
\*                        session ended inside it
\* "trace_without_calls": a session traces memory or samples, but no calls
AllHabits == {"create_in_profile", "set_mode_in_profile", "restart_finished",
              "outlive_session", "trace_without_calls"}

ASSUME LifecycleAssumption ==
  /\ Main \in Threads
  /\ None \notin Prof \cup Threads
  /\ Base \notin Prof /\ Null \notin Prof /\ Base # Null
  /\ \A m \in ModeArgs : ValidMode(m)
  /\ VMs \subseteq {"puc51", "luajit"}
  /\ MaxNest \in Nat
  /\ Habits \subseteq AllHabits

VARIABLES
  \* of each profiler object
  obj,          \* "free", "live", or "gone" once its metatable is removed
  mode,         \* st->mode
  flags,        \* st->state, the bits that outlive a call
  lhook,        \* st->hook.l_hook, by kind of hook function
  prev,         \* st->hook.alloc, the allocator saved when it was created
  data,         \* what is allocated: the record hash, the event list
  \* of the Lua process
  vm,           \* the build: LuaJIT has one hook for all threads
  singleton,    \* registry: the profiler whose session exists
  owner,        \* st->thread.main of that profiler
  sethook,      \* the value of debug.sethook: "sethook" or "override"
  saved,        \* LMPROF_DEBUG_HOOK: "sethook" or "nil"
  allocf,       \* lua_getallocf: Base, or the profiler that alloc_hook serves
  gcOn,         \* the collector was not stopped by the profiler
  \* of the threads
  thread,       \* "new", "alive", "dead"
  hooks,        \* lua_gethook by kind, "user" for a hook that is not ours
  ids,          \* LMPROF_TAB_THREAD_IDS: threads with an identifier
  stacks,       \* LMPROF_TAB_THREAD_STACKS: threads with a profile stack
  \* of the C stack
  frames,       \* calls of file, string and func in progress
  fault         \* a null allocator, hash or event list was dereferenced: a crash

pvars == <<obj, mode, flags, lhook, prev, data>>
gvars == <<singleton, owner, sethook, saved, allocf, gcOn>>
tvars == <<thread, hooks, ids, stacks>>
vars == <<pvars, vm, gvars, tvars, frames, fault>>

Running(p) == "RUNNING" \in flags[p]
Alive(t) == thread[t] = "alive"

\* lmprof_initialize_state: no allocations are counted in single_thread.
Sanitized(m) == IF "single_thread" \in m THEN m \ {"memory"} ELSE m

\* The hook function lmprof_initialize_only_hooks selects.
HookKind(m) ==
  IF "time" \in m THEN "none"
  ELSE IF "trace" \in m THEN "trace"
  ELSE IF "sample" \in m /\ "instrument" \notin m THEN "sample"
  ELSE "graph"

\* The hook lua_sethook leaves: with an empty event mask it installs none.  Of
\* a sampler the instruction count is taken to be set; traces sample only in
\* single_thread.
Installed(m) ==
  IF \/ m \cap {"instrument", "memory", "lines"} # {}
     \/ "sample" \in m /\ ("trace" \in m => "single_thread" \in m)
  THEN HookKind(m) ELSE "none"

\* traceevent_instrument finds the profile stack that it reads.
StackReady(m) == Installed(m) = "trace" => "instrument" \in m

Startable(m) == "time" \in m \/ m \cap {"instrument", "memory", "sample"} # {}

\* Starting in mode m allocates through st->hook.alloc.
Allocates(m) ==
  "time" \notin m /\ m \cap {"instrument", "memory", "sample", "trace"} # {}

\* An object that has been reset has no allocator left to start with.
CanAllocate(p) == prev[p] # Null \/ ~Allocates(mode[p])

Structures(m) ==
  CASE HookKind(m) = "none" -> {}
    [] HookKind(m) = "trace" -> {"hash", "list"}
    [] OTHER -> {"hash"}

\* lmprof_push_report finds the structure it reads.
ReportSafe(p) ==
  \/ "time" \in mode[p]
  \/ "trace" \in mode[p] /\ "list" \in data[p]
  \/ "trace" \notin mode[p] /\ "hash" \in data[p]
  \/ mode[p] \cap {"trace", "instrument", "memory", "sample"} = {}

\* lua_sethook on the threads of T: LuaJIT keeps one hook for all of them.
SetHook(T, kind) ==
  [t \in Threads |->
     IF T # {} /\ (t \in T \/ vm = "luajit") THEN kind ELSE hooks[t]]

\* lmprof_thread_info_gc, called by thread t: dead threads lose their entry.
Collected(T, t) == {u \in T : u = t \/ Alive(u)}
-----------------------------------------------------------------------------
(* Beginning a session *)

\* lmprof_check_can_profile
CanProfile(t) == singleton = None /\ hooks[t] = "none"

\* The threads lmprof_initialize_thread hooks: the caller's and, outside of
\* single_thread, every live thread with an identifier.  Under LuaJIT the
\* caller's lua_sethook has already hooked the others.
Hooked(t, m) ==
  IF HookKind(m) = "none" THEN {}
  ELSE IF "single_thread" \in m \/ vm = "luajit" THEN {t}
  ELSE {t} \cup {u \in ids : Alive(u) /\ hooks[u] # HookKind(m)}

\* lmprof_initialize_profiler for object p in mode m, with saved allocator
\* pv and flags fl, called by thread t.
Begin(p, t, m, pv, fl, gcOff) ==
  /\ obj' = [obj EXCEPT ![p] = "live"]
  /\ mode' = [mode EXCEPT ![p] = m]
  /\ prev' = [prev EXCEPT ![p] = pv]
  /\ flags' = [flags EXCEPT ![p] = fl \cup {"RUNNING"}
                 \cup (IF gcOff THEN {"GC_WAS_RUNNING"} ELSE {})]
  /\ lhook' = [lhook EXCEPT ![p] =
                 IF HookKind(m) = "none" THEN @ ELSE HookKind(m)]
  /\ data' = [data EXCEPT ![p] = @ \cup Structures(m)]
  /\ singleton' = p
  /\ owner' = t
  /\ sethook' = "override"
  /\ saved' = sethook
  /\ allocf' = IF "memory" \in m THEN p ELSE allocf
  /\ gcOn' = (gcOn /\ ~gcOff)
  /\ hooks' = SetHook(Hooked(t, m), Installed(m))
  /\ stacks' = IF "instrument" \in m THEN Hooked(t, m) ELSE {}
  /\ ids' = Collected(ids, t) \cup stacks'
  /\ UNCHANGED <<vm, thread>>

\* frames after the call began: file, string and func keep a C frame.
Enter(p, t, call) ==
  IF call THEN Append(frames, [prof |-> p, thread |-> t]) ELSE frames

\* lmprof.create
Create(p, m) ==
  /\ obj[p] = "free"
  /\ allocf = Base \/ "create_in_profile" \in Habits
  /\ obj' = [obj EXCEPT ![p] = "live"]
  /\ mode' = [mode EXCEPT ![p] = Sanitized(m)]
  /\ flags' = [flags EXCEPT ![p] = {"PERSISTENT"}]
  /\ prev' = [prev EXCEPT ![p] = allocf]
  /\ UNCHANGED <<lhook, data, vm, gvars, tvars, frames, fault>>

\* lmprof.start, and with call lmprof.file, string and func, which build
\* the object they run; func adds single_thread to the mode it is given.
StartNew(p, t, m, gcOff, call) ==
  /\ obj[p] = "free"
  /\ Alive(t) /\ CanProfile(t)
  /\ call => Len(frames) < MaxNest
  /\ Startable(m)
  /\ StackReady(Sanitized(m)) \/ "trace_without_calls" \in Habits
  /\ Begin(p, t, Sanitized(m), allocf, {}, gcOff)
  /\ frames' = Enter(p, t, call)
  /\ UNCHANGED fault

\* state:start, and with call state:file, string and func.  Its garbage
\* collector option is an input: state:set_option may have changed it.
Start(p, t, gcOff, call) ==
  /\ obj[p] = "live" /\ "ERROR" \notin flags[p]
  /\ Alive(t) /\ CanProfile(t)
  /\ call => Len(frames) < MaxNest
  /\ Startable(mode[p])
  /\ CanAllocate(p) \/ "restart_finished" \in Habits
  /\ StackReady(mode[p]) \/ "trace_without_calls" \in Habits
  /\ Begin(p, t, mode[p], prev[p], flags[p], gcOff)
  /\ frames' = Enter(p, t, call)
  /\ fault' = ~CanAllocate(p)

\* A start whose mode selects nothing to run raises lmprof_error, in trace mode
\* only after it has allocated.  The error handler of a usable object leaves it
\* as it was; a finished one has none.
StartRefused(p, t) ==
  /\ obj[p] = "live" /\ "ERROR" \notin flags[p]
  /\ Alive(t) /\ CanProfile(t)
  /\ ~Startable(mode[p])
  /\ CanAllocate(p) \/ "restart_finished" \in Habits
  /\ flags' = [flags EXCEPT ![p] = IF prev[p] = Null THEN @ \cup {"ERROR"} ELSE @]
  /\ fault' = ~CanAllocate(p)
  /\ UNCHANGED <<obj, mode, lhook, prev, data, vm, gvars, tvars, frames>>
-----------------------------------------------------------------------------
(* Ending a session *)

\* Faulty: the loop over the identifier table is missing.
UnhookedCaller(p, t) == {u \in {t} : lhook[p] # "none" /\ hooks[u] = lhook[p]}

\* The threads lmprof_finalize_profiler, called by t, finds with p's hook.
\* Under LuaJIT it has unhooked all of them with the first.
Unhooked(p, t) ==
  {u \in {t} \cup (IF "single_thread" \in mode[p] \/ vm = "luajit"
                   THEN {} ELSE ids) :
     lhook[p] # "none" /\ hooks[u] = lhook[p]}

\* Faulty: the collector is not restarted.
FinalizeKeepsGC(p, t) ==
  /\ allocf' = IF Running(p) /\ allocf = p /\ "memory" \in mode[p]
               THEN prev[p] ELSE allocf
  /\ hooks' = IF Running(p) THEN SetHook(Unhooked(p, t), "none") ELSE hooks
  /\ UNCHANGED gcOn

\* Faulty: only the thread that began the session restores the allocator.
FinalizeByOwner(p, t) ==
  /\ allocf' = IF Running(p) /\ allocf = p /\ owner = t THEN prev[p] ELSE allocf
  /\ gcOn' = (gcOn \/ (Running(p) /\ "GC_WAS_RUNNING" \in flags[p]))
  /\ hooks' = IF Running(p) THEN SetHook(Unhooked(p, t), "none") ELSE hooks

\* Faulty: the object is reset first, and a null allocator restored.
FinalizeAfterReset(p, t) ==
  /\ allocf' = IF Running(p) /\ allocf = p
               THEN IF "PERSISTENT" \in flags[p] THEN prev[p] ELSE Null
               ELSE allocf
  /\ gcOn' = (gcOn \/ (Running(p) /\ "GC_WAS_RUNNING" \in flags[p]))
  /\ hooks' = IF Running(p) THEN SetHook(Unhooked(p, t), "none") ELSE hooks

\* lmprof_finalize_profiler undoes what a running session altered.
Finalize(p, t) ==
  /\ allocf' = IF Running(p) /\ allocf = p /\ "memory" \in mode[p]
               THEN prev[p] ELSE allocf
  /\ gcOn' = (gcOn \/ (Running(p) /\ "GC_WAS_RUNNING" \in flags[p]))
  /\ hooks' = IF Running(p) THEN SetHook(Unhooked(p, t), "none") ELSE hooks

\* Faulty: an object of lmprof.start leaves debug.sethook overridden.
ShutdownKeepsOverride(p, t, kept) ==
  /\ data' = [data EXCEPT ![p] = {}]
  /\ mode' = [mode EXCEPT ![p] = IF kept THEN @ ELSE {}]
  /\ lhook' = [lhook EXCEPT ![p] = IF kept THEN @ ELSE "none"]
  /\ prev' = [prev EXCEPT ![p] = IF kept THEN @ ELSE Null]
  /\ IF singleton = p
     THEN /\ singleton' = None /\ owner' = None
          /\ sethook' = IF kept THEN saved ELSE sethook
          /\ saved' = "nil"
          /\ stacks' = {}
          /\ ids' = Collected(ids, t)
     ELSE UNCHANGED <<singleton, owner, sethook, saved, stacks, ids>>

\* lmprof_shutdown_profiler: frees the data, resets an object that is not
\* kept, and leaves the registry if the session is p's.
Shutdown(p, t, kept) ==
  /\ data' = [data EXCEPT ![p] =
                IF "trace" \in mode[p] THEN {} ELSE @ \ {"hash"}]
  /\ mode' = [mode EXCEPT ![p] = IF kept THEN @ ELSE {}]
  /\ lhook' = [lhook EXCEPT ![p] = IF kept THEN @ ELSE "none"]
  /\ prev' = [prev EXCEPT ![p] = IF kept THEN @ ELSE Null]
  /\ IF singleton = p
     THEN /\ singleton' = None /\ owner' = None
          /\ sethook' = IF saved = "sethook" THEN saved ELSE sethook
          /\ saved' = "nil"
          /\ stacks' = {}
          /\ ids' = Collected(ids, t)
     ELSE UNCHANGED <<singleton, owner, sethook, saved, stacks, ids>>

\* Both, as every call that ends a session makes them.  left: the flags an
\* object that is not kept ends with.
End(p, t, kept, left) ==
  /\ Finalize(p, t)
  /\ Shutdown(p, t, kept)
  /\ flags' = [flags EXCEPT ![p] =
                 IF kept THEN @ \ {"RUNNING", "GC_WAS_RUNNING"} ELSE left]
  /\ UNCHANGED <<vm, thread>>

\* Faulty: the data is freed before the report that fails.
HaltFreesData(p, t) ==
  /\ Finalize(p, t)
  /\ flags' = [flags EXCEPT ![p] = @ \ {"RUNNING", "GC_WAS_RUNNING"}]
  /\ data' = [data EXCEPT ![p] = {}]
  /\ stacks' = IF Running(p) THEN stacks \ Unhooked(p, t) ELSE stacks
  /\ UNCHANGED <<obj, mode, lhook, prev, vm, singleton, owner, sethook,
                 saved, thread, ids>>

\* Finalized, then an out-of-memory error in the report leaves the rest.
Halt(p, t) ==
  /\ Finalize(p, t)
  /\ flags' = [flags EXCEPT ![p] = @ \ {"RUNNING", "GC_WAS_RUNNING"}]
  /\ stacks' = IF Running(p) THEN stacks \ Unhooked(p, t) ELSE stacks
  /\ UNCHANGED <<obj, mode, lhook, prev, data, vm, singleton, owner, sethook,
                 saved, thread, ids>>

Kept(p) == "PERSISTENT" \in flags[p]

\* lmprof.quit, state:quit; lmprof.stop, state:stop and the stop_to_files of
\* both, whether or not the outputs could be written; and lmprof_error inside
\* stop, when the event list has no room for the closing events.
Stop(t) ==
  /\ Alive(t) /\ singleton # None
  /\ End(singleton, t, Kept(singleton), {})
  /\ fault' = ~ReportSafe(singleton)
  /\ UNCHANGED <<obj, frames>>

StopThrows(t) ==
  /\ Alive(t) /\ singleton # None
  /\ ReportSafe(singleton)
  /\ Halt(singleton, t)
  /\ UNCHANGED <<frames, fault>>

Top == frames[Len(frames)]
Pop == SubSeq(frames, 1, Len(frames) - 1)

\* The profiled function returned: finalize, report, shut down.
CallReturns ==
  /\ frames # <<>>
  /\ ReportSafe(Top.prof) \/ "outlive_session" \in Habits
  /\ End(Top.prof, Top.thread, Kept(Top.prof), {})
  /\ fault' = ~ReportSafe(Top.prof)
  /\ frames' = Pop
  /\ UNCHANGED obj

\* Faulty: lmprof_default_error leaves the error set in a kept object.
CallRaisesSticky ==
  /\ frames # <<>>
  /\ End(Top.prof, Top.thread, FALSE, {"ERROR"} \cup (flags[Top.prof] \ {"RUNNING"}))
  /\ frames' = Pop
  /\ UNCHANGED <<obj, fault>>

\* It raised an error, raised again as a profiler error once the session is
\* over: an object that is not kept has lost its error handler by then.
CallRaises ==
  /\ frames # <<>>
  /\ End(Top.prof, Top.thread, Kept(Top.prof), {"ERROR"})
  /\ frames' = Pop
  /\ UNCHANGED <<obj, fault>>

\* Faulty: the metatable is removed without ending the session.
CloseRuns(p, t) ==
  /\ obj[p] = "live" /\ Alive(t)
  /\ obj' = [obj EXCEPT ![p] = "gone"]
  /\ UNCHANGED <<mode, flags, lhook, prev, data, vm, gvars, tvars, frames, fault>>

\* __gc and __close; the object is not to be used again.
Close(p, t) ==
  /\ obj[p] = "live" /\ Alive(t)
  /\ End(p, t, FALSE, {})
  /\ obj' = [obj EXCEPT ![p] = "gone"]
  /\ UNCHANGED <<frames, fault>>
-----------------------------------------------------------------------------
(* In between *)

\* state:set_mode
SetMode(p, m) ==
  /\ obj[p] = "live" /\ "ERROR" \notin flags[p]
  /\ singleton # p \/ "set_mode_in_profile" \in Habits
  /\ mode' = [mode EXCEPT ![p] = m]
  /\ UNCHANGED <<obj, flags, lhook, prev, data, vm, gvars, tvars, frames, fault>>

\* lmprof.set_name gives the thread an identifier.
SetName(t) ==
  /\ Alive(t)
  /\ ids' = ids \cup {t}
  /\ UNCHANGED <<pvars, vm, gvars, thread, hooks, stacks, frames, fault>>

\* debug.sethook as the client sees it: the override refuses.
ClientSetHook(t, kind) ==
  /\ Alive(t)
  /\ sethook = "sethook"
  /\ hooks' = SetHook({t}, kind)
  /\ UNCHANGED <<pvars, vm, gvars, thread, ids, stacks, frames, fault>>

\* coroutine.create: the new thread inherits the hook of its creator.
Spawn(t, u) ==
  /\ Alive(t) /\ thread[u] = "new"
  /\ thread' = [thread EXCEPT ![u] = "alive"]
  /\ hooks' = [hooks EXCEPT ![u] = hooks[t]]
  /\ UNCHANGED <<pvars, vm, gvars, ids, stacks, frames, fault>>

\* A coroutine finishes; not below a profiled call.
Die(t) ==
  /\ Alive(t) /\ t # Main
  /\ \A i \in DOMAIN frames : frames[i].thread # t
  /\ thread' = [thread EXCEPT ![t] = "dead"]
  /\ UNCHANGED <<pvars, vm, gvars, hooks, ids, stacks, frames, fault>>

\* The first test of graph_prehook and traceevent_prehook: the session this
\* hook was installed for may be over, or be another's.
Serves(t) ==
  /\ singleton # None
  /\ Running(singleton) /\ "ERROR" \notin flags[singleton]
  /\ IF hooks[t] = "trace" THEN "trace" \in mode[singleton]
     ELSE mode[singleton] \cap {"trace", "time"} = {}

\* The second: a hook that serves the session, on a thread it measures.
Measures(t) ==
  /\ Alive(t) /\ hooks[t] \in Kinds /\ Serves(t)
  /\ "single_thread" \in mode[singleton] => owner = t

StaleHook(t) ==
  /\ Alive(t) /\ hooks[t] \in Kinds
  /\ ~Serves(t)
  /\ hooks' = SetHook({t}, "none")
  /\ UNCHANGED <<pvars, vm, gvars, thread, ids, stacks, frames, fault>>

\* Faulty: identifiers are collected, the stacks of dead threads are not.
LiveHookCollectsIds(t, collect) ==
  /\ Measures(t)
  /\ IF "instrument" \in mode[singleton]
     THEN /\ t \notin stacks
          /\ stacks' = stacks \cup {t}
          /\ ids' = (IF collect THEN Collected(ids, t) ELSE ids) \cup {t}
     ELSE UNCHANGED <<stacks, ids>>
  /\ fault' = ~StackReady(mode[singleton])
  /\ UNCHANGED <<pvars, vm, gvars, thread, hooks, frames>>

\* An event measured on thread t, whose stack is allocated with its first.
\* collect: this stack is one of every LMPROF_STACK_GC, so the entries of
\* dead threads are dropped before it is made.  Where calls are not
\* instrumented there is no stack; graph_instrument tests for one,
\* traceevent_instrument dereferences it.
LiveHook(t, collect) ==
  /\ Measures(t)
  /\ IF "instrument" \in mode[singleton]
     THEN /\ t \notin stacks
          /\ stacks' = (IF collect THEN Collected(stacks, t) ELSE stacks) \cup {t}
          /\ ids' = (IF collect THEN Collected(ids, t) ELSE ids) \cup {t}
     ELSE UNCHANGED <<stacks, ids>>
  /\ fault' = ~StackReady(mode[singleton])
  /\ UNCHANGED <<pvars, vm, gvars, thread, hooks, frames>>

\* lmprof_error raised in the hook: a call stack that does not match, a full
\* stack or event list.  lmprof_default_error ends the session.
HookError(t) ==
  /\ Measures(t)
  /\ "instrument" \in mode[singleton]
  /\ End(singleton, t, Kept(singleton), {})
  /\ UNCHANGED <<obj, frames, fault>>
-----------------------------------------------------------------------------
Init ==
  /\ obj = [p \in Prof |-> "free"]
  /\ mode = [p \in Prof |-> {}]
  /\ flags = [p \in Prof |-> {}]
  /\ lhook = [p \in Prof |-> "none"]
  /\ prev = [p \in Prof |-> Null]
  /\ data = [p \in Prof |-> {}]
  /\ vm \in VMs
  /\ singleton = None /\ owner = None
  /\ sethook = "sethook" /\ saved = "nil"
  /\ allocf = Base /\ gcOn = TRUE
  /\ thread = [t \in Threads |-> IF t = Main THEN "alive" ELSE "new"]
  /\ hooks = [t \in Threads |-> "none"]
  /\ ids = {} /\ stacks = {}
  /\ frames = <<>>
  /\ fault = FALSE

BeginCall(p, t, gcOff, call) ==
  \/ \E m \in ModeArgs : StartNew(p, t, m, gcOff, call)
  \/ Start(p, t, gcOff, call)

ClientCall(p, t) ==
  \/ \E m \in ModeArgs : Create(p, m) \/ SetMode(p, m)
  \/ \E gcOff, call \in BOOLEAN : BeginCall(p, t, gcOff, call)
  \/ StartRefused(p, t)
  \/ Close(p, t)

ThreadStep(t) ==
  \/ Stop(t) \/ StopThrows(t)
  \/ SetName(t)
  \/ \E kind \in {"none", "user"} : ClientSetHook(t, kind)
  \/ \E u \in Threads : Spawn(t, u)
  \/ Die(t)
  \/ StaleHook(t) \/ HookError(t)
  \/ \E collect \in BOOLEAN : LiveHook(t, collect)

Next ==
  \/ \E p \in Prof, t \in Threads : ClientCall(p, t)
  \/ \E t \in Threads : ThreadStep(t)
  \/ CallReturns
  \/ CallRaises

Spec == Init /\ [][Next]_vars
-----------------------------------------------------------------------------
(* Properties *)

\* Every variable holds a value of its kind.
TypeOK ==
  /\ obj \in [Prof -> {"free", "live", "gone"}]
  /\ mode \in [Prof -> SUBSET Modes]
  /\ flags \in [Prof -> SUBSET {"PERSISTENT", "RUNNING", "ERROR", "GC_WAS_RUNNING"}]
  /\ lhook \in [Prof -> Kinds \cup {"none"}]
  /\ prev \in [Prof -> Prof \cup {Base, Null}]
  /\ data \in [Prof -> SUBSET {"hash", "list"}]
  /\ vm \in VMs
  /\ singleton \in Prof \cup {None} /\ owner \in Threads \cup {None}
  /\ sethook \in {"sethook", "override"} /\ saved \in {"sethook", "override", "nil"}
  /\ allocf \in Prof \cup {Base} /\ gcOn \in BOOLEAN
  /\ thread \in [Threads -> {"new", "alive", "dead"}]
  /\ hooks \in [Threads -> Kinds \cup {"none", "user"}]
  /\ ids \in SUBSET Threads /\ stacks \in SUBSET Threads
  /\ frames \in Seq([prof : Prof, thread : Threads])
  /\ fault \in BOOLEAN

\* A profiler that measures is the one the registry holds, and is still a
\* usable object: no order of stops, errors and nested calls leaves a second
\* profiler running, or one running that no stop can find.
SessionOwned ==
  \A p \in Prof : Running(p) => singleton = p /\ obj[p] = "live"

\* Once no session exists the process is as it was found: debug.sethook is
\* Lua's own and nothing is kept to restore, the allocator is the original,
\* the collector runs and no profile stack is left (lmprof_finalize_profiler,
\* lmprof_clear_singleton).
EnvironmentRestored ==
  singleton = None =>
    /\ sethook = "sethook" /\ saved = "nil"
    /\ allocf = Base /\ gcOn
    /\ stacks = {}

\* alloc_hook is installed only for a profiler that runs and counts memory,
\* and passes each request on to the original allocator in one step: never to
\* the hook of another profiler, nor to a null function.
AllocatorOwned ==
  allocf # Base =>
    /\ allocf \in Prof
    /\ Running(allocf) /\ "memory" \in mode[allocf]
    /\ prev[allocf] = Base

\* However its last session ended, by a stop, an error in a hook or in the
\* profiled function, or a report that failed, an object of lmprof.create can
\* start the next: no error sticks, and its allocator is kept.
Restartable ==
  singleton = None =>
    \A p \in Prof :
      obj[p] = "live" /\ Kept(p) => flags[p] = {"PERSISTENT"} /\ prev[p] = Base

\* Reports read only structures that are still allocated, no session starts
\* with a null allocator, and a hook that reads a profile stack has one.
NoFault == ~fault

\* The identifier table reaches every thread with a profile stack: it is the
\* one finalize walks to unhook threads, and collecting the entries of dead
\* threads never hides a live one from it.
StacksReachable == \A t \in stacks : t \in ids

\* The call that ends a running session of all threads unhooks every thread
\* that was measured under it, whichever thread makes the call.
EndUnhooks ==
  [][\A p \in Prof :
       Running(p) /\ "RUNNING" \notin flags'[p] /\ "single_thread" \notin mode[p] =>
         \A t \in stacks : lhook[p] # "none" => hooks'[t] # lhook[p]]_vars

\* The documentation of lmprof_finalize_profiler (lmprof_state.h): "remove
\* debug and allocator hooks".  No allocator hook stays when its profiler
\* has stopped.
AllocatorHookRemoved == \A p \in Prof : allocf = p => Running(p)

S == INSTANCE Session WITH
       active <- singleton,
       measuring <- singleton # None /\ Running(singleton),
       sethookOurs <- sethook = "override",
       vmOurs <- allocf # Base \/ ~gcOn

\* The library keeps the promise of Session.
Implements == S!SSpec
=============================================================================
