# lmprof in TLA+

A specification of [extension-lmprof](../src), a profiler for Lua 5.1 and LuaJIT
written in C for the Defold engine: TLA+ modules of its parts, model-checked on
small instances with TLC, and theorems about them checked by TLAPS.

Paths below are relative to `src/lmprof/src/` unless they begin with `src/` or
`scripts/` (`src/lmprof/scripts/`).

## 1. The system

The profiler is a C library loaded into a Lua process. Lua calls it to begin and
end a *session*; in between Lua's debug hook calls it on every call, return, line
or instruction count, and a replaced allocator calls it on every allocation.
There is one operating-system thread; the concurrency is that of Lua coroutines
(each has a call stack and, in PUC Lua, a hook of its own), of hooks and
`__gc` metamethods that run between any two instructions of the client, and of
profiled functions that call the profiler again.

| Component | State it keeps | Operations | What makes it correct |
|---|---|---|---|
| Lifecycle and client API (`lmprof_lib.c`, `lmprof.c`, `lmprof_state.h`) | per object: mode, flags, saved allocator, hook, data; per process: the registered singleton, `debug.sethook`, allocator, collector; per thread: hook, identifier, profile stack | `create`, `start`, `stop`, `stop_to_files`, `quit`, `file`/`string`/`func`, `set_mode`, `set_name`, `__gc`/`__close`, hook errors | one session; what a session alters is undone, in whatever way it ends; objects stay usable; no freed structure is read |
| Graph instrumentation and profile stacks (`lmprof_lib.c`, `collections/lmprof_stack.h`, `lmprof_collections.c`) | per thread a stack of open measurements; records | call, tail call, return, tail return, line, count events; `pop_remaining_stacks` | measurements nest and add up; time goes to the function it passes in; every call counted once; the root stays |
| Record hash (`collections/lmprof_collections.c`, `lmprof_hash.h`, `lmprof_record.c`) | buckets of chained records | identifier, get (moves to front), insert, report, destroy | one record per key, none lost; records of different functions stay apart |
| Trace instrumentation (`lmprof_lib.c`) | event list, current thread, its open scopes | call/return events, thread switches, `pause`/`resume`, `begin_frame`/`end_frame`, garbage-collection events | begin and end events balance in the layout chosen |
| Timeline (`collections/lmprof_collections.c`, `lmprof_traceevent.h`) | pages of events, limits | append, scopes, routines, adjust, compress, foreach | order and pairing survive paging, adjustment and compression; limits are respected |
| Sampling (`lmprof_lib.c`) | records | a traceback per count event | every sample lands on the functions on the stack |
| Thread registry (`lmprof.c`) | identifiers, names, stacks by thread | get, name, collect dead threads | identifiers unique and stable; live threads keep theirs |
| Options and modes (`lmprof.c`, `lmprof_lib.c`) | global table, per-object copies | parse, set, get | what is set is what is read |
| Allocator hook (`lmprof_lib.c`) | counters | allocate, reallocate, free | passes every request on; counts what the client allocates |
| Report dispatch, writer (`lmprof_report.c`, `lmprof_writer.c`) | an output, an error | graph/trace reports to a table or a file | a failure leaves the profiler consistent |
| Graph, Chrome, Perfetto, Tracy reports (`lmprof_report_*.c`) | queues, trees while a report is written | one pass over the records or events | well-formed nesting in the output |
| Defold integration, helper scripts (`lmprof_lib.c`, `scripts/lmprof_helper.lua`, `scripts/lmprof.script`) | a persistent object, `started`, a timer | toggle, stop after a time, frame marks | starts and stops alternate |

**How they interact.** A start builds or reuses an object, registers it in the Lua
registry as the singleton and installs hooks and allocator. A hook looks the
singleton up, checks that it is the one it serves, makes a profile stack for a
thread it has not met, fetches a record or appends an event. A stop *finalizes*
(removes the hooks and the allocator, pops what is left of the stacks), *reports*
(reads the data) and *shuts down* (frees the data and leaves the registry), in
this order; an error in a hook does the first and the last through the object's
`on_error`. The stacks and identifiers of dead coroutines are collected in the
middle of a hook, when the 64th stack is made.

**What is hard.** Coroutines inherit the hook of their creator and outlive the
session; a session may be ended by another thread than the one that began it, in
the middle of a profiled call, or by an error inside its own hook or report; the
hook never sees an error unwind, a frame a tail call replaced, what was active
before it was installed or (LuaJIT) a C function return; limits (stack depth,
event pages) are hit inside hooks. There is no persistence, so nothing to recover
from a crash, and no network.

## 2. Plan

| | Modules | Composes / refines | State |
|---|---|---|---|
| 1 | `Session`, `Lifecycle`, `LifecycleProofs` | `Lifecycle` implements `Session` | written, checked, proved |
| 2 | `LuaCalls`, `LuaCallsProofs`, `GraphStack`, `GraphStackProofs` | `LuaCalls`: the call stacks of Lua threads; uses an abstract record map | written, checked, proved |
| 3 | `RecordMap`, `RecordHash`, `RecordHashProofs` | the chains of the record hash implement a map from keys to identifiers | written, checked, proved |
| 4 | `Records`, `RecordsProofs` | `RecordHash` under calls, loaded stacks and samples, over several sessions, to the graph report | written, checked, proved |
| 5 | `TraceInstrument`, `TraceInstrumentProofs` | scopes of coroutines in one event stream: switches, split and merged layout, ignored functions, pause and resume, collection in a hook; over `LuaCalls` | written, checked, proved |
| 6 | `EventList`, `Timeline`, `TimelineProofs` | the pages of the event list implement a list with a capacity | written, checked, proved |
| 7 | `TraceReport`, `ChromeReport`, `PerfettoReport`, `TracyReport` | adjustment, compression and the three reports, functions of a sequence of events | written, checked through `Recording` |
| 8 | `Recording`, `RecordingProofs` | composes 6 and 7: hook events, stop, several outputs | written, checked, proved but for what the reports show |
| 9 | allocation counters, names of threads, option tables, the helper script | | not modelled, see section 6 |

Abstract specifications: `Session` (what a client may rely on), `RecordMap` (what the
record hash promises), `EventList` (what the event list promises).

Theorem that would add most: `PerfettoNests` of `Recording`, for which what the report's
stack of open slices holds must be related to the scopes that `EndsMeet` and `Ordered` say
are open.

## 3. The modules and the code

The build modelled is Lua 5.1 (`LUA_VERSION_NUM` 501), 64 bit,
without `LMPROF_BUILTIN`, for both machines the extension runs on: PUC Lua with a
hook per thread (HTML5) and LuaJIT with one hook for all (`vm`).

### Session

Four variables: whose session exists, whether it measures, whether `debug.sethook`
and the allocator or collector are altered. A session begins only where there is
none, may halt, and ends leaving nothing behind. `Lifecycle` implements it with
`active <- singleton`, `measuring <-` that profiler has `LMPROF_STATE_RUNNING`.

### Lifecycle

| Variable | Code |
|---|---|
| `obj` | the userdata: not created, usable, or closed (metatable removed) |
| `mode`, `flags`, `lhook`, `prev` | `st->mode`, the bits of `st->state` that outlive a call, `st->hook.l_hook`, `st->hook.alloc` |
| `data` | which of `st->i.hash` and `st->i.trace.arg` are allocated |
| `singleton`, `owner` | the registry entry and its `st->thread.main` |
| `sethook`, `saved` | the value of `debug.sethook` and `LMPROF_DEBUG_HOOK` |
| `allocf`, `gcOn` | `lua_getallocf`; whether the profiler has stopped the collector |
| `thread`, `hooks` | threads alive and their `lua_gethook` |
| `ids`, `stacks` | `LMPROF_TAB_THREAD_IDS`, `LMPROF_TAB_THREAD_STACKS` |
| `frames` | C frames of `file`, `string` and `func` in progress |
| `fault` | a null or freed pointer was used |

| Action | Code |
|---|---|
| `Create`, `StartNew`, `Start`, `StartRefused` | `lmprof_create`, `lmprof_start` and the profiled calls, `state_start`; `Begin` is `lmprof_initialize_profiler` with the registration |
| `Stop`, `StopThrows` | every stop and quit, of the module and of the object; the second is an out-of-memory error in the report |
| `CallReturns`, `CallRaises` | the two ends of `stack_object_profiler` |
| `Close` | `__gc`, `__close` |
| `SetMode`, `SetName`, `ClientSetHook` | `state_setmode`, `lmprof_set_name`, `debug.sethook` and its override |
| `Spawn`, `Die` | coroutines (Lua, external); a new one inherits its creator's hook |
| `StaleHook`, `LiveHook`, `HookError` | the tests at the top of `graph_prehook` and `traceevent_prehook`, the allocation of a thread's stack with the collection it may trigger, and `lmprof_error` raised in a hook |

`End` is `Finalize` followed by `Shutdown`, as every ending has them; `Halt` is
`Finalize` alone. The options are inputs: the garbage collector's is chosen freely at
each start. `set_mode` takes argument lists that other calls accept; the lists only
`set_mode` accepts (without validation) are left out.

**Habits.** Five things a client can do the code does not survive. Each is switched on
by a member of the constant `Habits`: creating an object while another counts
allocations, `set_mode` on the object whose session exists, restarting a finished
object of `lmprof.start`, returning normally from a profiled function that has
ended its own session, and tracing memory or samples without `instrument`. The passing
run has none of them; four violation runs show what the code does with one.

### GraphStack

| Variable | Code |
|---|---|
| `now` | the clock; ticks between hooks |
| `alive`, `calls`, `caught`, `hostErr` | Lua (external): each thread's call stack, and where an error has just been caught |
| `stack` | `LMPROF_TAB_THREAD_STACKS`: entries of record, start, time of closed children |
| `records` | the record hash as a map: count, own time, total time |
| `status` | running, popping what remains, stopped, or ended by `lmprof_error` |
| `popping` | the return event whose loop in `graph_instrument` is in progress |
| `invoked`, `lost` | history: calls that should be counted; entries freed with dead threads' stacks |

Lua itself is an explicit environment: `Call`, `TailCall`, `Return`, `ReturnUnseen`,
`Raise` move the real call stacks, and generate the events the two machines generate
(PUC: a return for every call and a tail return for each frame a tail call replaced;
LuaJIT: nothing when a C function returns, no tail returns; neither: anything for an
unwound call). The hook half of each action is `graph_prehook` followed by the branch
of `graph_instrument`; the loop of a return event pops one entry per step of
`PopReturned`, and no other action interleaves, since a hook is not preempted.

Abstractions: a measurement is a time (allocation amounts are pushed, subtracted and
added along with it by the same code); a hook takes no time (what hooks cost is
collected in `overhead` fields by which no measurement is corrected:
`lmprof_collections.c:101` reads them into a value nothing uses); a record key is
`<function, parent>` without the line of the caller; functions are distinct values;
one session. Lines, colliding identifiers and further sessions are in `Records`. `RootKey` is the root's record; a
compressed graph identifies parents by function, an uncompressed one by record.

### TraceInstrument

| Variable | Code |
|---|---|
| `conf` | the machine and the options read by the hook |
| `alive`, `calls`, `caught`, `hostErr` | Lua (external), as in `GraphStack` |
| `chain` | Lua (external): the running coroutine, last, above those that resumed it |
| `made` | bound: calls made |
| `ignore` | `LMPROF_TAB_FUNC_IGNORE` |
| `status`, `paused` | running, stopped, ended by `lmprof_error`, or a null pointer used; `LMPROF_STATE_PAUSED` |
| `current` | `st->thread.state` (`st->thread.call_stack` is its stack) |
| `stack` | `LMPROF_TAB_THREAD_STACKS`: keys of the records of entries |
| `records` | the record hash: each record's `LMPROF_RECORD_IGNORED` |
| `tracks` | the event list, as the scopes begun and not ended on each track |

Here the order of threads matters, so coroutines resume each other and yield as in Lua.
`Call`, `TailCall`, `Resume`, `Yield` generate call events, `Return` a return event
with the tail returns after it; the program's half moves `calls` and `chain`, the
profiler's is `traceevent_prehook` (`Prehook`) followed by the branch of
`traceevent_instrument` (`Pushed`, `Popped`). A hook is one action, as nothing
interrupts it. An end event that matches the last open scope of its track removes it;
one that does not leaves a `Stray` there for good.

Left out: times, samples, `begin_frame` and `end_frame` (`Recording`); `single_thread`, where other threads' events have no effect; coroutines
created before the start that the profiler does not know of, which have no hook in
PUC Lua; a full event list (`Recording`). A C client that stops a paused profiler is
not considered: it closes everything twice.

### EventList and Timeline

`EventList` is a sequence that grows at its end up to a capacity. `Timeline` has one
variable, `pages`: `list->head` and its successors, of which the last is
`list->curr`. `Put` is `timeline_allocpage` with the event it finds a place for,
`Refuses` its failure, `Write` a write through a pointer to an event. Since events are
referred to by position, that a position keeps its event (`ActsAsList`) is what makes
the pointers `begin_event`, `sibling` and `lines` right. The limit does not count the
header page, hence `Capacity`.

### TraceReport, ChromeReport, PerfettoReport, TracyReport

Pure operators over a sequence of events. `TraceReport`: `timeline_adjust`,
`timeline_compress`, the bounds of the trace and when memory counters are due.
`ChromeReport`: one item per event, in order. `PerfettoReport`: the queue of slice
events, its comparison with every tie-break, and the packets written from it.
`TracyReport`: zones by thread, sorted; the stack of open zones, which drops a zone that
does not fit; counts; times as written. Times are unsigned and wrap at `TimeModulus`.
An item is a record of what a reader of the file tells apart, not text or bytes.

### Recording

| Variable | Code |
|---|---|
| `conf` | options, outputs and clock of the session |
| `now`, `hooks`, `marks` | the program's time; hook events and frame calls so far, which also fix the overhead measured |
| `current`, `stack` | `st->thread.state`; stacks, with the begin event of each entry |
| `pages`, `altered` | the `Timeline`; `list->adjusted` and `list->compressed` |
| `status` | running, stopping, closed, or ended by `lmprof_error` |
| `outs`, `files` | the argument of stop, and what became of each output |

`Call`, `Return`, `SampleHook` (line and count events) are `traceevent_prehook`, with
a new thread's stack and the switch, followed by their branch of
`traceevent_instrument`; `MarkFrame` is `traceevent_frame`. `Stop` closes the current
stack; then each output is one step, `WriteFile` or `SkipFile`, and `Close` shuts down.
An event without room is an error where the code checks for one (scopes, routines:
`Need`), which ends the session, and lost in silence where it does not (frames,
samples: `Want`). A sample that finds no open scope leaves its event unset; what the
report reads there is chosen from what the list can hold (`Unset`). Hooks fire on any
thread in any order, which is more than coroutines do.

An operation unknown to a report ends the Chrome report early with success and makes
the Perfetto and Tracy reports fail. `ReportsAgree` therefore compares a Chrome report
only if it is whole (`all`), and compares calls: the lengths the formats give to samples differ.

### RecordMap, RecordHash

`RecordMap` gives each key an identifier, and keeps it until all are cleared; a hook
may fetch several records, so its step adds several. `RecordHash` has one variable,
`hash`: the chains as sequences of identifiers, the key of each record, and
`st->i.record_count`. `Fetch` is `lmprof_fetch_record`: a look-up that moves what it
finds to the front, or an insertion in front. `Clear` is `lmprof_clear_state`: the
hash goes, `record_count` goes back only with an object that is not kept. `BucketOf`
is any function.

### Records

| Variable | Code |
|---|---|
| `conf` | options and mode of the profiler; whether the object is persistent |
| `session`, `running`, `steps` | sessions begun; `LMPROF_STATE_RUNNING`; bound |
| `calls` | Lua (external): active functions of each thread and their lines |
| `stack` | `LMPROF_TAB_THREAD_STACKS`: record and `last_line` of each entry |
| `hash`, `count` | `st->i.hash` and `record_count`; `graph.count` of each record |
| `report` | the records of the last report, in its order |
| `seen` | history: for each path of calls, the records used and how often |

`Call`, `Return`, `Line` are the branches of `graph_instrument`, `Sample` is
`graph_sample`; `Unwind` leaves a call without an event (an error, or a C function
under LuaJIT). `Start` is a start of the object, or of a new one, with `load_stack`;
`Stop`, `Quit`, `OutOfMemory` end a session in the three ways there are.
`load_stack` is considered with the main thread only, as the double push on other
threads is the subject of `graph_load_stack`. Errors that a full stack raises are in
`GraphStack`; here calls stop at the bound.

## 4. Runs

| Run | Shows | Bounds, and why they do |
|---|---|---|
| `lifecycle` | the seven invariants, `EndUnhooks` and the refinement of `Session` | two objects: a session, and another object that could wrongly take part; two threads: the one that begins and another that is hooked, ends the session, dies or outlives it; six mode sets, one for each branch of the code (no hook, memory, trace, one thread, a trace that installs no hook, refused); one level of profiled calls, below which other sessions can start once the first has ended; about 370,000 states up to renaming of the objects |
| `lifecycle_set_mode`, `lifecycle_create` | `AllocatorHookRemoved` fails with one habit each | as above |
| `lifecycle_func` | `NoFault` fails with `outlive_session` | as above |
| `lifecycle_trace` | `NoFault` fails with `trace_without_calls` | the two mode sets that trace without `instrument` |
| `graph` | type, nesting, the sum over children, attribution, counts, the root | one Lua function and one C function that catches errors: recursion, tail calls to both, errors caught and uncaught; three threads, so that two are swapped while a third's stack is collected; a stack of three so that it overflows; three calls; one tick, so that intervals are empty or not; both machines, both graph layouts; 1,093,096 states up to renaming of the coroutines |
| `graph_load_stack` | `CountsInvocations` fails with `load_stack` | two threads, depth 5 |
| `trace` | brackets, scopes against calls, stop, collection | three threads: one resumes another after a third has died; four calls, so that a coroutine is resumed, calls, dies, and the next makes a stack; a profile stack of four, so that it overflows and is full at a collection; seven configurations, in which both machines meet both layouts with and without `load_stack`; one function to ignore, besides yield; 1,275,442 states up to renaming of the coroutines |
| `trace_split` | `StopBalances` fails in the split layout | as above |
| `recording` | pages, pairs of events, compression, nesting and agreement of the three reports, outputs, that stop ends, and the refinement of `EventList` | seven configurations, one for each option that changes the events (split, `load_stack`, frames drawn, samples, a coarse clock, memory counters, calibration) or the end (outputs, full disk, no memory); three or four hook events (two with outputs that vary), of which each makes up to five events with `load_stack`; pages of three with a limit of three, so that one hook crosses a page and the list fills up, in stop too; 158,537 states |
| `records` | the hash, which calls share a record, counts, reports, and the refinement of `RecordMap` | eight configurations: kept and new objects over two sessions, both layouts, two threads, `load_stack` with lines, samples by line; two Lua functions with one identifier and a C function; two buckets, so that chains are shared; stacks of four; three to six steps a session, enough for a function to be reached on two paths or from two lines, and to be found again at the end of its chain; 114,133 states |
| `records_reload` | `Connected` fails for a kept object that loads stacks in its second session | two sessions of one step |

What each property says is in the comment above it; the hazards they answer are in
`PROJECT.json`. Deadlock is checked in the lifecycle runs; it is switched off for
`graph`, `trace`, `recording` and `records`, where a stopped profiler takes no more steps.

Every passing property has a faulty variant of a definition beside the true one
(`Faulty: ...` in its comment), with which TLC finds it violated.

**Fairness.** The library does nothing by itself: what a client must do for a session
to end cannot be assumed. Once it has called stop, though, the code goes on to the end:
`push_report` is a loop over the outputs, and the shutdown follows it, with nothing to
wait for. `Recording` assumes weak fairness of `SkipFile`, which is enabled as long as
an output is left (so that each is tried, by `WriteFile`, or skipped), and of `Close`;
from them follows `SessionEnds`. The other modules state no fairness, and all their
properties are safety properties. The loops inside a hook terminate because each round
pops an entry.

### Where the code disagrees with its documentation

- `set_mode` during a session that counts memory leaves the allocator hook installed
  (`lifecycle_set_mode`): `state_setmode` assigns the mode, and
  `lmprof_finalize_profiler` looks at it to decide what to remove.
- `lmprof.create` during such a session saves the running profiler's hook as the new
  object's original allocator, and a later stop installs it again
  (`lifecycle_create`).
- `lmprof.func`, when the function stops the session itself, reports from structures
  that are gone (`lifecycle_func`).
- `memory` with `trace` but without `instrument` is a documented mode; its first event
  dereferences a null profile stack (`lifecycle_trace`). The graph hook tests for it.
- With `load_stack` the first call on a coroutine is counted twice
  (`graph_load_stack`): the traceback already contains the function being called.
- From the second session of a kept object on, the first frame of a loaded stack has a
  parent that is no record (`records_reload`), since `lmprof_thread_stacktable_get` tests
  `LMPROF_OPT_COMPRESS_GRAPH` the wrong way around; `scripts/graph.lua` rejects such a report.
- In the split layout a stop ends none of the scopes it is called in (`trace_split`); the
  Chrome report leaves such functions out.

## 5. Proofs

`LifecycleProofs` proves, for all sets of objects, threads and modes and any nesting:
`TypeOK`, `SessionOwned`, `EnvironmentRestored`, `AllocatorOwned`, `Restartable`,
`StacksReachable`, `EndUnhooks` and the refinement of `Session` under
`Careful`, which is `Habits \subseteq {"outlive_session", "trace_without_calls"}`; and `NoFault` for
`Habits = {}`. Other assumptions are the named ones on the constants
(`LifecycleAssumption`), which TLC evaluates in the runs.

The invariants are not inductive by themselves. `EnvironmentRestored` says nothing
while a session exists, and holds at its end only because the session knows what to
undo: `IInv` adds that every object has saved the original allocator or was reset
(`PrevInv`), that the collector is stopped only by a running profiler that knows it
did (`GCInv`), that `debug.sethook` is overridden exactly while a session exists and
Lua's own is the one kept (`OverrideInv`), that an object that runs is the registered
one (`OneSession`), that the session's data are there to report (`DataInv`), that
kept objects are without error (`KeptInv`), and that LuaJIT's threads agree on their hook
(`OneHook`, needed for `EndUnhooks`). There is one lemma for the endings, `EndIInv`,
one for the beginnings, `BeginIInv`, and one each for a halt, for steps of threads and for
steps that change one object only; `NextIInv` puts them together. The refinement
cites `IInv` before and after the step.

`GraphStackProofs` proves every property of the `graph` run, for any functions, threads,
clock bound, stack depth and initial frames, assuming `GraphStackAssumption`: `TypeOK`,
`Nested`, `RootStays` and `ChildrenAddUp` with any options, `Attribution` and
`CountsInvocations` without `load_stack` (`TRUE \notin LoadStacks`). That hypothesis is
the code's: with `load_stack` the function that a coroutine starts with is on its new
stack twice, which `graph_load_stack` shows of the count.

- *Types and nesting.* `IInv` adds to `TypeOK` and `Nested` that a stack being popped
  is not empty (`SomethingToPop`) and that the first entry of every stack is the root
  (`RootAtBottom`). The heart is that appending an entry that starts now, and popping
  one and adding its time to the one below, keep a stack nested (`AppendNested`,
  `PopNested`); that no unsigned subtraction wraps around is then a consequence, and
  part of `TypeOK`.
- *Attribution.* `Attribution` says nothing of a thread while its return event is
  answered. `Attributed` does: the stack *follows* the calls (`Follows` of
  `LuaCallsProofs`), and while a return pops it does so once the rounds that are left
  are taken into account (`PopRound`, `PopsAgree`). `Follows` allows for the
  calls that an error unwound on top of those seen, as long as the function
  that caught it is there to pop them when it returns; `FollowsCalled`, `FollowsRaised` and
  `FollowsReturned` say that each event keeps it.
- *The graph adds up.* `ChildrenAddUp` compares two sums over the records and one over
  the stacks, of which a call that ends changes all three. `SumsInv` says it of every
  identifier, whether a record has it or not, and adds that the records are finitely
  many and that every stack is `Linked`: an entry's record is a child of the record of
  the entry below. So the time that `lmprof_stack_measured_pop` adds to the entry below
  is that of a callee of it (`PopSums`). What stacks have collected is a *weight*
  of their entries (`CollectedBy`); `PrehookTotal`, `CallTotal` and `PopTotal` say how the
  weight of all stacks changes, for any weight.
- *Counts.* `Counted` says that until an error every call is in a record or on a
  stack. The calls of a function on the stacks are a weight too (`OpenBy`), and the
  same three lemmas serve.

`TimelineProofs` proves, for any page size, limit and events: `PagesFilled` and that
`Timeline` implements `EventList`, assuming `TimelineAssumption`. The inductive
invariant `Filled` says that there is a page, that every page is a sequence no longer than
a page, and that all but the last are full; from it follows that the position of
an event, by division, is that of the page and slot where it was put (`At`), so that an
append adds one position and leaves the others (`ActsAsList`).

`RecordHashProofs` proves, for any keys, number of buckets and hash function:
`Chained` and that `RecordHash` implements `RecordMap`, assuming
`RecordHashAssumption`. The inductive invariant `Good` is the conjunction of `Typed`
(with every identifier below `next`), `InBuckets`, `InChains` and `OneRecord`; the
lemma `MovesOne` says that moving an element to the front permutes a chain. Since no two
records have one key, a look-up finds the same record wherever it has moved.

`RecordsProofs` proves, for any functions, threads, identifiers, lines, options and number
of sessions: `TypeOK`, `SharedPaths`, `Chained`, `CallsCounted`, `ReportsAll`, `Connected` and
`ActsAsMap` of `Records`, assuming `RecordsAssumption` and two hypotheses. `KeysSuffice`: a key
is any triple of numbers, so that none a hook forms lies outside the map. `LoadsOnce`: no
object loads call stacks in a second session. A persistent object goes on numbering its
records, so the root of that session has not the identifier that
`lmprof_load_stack` names as the parent, and its records would hang from no record.

- *The hash.* `FetchIs` says of a look-up that it returns a record of the key, changes no
  other, and adds at most one; it cites the lemmas of `RecordHashProofs`.
- *Sound* ties hash, stacks and history together, in the middle of a hook too: the hash is
  `Good`; every path of calls that was followed led to the record of its key
  (`Explained`); every record was followed to (`Followed`); an entry of a stack is of such
  a path, the root's below all others (`Entries`). `SharedPaths` needs both directions:
  two paths with one record have one key, and so, from the end of the path to its
  beginning, the same functions and lines as far as the options tell them apart.
- *Counts.* `CountsIn` balances the counts of records against what is on the stacks
  and what the history has seen; `OpenChanges` and `TotalNoted` say how a push, a pop and
  a followed path change the two sides.
- *The report.* `ReportedIs` says that the records flattened out of the buckets and put
  in order are those of the hash, each once, and `ReportedConnected` that each comes with its
  parents. `RecordsInv` keeps both for the last report; it is kept by a start (`StartInv`), by the
  three hooks (`HooksInv`), by a sample (`SampleInv`) and by the three ends of a session (`EndsInv`).

`TraceInstrumentProofs` proves, for any threads, functions, options, stack depth and
initial frames: `SwitchKeepsStack` and the types of everything but the tracks
(`StacksTyped`), assuming `TraceInstrumentAssumption`. A hook on a thread without a
stack may free the stacks of dead threads while the profiler still points to
the stack of the thread before. `IInv` says why that one is never among them: the
threads of the chain are alive and each once (`ChainAlive`); those that wait, and all
with calls, have stacks (`StacksOfCallers`), so that a thread that goes on after a yield
or a death needs no new one; hence the running thread has none only just after a
resume, and then the thread before is the one that resumed it, alive (`CurrentKept`).
There is a lemma for the hook's first part (`PrehookType`), one for call events and one for
return events (`CallHooked`, `ReturnHooked`), one for the chain (`ChainStep`) and one
that puts them together (`CallersStep`).

The same module proves the other four properties of the `trace` run: `TypeOK`,
`OpenScopes` and `MergedStops` from the invariant `Traced`, and `ScopesFollowCalls` from
`Followed`. `Traced` says what is open on each track in every state, paused and with an
ignored function on the stack too: in the merged layout the scopes of the current
thread's stack inside its routine, in the split layout those of each thread; then a
switch, which ends them all and begins those of another stack, leaves no `Stray`
(`EndedMatch`), and a stop leaves nothing. `Followed` is `Follows` again, of trace
stacks, and under LuaJIT the weaker `Embeds`, since entries whose return has no event stay
until a call below theirs returns. `ScopesFollowCalls` has the hypothesis `Len(BaseFrames) < MaxStack`:
a stack that is full when it is loaded has lost the calls on top.

`LuaCallsProofs` holds what both profile stacks use. Its lemmas about call stacks say what
`Called`, `TailCalled`, `Left`, `Unwound` and `SeenCalls` return, and which stacks still
follow them. Its lemmas about `SelectSeq` (`Selected*`) and about sums over finite sets
(`Sum*`, `Weight*`) are inductions over data. The library's induction theorems take
an operator as a parameter, which the provers cannot instantiate; `InductionOnNat` takes
a set of numbers instead, of those for which the statement holds, and serves. A sum is
unfolded one element at a time (`SumsUpAt`); that the order does not matter, and what
changing one term does (`SumChanges`), follow by induction over the size of the set.

`RecordingProofs` proves, for any page size and limit, threads, functions, ignored
functions, initial frames, calibrations, thresholds and lists of outputs, in both
layouts: `TypeOK`, `EndsMeet`, `CompressedScopes`, `OutputsAlike`, `PagesFilled` and
`ActsAsList` of `Recording`, assuming `TimelineAssumption`, `TraceReportAssumption` and
`RecordingAssumption`. `EndsMeet` speaks of the events only; what makes it true is how
the stacks refer to them, and what a hook that fails half-way leaves.

- *Sound.* What refers to an event refers to one of its own function and track
  (`Linked`, `Refers`), stacks begin with their root, and ignored functions have no
  begin event. This holds after an error too.
- *Tracks.* `OpenDepth` says how many of a stack's lowest entries have open scopes: all in
  the split layout, and in the merged one all of the running thread's and none of the
  others'. Their begin events have no end and are each one entry's (`Live`), and no other
  begin event is without an end (`Covered`); those of one track are one thread's, in the
  order of its calls (`Ordered`). As the depth is a parameter, `EnterGood` and
  `ExitGood` state what one begin and one end event do to it; `ExitAboveGood` and
  `EnterAllGood` follow for the loops by induction, `ClearGood` and `AppendGood` for the
  two halves of a switch, and `PrehookGood` for the first part of every hook.
- *Owned.* A begin event names the last of its lines, and each line the one before, all
  by position; that these are the lines whose innermost scope it is, is said of an
  assignment of lines to scopes (`Owns`): a line's owner is the last begin event before it
  whose scope is open there (`EachLine`), and has the last line it owns (`LastLines`). It
  needs `Ordered`: the entry that a line hook finds on top of the stack has the last scope
  that is open on its track (`HighestLast`). No scope ends while one inside it is open, so
  that the owner has an end if any scope around the line has one; in the split layout a
  stop leaves scopes without an end.
- *Compressing.* `LineOf` and `Owns` say which lines `Short` finds from a begin event
  (`LinesOfOwner`, an induction along the lines, and `ShortMembers`), and `CompressedLeftOut`
  that of events that are `Owned` it leaves out what it should. `CompressKept` keeps that
  until the session is closed; adjusting times before does not change owners
  (`OwnedSame`).
- *Good* puts all but compressing together with the pages. `IInv` says that what has been
  recorded is good (`ScopesKept`), that variables hold values of their kinds (`Kinds`), what
  reports left out (`CompressKept`), and that every report written is one of the events as
  they are now (`FilesKept`): writing one again finds the events altered already and
  leaves them (`PreparedType`), hence `OutputsAlike`. Every step also keeps the events
  that there were (`Extends`), hence `ActsAsList`; `FlatPut`, `FlatWrite` and
  `FlatRefilled` of `TimelineProofs` say what pages are as a sequence.

`TimelineProofs` and `RecordHashProofs` are about the component's own specification, in
which any client calls it in any way. `RecordingProofs` and `RecordsProofs` cite their
lemmas and prove `ActsAsList` and `ActsAsMap` again of the hooks that call it.

Only model-checked: what the reports show (`PerfettoNests`, `TracyNests`, `TracyCounts`,
`ReportsAgree`), since they sort events and fold over them, with a state of several parts
each, and compare the results; `SessionEnds`, which is liveness; and the violation runs.

## 6. Not modelled

- **Allocation counters.** The amounts are pushed, subtracted and added as times
  are, so that `GraphStack` stands for them; the flag that switches counting off inside
  hooks is not modelled. (With `memory` and without `instrument` the graph hook leaves it
  set.)
- **Line frequencies and instruction counts**, side tables of a record that nothing
  else reads.
- **Names and sources of records, names of threads, metadata events.** They are printed,
  and decide nothing.
- **The frame of `lmprof.start` itself.** When `load_stack` reads the main thread's
  traceback at the start, level 0 is the C function that starts the session, on top of
  `BaseFrames`; it returns as any other function does.
- **Errors of the sampler's own hook** (`lmprof_fetch_record` without memory). They end
  the session as those of `HookError` do, which is enabled in instrumenting modes only.
- **Option tables, argument parsing** beyond the modes: options are inputs.
- **`timeline_canbuffer` and `timeline_usage`**, which the trace does not call or only
  reports.
- **Outputs other than files** (tables, strings, callbacks), which fail only as memory
  does, and the writer's text buffer.
- **Encodings**: JSON and Lua text, protobuf with interning, the capture format of Tracy,
  LZ4 (vendored). The reports' items are what they encode.
- **`single_thread`** and coroutines without the hook, which the trace ignores.
- **The helper script.** Its frame calls are `MarkFrame`, its starts and stops those of
  `Lifecycle`; the key, the timer and the message loop are the engine's.
- **Clocks and platforms**, inputs and preprocessor selection.
- **Command-line and post-processing scripts**, sequential programs over finished
  reports; dkjson is vendored.

The component list in `PROJECT.json` says of each part what is there and what is left.
