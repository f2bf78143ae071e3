-------------------------- MODULE TraceInstrument --------------------------
(***************************************************************************)
(* The instrumenting trace profiler: the begin and end events that the     *)
(* hook events of several Lua coroutines leave in one event list           *)
(* (lmprof_lib.c, lmprof.c).                                               *)
(*                                                                         *)
(* Events of one track must be bracketed.  In the merged layout all        *)
(* coroutines share the track of the main thread, so that the scopes of    *)
(* the coroutine a hook last fired on are closed, and those of the next    *)
(* are opened, at every switch.  In the split layout each has its own.     *)
(*                                                                         *)
(* Coroutines are resumed and yield as they do in Lua: only the last of a  *)
(* chain runs, and its call of resume or yield is the last event before    *)
(* another runs.  Every coroutine has the hook.  The event list does not   *)
(* fill up, and its samples and times are left out.                        *)
(***************************************************************************)
EXTENDS LuaCalls

CONSTANTS
  LuaFuncs,     \* Lua functions
  CFuncs,       \* C functions
  Pcalls,       \* the C functions that catch errors
  ResumeFn,     \* coroutine.resume
  YieldFn,      \* coroutine.yield
  Threads,      \* Lua threads
  Main,         \* the thread that starts the profiler
  Root,         \* LMPROF_RECORD_ID_ROOT
  GC,           \* LMPROF_RECORD_ID_GC
  None,         \* no thread
  Routine,      \* the scope of a routine event
  FrameTrack,   \* the track of frame events, and their scope
  Stray,        \* an end event without a begin
  Confs,        \* the machines and options considered
  Ignorable,    \* functions a client may have ignored
  BaseFrames,   \* functions active on the main thread when it starts
  MaxStack,     \* LMPROF_MAXSTACK
  MaxCalls      \* bound: calls made

Funcs == LuaFuncs \cup CFuncs

\* vm: the events the Lua machine generates; split, load, draw, yield and
\* compress: LMPROF_OPT_TRACE_LAYOUT_SPLIT, LOAD_STACK, TRACE_DRAW_FRAME,
\* TRACE_IGNORE_YIELD and COMPRESS_GRAPH.
AllConfs == [vm : {"puc51", "luajit"}, split : BOOLEAN, load : BOOLEAN, draw : BOOLEAN,
             yield : BOOLEAN, compress : BOOLEAN]

ASSUME TraceInstrumentAssumption ==
  /\ Main \in Threads /\ None \notin Threads /\ FrameTrack \notin Threads
  /\ LuaFuncs \cap CFuncs = {} /\ Pcalls \subseteq CFuncs
  /\ {ResumeFn, YieldFn} \subseteq CFuncs \ Pcalls /\ ResumeFn # YieldFn
  /\ {Root, GC, Routine, FrameTrack, Stray} \cap Funcs = {}
  /\ Root # GC
  /\ Confs \subseteq AllConfs /\ Ignorable \subseteq Funcs
  /\ BaseFrames \in Seq(Funcs)
  /\ MaxStack \in Nat \ {0} /\ MaxCalls \in Nat

VARIABLES
  conf,         \* one of Confs
  alive,        \* threads not yet dead
  chain,        \* the running thread, last, above those that resumed it
  calls,        \* each thread's call stack, as Lua has it
  caught,       \* threads whose top call just caught an error
  hostErr,      \* threads whose calls were unwound by an error the host caught
  made,         \* the number of calls made
  ignore,       \* LMPROF_TAB_FUNC_IGNORE
  status,       \* "running", "stopped", "error", "crashed"
  paused,       \* LMPROF_STATE_PAUSED
  current,      \* st->thread.state, whose stack st->thread.call_stack is
  stack,        \* LMPROF_TAB_THREAD_STACKS: <<>> for a thread with none
  records,      \* the record hash: for each key, LMPROF_RECORD_IGNORED
  tracks        \* the scopes open on each track of the event list

lua == <<alive, chain, calls, caught, hostErr, made>>
vars == <<conf, lua, ignore, status, paused, current, stack, records, tracks>>

Running == Top(chain)
-----------------------------------------------------------------------------
(* Records and stacks.  A stack's entries are keys of records. *)

RootKey == <<Root, Root>>
GCKey == <<GC, Root>>

\* The key of f called by parent, and of f loaded from a traceback: there an
\* uncompressed profile refers to the parent by its record.
Key(f, parent) == <<f, parent[1]>>
LoadedKey(f, parent) == <<f, IF conf.compress \/ parent = RootKey THEN parent[1] ELSE parent>>

LoadedChain(frames) ==
  LET key[i \in 1 .. Len(frames)] ==
        LoadedKey(frames[i].fn, IF i = 1 THEN RootKey ELSE key[i - 1])
  IN  [i \in 1 .. Len(frames) |-> key[i]]

\* What lmprof_thread_stacktable_get makes for a thread with these calls: the
\* root and, with load_stack, the traceback, as much of it as fits.
NewStack(frames) ==
  <<RootKey>> \o
  (IF conf.load THEN SubSeq(LoadedChain(frames), 1, Min({Len(frames), MaxStack - 1})) ELSE <<>>)

\* The records it fetches for them.
NewKeys(frames) ==
  {RootKey} \cup (IF conf.load THEN Range(LoadedChain(frames)) ELSE {})

\* lmprof_fetch_record for each key of K: whether a function is ignored is
\* settled when its record is made.
IsIgnored(f) == f \in ignore \/ (conf.yield /\ f = YieldFn)

Fetched(recs, K) ==
  [k \in DOMAIN recs \cup K |-> IF k \in DOMAIN recs THEN recs[k] ELSE IsIgnored(k[1])]

\* Faulty: one entry too many fits.
HasRoomAtEnd(s) == Len(s) <= MaxStack

\* lmprof_stack_next
HasRoom(s) == Len(s) < MaxStack

\* Faulty: a return pops one entry, whichever function it is of.
AfterReturnOnce(s, f) == SubSeq(s, 1, Max({1, Len(s) - 1}))

\* A return pops up to the function that returns, a tail return one entry,
\* and neither the root.
AfterReturn(s, f) ==
  LET matches == {i \in 2 .. Len(s) : s[i][1] = f}
  IN  SubSeq(s, 1, IF matches = {} THEN 1 ELSE Max(matches) - 1)

AfterTails(s, n) == SubSeq(s, 1, Max({1, Len(s) - n}))
-----------------------------------------------------------------------------
(* Events *)

\* Faulty: what is ignored now has no events.
ShownNow(s, recs) ==
  LET shown == Selected(s, {i \in DOMAIN s : ~IsIgnored(s[i][1])})
  IN  [i \in DOMAIN shown |-> shown[i][1]]

\* traceevent_scope: the functions of a stack that have events.
Shown(s, recs) ==
  LET shown == Selected(s, {i \in DOMAIN s : ~recs[s[i]]})
  IN  [i \in DOMAIN shown |-> shown[i][1]]

\* The scopes w begin, or end, the last of them first.
Begun(tr, k, w) == [tr EXCEPT ![k] = @ \o w]

Ended(tr, k, w) ==
  LET open == tr[k]
      n == Len(open) - Len(w)
  IN  [tr EXCEPT ![k] =
         IF n >= 0 /\ SubSeq(open, n + 1, Len(open)) = w THEN SubSeq(open, 1, n)
         ELSE Append(@, Stray)]

\* The track of a function called on thread t.
TrackOf(t) == IF conf.split THEN t ELSE Main

AppendStack(tr, s, recs) ==
  LET frame == IF conf.draw THEN Begun(tr, FrameTrack, <<FrameTrack>>) ELSE tr
  IN  IF conf.split THEN frame
      ELSE Begun(frame, Main, <<Routine>> \o Shown(s, recs))

ClearStack(tr, s, recs) ==
  LET scopes == IF conf.split THEN tr
                ELSE Ended(tr, Main, <<Routine>> \o Shown(s, recs))
  IN  IF conf.draw THEN Ended(scopes, FrameTrack, <<FrameTrack>>) ELSE scopes

\* When a thread's first stack is made it may be one of every LMPROF_STACK_GC.
\* lmprof_trace_gc_event pushes an entry, and pops it again, on the stack of
\* the thread before, which must have room.
MayCollect(t, collect) == collect => stack[t] = <<>> /\ HasRoom(stack[current])

\* Faulty: a thread that waits for another counts as dead.
DeadIfWaiting(u) == u # Running

\* A thread that lmprof_thread_info_gc takes for dead.
Dead(u) == u \notin alive

\* The profiler after traceevent_prehook on thread t, whose calls are frames.
Prehook(t, frames, collect) ==
  LET new == stack[t] = <<>>
      recs == Fetched(records, (IF new THEN NewKeys(frames) ELSE {})
                               \cup (IF collect THEN {GCKey} ELSE {}))
      stacks == [u \in Threads |->
                   IF u = t THEN IF new THEN NewStack(frames) ELSE stack[t]
                   ELSE IF collect /\ Dead(u) THEN <<>> ELSE stack[u]]
      cleared == IF current = None THEN tracks
                 ELSE ClearStack(tracks, stack[current], recs)
  IN  [stack |-> stacks, records |-> recs,
       tracks |-> IF t = current THEN tracks ELSE AppendStack(cleared, stacks[t], recs)]

\* What a hook leaves that has popped or pushed: p is the profiler before, s
\* the stack of t after.
Popped(p, t, s) ==
  LET closed == SubSeq(p.stack[t], Len(s) + 1, Len(p.stack[t]))
  IN  /\ stack' = [p.stack EXCEPT ![t] = s]
      /\ records' = p.records
      /\ tracks' = Ended(p.tracks, TrackOf(t), Shown(closed, p.records))

Pushed(p, t, key) ==
  LET recs == Fetched(p.records, {key})
  IN  /\ records' = recs
      /\ IF HasRoom(p.stack[t])
         THEN /\ stack' = [p.stack EXCEPT ![t] = Append(@, key)]
              /\ tracks' = Begun(p.tracks, TrackOf(t), Shown(<<key>>, recs))
              /\ UNCHANGED status
         ELSE /\ stack' = p.stack /\ tracks' = p.tracks
              /\ status' = "error"

\* A call event.
CallHook(t, f, collect) ==
  LET p == Prehook(t, calls'[t], collect)
  IN  /\ made < MaxCalls /\ MayCollect(t, collect)
      /\ Pushed(p, t, Key(f, Top(p.stack[t])))
      /\ current' = t
      /\ made' = made + 1
      /\ UNCHANGED <<conf, ignore, paused>>
-----------------------------------------------------------------------------
(* The program and its events *)

\* A hook fires.  (In a paused profiler it fails.)
Hooks == status = "running" /\ ~paused

\* The running thread may call: it does not have to return from a resume, a
\* yield or a pcall first.
MayCall ==
  LET c == calls[Running]
  IN  /\ Hooks /\ Running \notin caught
      /\ c # <<>> => Top(c).fn \notin {ResumeFn, YieldFn}

Call(f, collect) ==
  /\ MayCall /\ f \notin {ResumeFn, YieldFn}
  /\ calls' = [calls EXCEPT ![Running] = Called(@, f)]
  /\ CallHook(Running, f, collect)
  /\ UNCHANGED <<alive, chain, caught, hostErr>>

\* PUC Lua replaces a call by another of a Lua function only.
TailCall(f, collect) ==
  /\ MayCall /\ f \notin {ResumeFn, YieldFn}
  /\ calls[Running] # <<>> /\ Top(calls[Running]).fn \in LuaFuncs
  /\ conf.vm = "puc51" => f \in LuaFuncs
  /\ calls' = [calls EXCEPT ![Running] = TailCalled(@, f)]
  /\ CallHook(Running, f, collect)
  /\ UNCHANGED <<alive, chain, caught, hostErr>>

\* coroutine.resume(u): its call event, and then u runs.
Resume(u, collect) ==
  /\ MayCall /\ u \in alive \ Range(chain)
  /\ calls' = [calls EXCEPT ![Running] = Called(@, ResumeFn)]
  /\ CallHook(Running, ResumeFn, collect)
  /\ chain' = Append(chain, u)
  /\ UNCHANGED <<alive, caught, hostErr>>

\* coroutine.yield: not across a pcall in PUC Lua.
Yield(collect) ==
  /\ MayCall /\ Len(chain) > 1
  /\ conf.vm = "puc51" => \A i \in DOMAIN calls[Running] : calls[Running][i].fn \notin Pcalls
  /\ calls' = [calls EXCEPT ![Running] = Called(@, YieldFn)]
  /\ CallHook(Running, YieldFn, collect)
  /\ chain' = Pop(chain)
  /\ UNCHANGED <<alive, caught, hostErr>>

\* The running thread is left with calls c; a coroutine without any is dead.
Leave(c) ==
  LET t == Running
      dies == c = <<>> /\ t # Main
  IN  /\ calls' = [calls EXCEPT ![t] = c]
      /\ alive' = IF dies THEN alive \ {t} ELSE alive
      /\ chain' = IF dies THEN Pop(chain) ELSE chain

\* The top call returns; in PUC Lua the calls it replaced have tail return
\* events.
Return(collect) ==
  LET t == Running
      c == calls[t]
      tails == IF conf.vm = "puc51" THEN Len(c) - 1 - Len(Left(c)) ELSE 0
      p == Prehook(t, c, collect)
  IN  /\ Hooks /\ c # <<>> /\ MayCollect(t, collect)
      /\ conf.vm = "puc51" \/ Top(c).fn \in LuaFuncs
      /\ Leave(Left(c))
      /\ Popped(p, t, AfterTails(AfterReturn(p.stack[t], Top(c).fn), tails))
      /\ current' = t
      /\ caught' = caught \ {t}
      /\ UNCHANGED <<conf, hostErr, made, ignore, status, paused>>

\* LuaJIT: a C function returns without an event.
ReturnUnseen ==
  /\ Hooks /\ calls[Running] # <<>>
  /\ conf.vm = "luajit" /\ Top(calls[Running]).fn \in CFuncs
  /\ Leave(Left(calls[Running]))
  /\ caught' = caught \ {Running}
  /\ UNCHANGED <<conf, hostErr, made, ignore, status, paused, current, stack, records, tracks>>

\* An error unwinds to the innermost pcall, or to the host, or to the resume
\* of the coroutine, which dies of it.
Raise ==
  LET c == calls[Running]
      left == Unwound(c, Pcalls)
  IN  /\ Hooks /\ c # <<>> /\ Running \notin caught
      /\ Top(c).fn \notin Pcalls \cup {YieldFn}
      /\ Leave(left)
      /\ caught' = IF left = <<>> THEN caught ELSE caught \cup {Running}
      /\ hostErr' = IF left = <<>> /\ Running = Main THEN {Main} \cup hostErr ELSE hostErr
      /\ UNCHANGED <<conf, made, ignore, status, paused, current, stack, records, tracks>>
-----------------------------------------------------------------------------
(* The client *)

\* lmprof.ignore and lmprof.unignore; their own call is one like any other.
Ignore(f) ==
  /\ Hooks
  /\ ignore' = IF f \in ignore THEN ignore \ {f} ELSE ignore \cup {f}
  /\ UNCHANGED <<conf, lua, status, paused, current, stack, records, tracks>>

\* lmprof_pause_execution and lmprof_resume_execution, called from C.
PauseExecution ==
  /\ Hooks /\ current # None
  /\ paused' = TRUE
  /\ tracks' = ClearStack(tracks, stack[current], records)
  /\ UNCHANGED <<conf, lua, ignore, status, current, stack, records>>

ResumeExecution ==
  /\ status = "running" /\ paused
  /\ paused' = FALSE
  /\ tracks' = AppendStack(tracks, stack[current], records)
  /\ UNCHANGED <<conf, lua, ignore, status, current, stack, records>>

\* An event while the profiler is paused is an error, which ends the session.
PausedEvent ==
  /\ status = "running" /\ paused
  /\ status' = "error"
  /\ UNCHANGED <<conf, lua, ignore, paused, current, stack, records, tracks>>

\* An event makes a stack, collects garbage, and finds no room for the entry
\* of the collection on the stack of the thread before.
CollectWithoutRoom ==
  /\ Hooks /\ stack[Running] = <<>>
  /\ ~HasRoom(stack[current])
  /\ status' = "crashed"
  /\ UNCHANGED <<conf, lua, ignore, paused, current, stack, records, tracks>>

\* lmprof.stop: its call event is not pushed.
Stop(collect) ==
  LET t == Running
      p == Prehook(t, calls[t], collect)
  IN  /\ MayCall /\ MayCollect(t, collect)
      /\ status' = "stopped"
      /\ current' = t
      /\ stack' = p.stack /\ records' = p.records
      /\ tracks' = ClearStack(p.tracks, p.stack[t], p.records)
      /\ UNCHANGED <<conf, lua, ignore, paused>>

\* Faulty: what is open stays open.
FinalizeOpen ==
  /\ Hooks /\ chain = <<Main>>
  /\ status' = "stopped"
  /\ UNCHANGED <<conf, lua, ignore, paused, current, stack, records, tracks>>

\* The end of lmprof.func and of a C client: finalize without an event.
Finalize ==
  /\ Hooks /\ chain = <<Main>>
  /\ status' = "stopped"
  /\ tracks' = IF current = None THEN tracks
               ELSE ClearStack(tracks, stack[current], records)
  /\ UNCHANGED <<conf, lua, ignore, paused, current, stack, records>>
-----------------------------------------------------------------------------
\* The profiler has just started on the main thread, whose stack
\* lmprof_initialize_thread allocates.
Init ==
  /\ conf \in Confs
  /\ alive = Threads /\ chain = <<Main>>
  /\ calls = [t \in Threads |->
                IF t # Main THEN <<>>
                ELSE [i \in DOMAIN BaseFrames |-> Frame(BaseFrames[i], conf.load)]]
  /\ caught = {} /\ hostErr = {} /\ made = 0
  /\ ignore = {}
  /\ status = "running" /\ paused = FALSE
  /\ current = None
  /\ stack = [t \in Threads |-> IF t = Main THEN NewStack(calls[Main]) ELSE <<>>]
  /\ records = [k \in NewKeys(calls[Main]) |-> IsIgnored(k[1])]
  /\ tracks = [k \in Threads \cup {FrameTrack} |-> <<>>]

Next ==
  \/ \E f \in Funcs, collect \in BOOLEAN : Call(f, collect) \/ TailCall(f, collect)
  \/ \E u \in Threads, collect \in BOOLEAN : Resume(u, collect)
  \/ \E collect \in BOOLEAN : Yield(collect) \/ Return(collect) \/ Stop(collect)
  \/ \E f \in Ignorable : Ignore(f)
  \/ ReturnUnseen
  \/ Raise
  \/ PauseExecution
  \/ ResumeExecution
  \/ PausedEvent
  \/ CollectWithoutRoom
  \/ Finalize

Spec == Init /\ [][Next]_vars
-----------------------------------------------------------------------------
(* Properties *)

Keys == DOMAIN records

LuaTyped ==
  /\ conf \in Confs
  /\ alive \subseteq Threads /\ caught \subseteq Threads /\ hostErr \subseteq Threads
  /\ made \in 0 .. MaxCalls
  /\ chain \in Seq(Threads) /\ chain # <<>> /\ chain[1] = Main
  /\ calls \in [Threads -> Seq([fn : Funcs, seen : BOOLEAN, lost : BOOLEAN])]

ProfileTyped ==
  /\ ignore \subseteq Ignorable
  /\ status \in {"running", "stopped", "error", "crashed"} /\ paused \in BOOLEAN
  /\ current \in Threads \cup {None}
  /\ stack \in [Threads -> Seq(Keys)] /\ \A t \in Threads : Len(stack[t]) <= MaxStack
  /\ records \in [Keys -> BOOLEAN]

\* Every variable holds a value of its kind; in particular every entry of a
\* stack has its record, and no stack outgrows the array it is kept in.
TypeOK ==
  /\ LuaTyped /\ ProfileTyped
  /\ tracks \in [Threads \cup {FrameTrack} ->
                  Seq(Funcs \cup {Root, GC, Routine, FrameTrack, Stray})]

\* The events are bracketed, whatever they leave out: the scopes open are the
\* entries of the stack of the thread the hook last fired on, in one layout,
\* and of each thread in the other, those of ignored functions excepted; and
\* no end event lacks its begin.  (load_stack with the split layout pushes
\* functions without a begin event, whose ends are strays.)
OpenScopes ==
  status = "running" =>
    LET open == current # None /\ ~paused
    IN  /\ tracks[FrameTrack] = IF conf.draw /\ open THEN <<FrameTrack>> ELSE <<>>
        /\ ~conf.split =>
             /\ tracks[Main] = IF open THEN <<Routine>> \o Shown(stack[current], records)
                               ELSE <<>>
             /\ \A t \in Threads \ {Main} : tracks[t] = <<>>
        /\ conf.split /\ ~conf.load =>
             \A t \in Threads : stack[t] # <<>> =>
               tracks[t] = Shown(Tail(stack[t]), records)

\* The functions of a thread's stack are the calls in progress.  Under PUC Lua
\* they are these in order, with those an error unwound only until the pcall
\* that caught it returns; under LuaJIT there may be others, whose return was
\* never seen, but none in progress is missing.  (With load_stack a coroutine
\* has its first function twice.)
ScopesFollowCalls ==
  status = "running" =>
    \A t \in {u \in alive \ hostErr : stack[u] # <<>> /\ (~conf.load \/ u = Main)} :
      LET seen == SeenCalls(calls[t])
          n == Len(seen)
          fn(i) == stack[t][i + 1][1]
      IN  IF conf.vm = "puc51"
          THEN /\ Len(stack[t]) - 1 >= n
               /\ \A i \in 1 .. n : fn(i) = seen[i].fn
               /\ t \notin caught => Len(stack[t]) - 1 = n
          ELSE \E at \in [1 .. n -> 1 .. Len(stack[t]) - 1] :
                 /\ \A i \in 1 .. n : fn(at[i]) = seen[i].fn
                 /\ \A i, j \in 1 .. n : i < j => at[i] < at[j]

\* A switch does not free the stack it switches from: threads are collected
\* while st->thread.call_stack still is the stack of the thread before, on
\* which the end of the collection is recorded.  (That thread is alive, as its
\* call of resume or yield was the last event.)
SwitchKeepsStack ==
  [][status' = "running" /\ current # None => stack'[current] # <<>>]_vars

\* A stop closes what is open on the track that all threads share, and the
\* frame.
MergedStops ==
  status = "stopped" =>
    /\ tracks[FrameTrack] = <<>>
    /\ ~conf.split => tracks[Main] = <<>>

\* lmprof_state.h:269 says that finalize closes the active stack "so the
\* generated B/E event stream remains balanced": the running thread has no
\* scope open in the report.
StopBalances == status = "stopped" => tracks[TrackOf(Running)] = <<>>
=============================================================================
