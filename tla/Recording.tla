----------------------------- MODULE Recording -----------------------------
(***************************************************************************)
(* A trace from the hook events that record it to the files it is written  *)
(* to (lmprof_lib.c, lmprof_collections.c, lmprof_writer.c).               *)
(*                                                                         *)
(* Hooks may fire on any thread in any order, which is more than Lua's     *)
(* coroutines do (TraceInstrument has those).  What a hook costs cancels   *)
(* out: the clock here is the program's own, plus what calibration takes   *)
(* off for each hook and the call did not cost.  Ignored functions stay    *)
(* so.                                                                     *)
(***************************************************************************)
EXTENDS Timeline, ChromeReport, PerfettoReport, TracyReport

CONSTANTS
  Threads,      \* Lua threads
  NoThread,     \* no thread, and the thread of an event that is not set
  Funcs,        \* functions the program calls
  Ignored,      \* those of them with LMPROF_RECORD_IGNORED
  BaseFrames,   \* functions active on the main thread when it starts
  Confs,        \* the sessions considered
  MaxStack      \* bound: entries of a stack

\* split, load, draw: LMPROF_OPT_TRACE_LAYOUT_SPLIT, LOAD_STACK, DRAW_FRAME;
\* samples: line and count events are hooked; frames: the client marks frames;
\* cal: st->i.calibration; threads: threads that run; outOfMemory: a page may
\* not be allocated; threshold: that of LMPROF_OPT_TRACE_COMPRESS, 0 without;
\* opt: the clock's unit, and the memory counters' frequency; outputs: the
\* arguments of stop; diskFull: what is written to a file may be lost.
\* Bounds: limit, of hook events and frame calls; elapses, the times that may
\* pass from one to the next.
Formats == {"json", "perfetto", "tracy"}
NotString == "notstring"   \* an entry of a table of outputs that is no string

AllConfs ==
  [split : BOOLEAN, load : BOOLEAN, draw : BOOLEAN, samples : BOOLEAN, frames : BOOLEAN,
   cal : Nat, threads : SUBSET Threads, outOfMemory : BOOLEAN, threshold : Nat,
   opt : [unit : Nat \ {0}, mem : BOOLEAN, freq : Nat \ {0}],
   outputs : SUBSET Seq(Formats \cup {NotString}), diskFull : BOOLEAN, limit : Nat,
   elapses : SUBSET Nat]

ASSUME RecordingAssumption ==
  /\ Main \in Threads /\ {Browser, Sampler, NoThread} \cap Threads = {}
  /\ Ignored \subseteq Funcs /\ Root \notin Funcs
  /\ BaseFrames \in Seq(Funcs)
  /\ Confs \subseteq AllConfs

VARIABLES
  conf,         \* one of Confs
  now,          \* the time since list->baseTime
  hooks,        \* the number of hook events
  marks,        \* the number of frame calls
  current,      \* st->thread.state, whose stack st->thread.call_stack is
  stack,        \* each thread's stack: functions and their begin events
  status,       \* "running", "stopping", "closed", "error"
  altered,      \* list->adjusted, and list->compressed if it is to be
  outs,         \* the argument of stop
  files         \* what became of the outputs so far

trace == <<now, hooks, marks, current, stack>>
vars == <<pages, conf, trace, status, altered, outs, files>>

Running == status = "running"
Budget == hooks + marks < conf.limit
-----------------------------------------------------------------------------
(* Events.  r is what a hook has changed so far: the pages, the stacks, and *)
(* whether an error ended the session.                                     *)

\* st->thread.r in a hook that fires after elapsed, and outside of one.
HookUnit(elapsed) == [time |-> now + elapsed, ov |-> (hooks + 1) * conf.cal]
ClientUnit(elapsed) == [time |-> now + elapsed, ov |-> hooks * conf.cal]

NewEvent(op, tid, unit, fn) ==
  [op |-> op, tid |-> tid, time |-> unit.time, ov |-> unit.ov, fn |-> fn, sib |-> 0, lines |-> 0]

Entry(f) == [fn |-> f, begin |-> 0]
HasEvents(entry) == entry.fn \notin Ignored

\* What an event takes place in, if any.
Tid(t) == IF conf.split THEN t ELSE Main

\* An event whose absence is an error (traceevent_routine, traceevent_scope),
\* and one whose absence is not noticed (frames and samples).
Full(r) == Refuses(r.pages, conf.outOfMemory)

Need(r, e) ==
  IF r.err \/ Full(r) THEN [r EXCEPT !.err = TRUE] ELSE [r EXCEPT !.pages = Put(@, e)]

Want(r, e) == IF r.err \/ Full(r) THEN r ELSE [r EXCEPT !.pages = Put(@, e)]

\* traceevent_enterscope, for the i-th entry of t's stack.
EnterScope(r, t, i, unit) ==
  LET entry == r.stack[t][i]
      s == Need(r, NewEvent("enter_scope", Tid(t), unit, entry.fn))
  IN  IF ~HasEvents(entry) THEN r
      ELSE IF s.err THEN s ELSE [s EXCEPT !.stack[t][i].begin = Count(s.pages)]

\* traceevent_exitscope: the two ends of a scope refer to each other.
ExitScope(r, t, i, unit) ==
  LET entry == r.stack[t][i]
      e == [NewEvent("exit_scope", Tid(t), unit, entry.fn) EXCEPT !.sib = entry.begin]
      s == Need(r, e)
      begin == [At(s.pages, entry.begin) EXCEPT !.sib = Count(s.pages)]
  IN  IF ~HasEvents(entry) THEN r
      ELSE IF s.err \/ entry.begin = 0 THEN s
      ELSE [s EXCEPT !.pages = Write(@, entry.begin, begin)]

\* The ends of all entries of t's stack above the n-th, the last first.
ExitAbove(r, t, n, unit) ==
  LET len == Len(r.stack[t])
      after[m \in 0 .. len - n] ==
        IF m = 0 THEN r ELSE ExitScope(after[m - 1], t, len - m + 1, unit)
  IN  after[len - n]

\* The begins of all entries of t's stack, the first first.
EnterAll(r, t, unit) ==
  LET len == Len(r.stack[t])
      after[m \in 0 .. len] == IF m = 0 THEN r ELSE EnterScope(after[m - 1], t, m, unit)
  IN  after[len]

FrameEvent(op, unit) == NewEvent(op, Browser, unit, Root)

\* traceevent_append_stack
AppendStack(r, t, unit) ==
  LET framed == IF conf.draw THEN Want(r, FrameEvent("begin_frame", unit)) ELSE r
      routine == Need(framed, NewEvent("begin_routine", Main, unit, Root))
  IN  IF conf.split THEN framed ELSE EnterAll(routine, t, unit)

\* Faulty: the scopes of the thread before stay open.
ClearNothing(r, t, unit) == r

\* traceevent_clear_stack
ClearStack(r, t, unit) ==
  LET closed == IF conf.split THEN r
                ELSE Need(ExitAbove(r, t, 0, unit), NewEvent("end_routine", Main, unit, Root))
  IN  IF conf.draw THEN Want(closed, FrameEvent("end_frame", unit)) ELSE closed

Loaded(t) ==
  IF conf.load /\ t = Main THEN [i \in DOMAIN BaseFrames |-> Entry(BaseFrames[i])] ELSE <<>>

\* Faulty: the root is pushed after the calls in progress.
NewStackRootLast(t) == Loaded(t) \o <<Entry(Root)>>

\* lmprof_thread_stacktable_get
NewStack(t) == <<Entry(Root)>> \o Loaded(t)

\* traceevent_prehook on thread t.
Prehook(t, unit) ==
  LET r == [pages |-> pages, stack |-> stack, err |-> FALSE]
      cleared == IF current = NoThread THEN r ELSE ClearStack(r, current, unit)
      made == IF cleared.stack[t] = <<>> THEN [cleared EXCEPT !.stack[t] = NewStack(t)] ELSE cleared
  IN  IF t = current THEN r ELSE AppendStack(made, t, unit)

\* What a hook on t leaves: an error ends the session, and the list with it.
After(r, t, elapsed) ==
  /\ pages' = r.pages /\ stack' = r.stack
  /\ current' = t
  /\ hooks' = hooks + 1
  /\ now' = now + elapsed
  /\ status' = IF r.err THEN "error" ELSE status
  /\ UNCHANGED <<conf, marks, altered, outs, files>>
-----------------------------------------------------------------------------
(* Hooks and calls of the client *)

Call(t, f, elapsed) ==
  LET unit == HookUnit(elapsed)
      r == Prehook(t, unit)
      pushed == [r EXCEPT !.stack[t] = Append(@, Entry(f))]
  IN  /\ Running /\ Budget /\ t \in conf.threads
      /\ Len(r.stack[t]) < MaxStack
      /\ After(EnterScope(pushed, t, Len(pushed.stack[t]), unit), t, elapsed)

\* A return ends the scopes above the n-th entry: an error may have unwound
\* some of them.
Return(t, n, elapsed) ==
  LET unit == HookUnit(elapsed)
      r == Prehook(t, unit)
      s == ExitAbove(r, t, n, unit)
  IN  /\ Running /\ Budget /\ t \in conf.threads
      /\ n \in 1 .. Len(r.stack[t]) - 1
      /\ After([s EXCEPT !.stack[t] = IF r.err THEN @ ELSE SubSeq(@, 1, n)], t, elapsed)

\* Faulty: the line event is not added to the lines of its scope.
LineUnlinked(r, t, unit) ==
  Want(r, NewEvent("line_scope", Tid(t), unit, r.stack[t][Len(r.stack[t])].fn))

\* traceevent_sample with a line: the lines of a scope are a list, the last of
\* them first.
Line(r, t, unit) ==
  LET entry == r.stack[t][Len(r.stack[t])]
      begin == At(r.pages, entry.begin)
      e == [NewEvent("line_scope", Tid(t), unit, entry.fn) EXCEPT !.lines = begin.lines]
      s == Want(r, e)
  IN  IF r.err \/ Full(r) THEN r
      ELSE [s EXCEPT !.pages = Write(@, entry.begin, [begin EXCEPT !.lines = Count(s.pages)])]

\* traceevent_sample without one.
Sample(r, t, unit) == Want(r, NewEvent("sample_event", Tid(t), unit, Root))

\* Without a begin event traceevent_sample leaves the event it took as it is,
\* as malloc gave it: cleared, what an earlier trace left there, or no event
\* at all.  A cleared time is before list->baseTime.
UnsetOps == {"begin_frame", "enter_scope", "unknown"}
Unset(r, op) == Want(r, NewEvent(op, NoThread, [time |-> -1, ov |-> 0], Root))

\* LUA_HOOKLINE and LUA_HOOKCOUNT
SampleHook(t, line, unset, elapsed) ==
  LET unit == HookUnit(elapsed)
      r == Prehook(t, unit)
      entry == r.stack[t][Len(r.stack[t])]
      s == IF r.err THEN r
           ELSE IF entry.begin = 0 THEN Unset(r, unset)
           ELSE IF line THEN Line(r, t, unit) ELSE Sample(r, t, unit)
  IN  /\ Running /\ Budget /\ t \in conf.threads /\ conf.samples
      /\ After(s, t, elapsed)

\* traceevent_frame, called by begin_frame and end_frame.
MarkFrame(op, elapsed) ==
  LET r == [pages |-> pages, stack |-> stack, err |-> FALSE]
  IN  /\ Running /\ Budget /\ conf.frames /\ ~conf.draw
      /\ pages' = Want(r, FrameEvent(op, ClientUnit(elapsed))).pages
      /\ now' = now + elapsed /\ marks' = marks + 1
      /\ UNCHANGED <<conf, hooks, current, stack, status, altered, outs, files>>

\* A stop with output o, by a call on thread t: its event is not recorded.
\* Then pop_remaining_stacks.
Stop(t, o, elapsed) ==
  LET unit == HookUnit(elapsed)
      r == ClearStack(Prehook(t, unit), t, unit)
  IN  /\ Running /\ t \in conf.threads
      /\ pages' = r.pages /\ stack' = r.stack /\ current' = t
      /\ hooks' = hooks + 1 /\ now' = now + elapsed
      /\ status' = IF r.err THEN "error" ELSE "stopping"
      /\ outs' = o
      /\ UNCHANGED <<conf, marks, altered, files>>
-----------------------------------------------------------------------------
(* Reports and files *)

\* Faulty: each report adjusts the events.
PreparedAgain ==
  LET es == Adjusted(Flat(pages))
  IN  IF conf.threshold # 0 /\ ~altered THEN Compressed(es, conf.threshold) ELSE es

\* timeline_adjust and timeline_compress, the first time only.
Prepared ==
  LET es == Adjusted(Flat(pages))
  IN  IF altered THEN Flat(pages)
      ELSE IF conf.threshold # 0 THEN Compressed(es, conf.threshold) ELSE es

\* lmprof_push_report to a file, whose name's ending says which
\* (lmprof_trace_file_format).
Report(format, es) ==
  CASE format = "json"     -> ChromeReport(conf.opt, es)
    [] format = "perfetto" -> PerfettoReport(conf.opt, es)
    [] format = "tracy"    -> TracyReport(conf.opt, es)

NoReport == [ok |-> FALSE, all |-> FALSE, items |-> <<>>]
File(format, opened, closed, report) ==
  [format |-> format, opened |-> opened, closed |-> closed, report |-> report]

\* An output that is not tried, or whose file cannot be opened.
NoFile(format) == File(format, FALSE, FALSE, NoReport)

Written(f) == f.opened /\ f.closed /\ f.report.ok

\* success, in push_report and lmprof_writer_write
Success == \A i \in DOMAIN files : Written(files[i])

Output == outs[Len(files) + 1]
Writing == status = "stopping" /\ Len(files) < Len(outs)

\* lmprof_writer_write, for one output: the file is opened, written and
\* closed, and what is written may not arrive.
WriteFile(closed) ==
  LET es == Prepared
  IN  /\ Writing /\ Success /\ Output # NotString
      /\ closed \/ conf.diskFull
      /\ files' = Append(files, File(Output, TRUE, closed, Report(Output, es)))
      /\ pages' = [p \in DOMAIN pages |-> [s \in DOMAIN pages[p] |-> es[(p - 1) * PageSize + s]]]
      /\ altered' = TRUE
      /\ UNCHANGED <<conf, trace, status, outs>>

\* It cannot be opened, which may happen to any file, is not a path, or comes
\* after one that failed.
SkipFile ==
  /\ Writing
  /\ files' = Append(files, NoFile(Output))
  /\ UNCHANGED <<pages, conf, trace, status, altered, outs>>

\* Faulty: a failure leaves the session as it is.
CloseOnSuccess ==
  /\ status = "stopping" /\ Len(files) = Len(outs) /\ Success
  /\ status' = "closed"
  /\ UNCHANGED <<pages, conf, trace, altered, outs, files>>

\* lmprof_shutdown_profiler, after the last output, or a failure.
Close ==
  /\ status = "stopping" /\ Len(files) = Len(outs)
  /\ status' = "closed"
  /\ UNCHANGED <<pages, conf, trace, altered, outs, files>>

-----------------------------------------------------------------------------
Init ==
  /\ TimelineInit
  /\ conf \in Confs
  /\ now = 0 /\ hooks = 0 /\ marks = 0
  /\ current = NoThread
  /\ stack = [t \in Threads |-> IF t = Main THEN NewStack(Main) ELSE <<>>]
  /\ status = "running" /\ altered = FALSE
  /\ outs = <<>> /\ files = <<>>

Next ==
  \/ \E t \in Threads, elapsed \in conf.elapses :
       \/ \E f \in Funcs : Call(t, f, elapsed)
       \/ \E n \in 1 .. MaxStack : Return(t, n, elapsed)
       \/ \E line \in BOOLEAN, unset \in UnsetOps : SampleHook(t, line, unset, elapsed)
       \/ \E o \in conf.outputs : Stop(t, o, elapsed)
  \/ \E op \in FrameOps, elapsed \in conf.elapses : MarkFrame(op, elapsed)
  \/ \E closed \in BOOLEAN : WriteFile(closed)
  \/ SkipFile
  \/ Close

\* Nothing waits in stop.  As long as an output is left SkipFile is enabled, so
\* that its fairness says that an output is tried, by WriteFile, or skipped.
Fairness == WF_vars(SkipFile) /\ WF_vars(Close)

Spec == Init /\ [][Next]_vars /\ Fairness
-----------------------------------------------------------------------------
(* Properties *)

Events == Flat(pages)

\* Every variable holds a value of its kind, stacks begin with their root, and
\* what an event or an entry refers to is an event.
TypeOK ==
  /\ conf \in Confs /\ now \in Nat /\ hooks \in Nat /\ marks \in Nat
  /\ current \in conf.threads \cup {NoThread}
  /\ current # NoThread => stack[current] # <<>>
  /\ \A t \in Threads : stack[t] # <<>> =>
       /\ stack[t][1].fn = Root
       /\ \A i \in DOMAIN stack[t] : /\ i > 1 => stack[t][i].fn \in Funcs
                                     /\ stack[t][i].begin \in 0 .. Count(pages)
  /\ \A e \in Range(Events) : e.sib \in 0 .. Count(pages) /\ e.lines \in 0 .. Count(pages)
  /\ status \in {"running", "stopping", "closed", "error"}
  /\ altered \in BOOLEAN
  /\ outs \in conf.outputs \cup {<<>>} /\ Len(files) <= Len(outs)

Scope(es, i) == es[i].op = "enter_scope" /\ es[i].fn # Root /\ es[i].tid # NoThread

\* The two ends of a scope refer to each other, and to nobody else; they are of
\* one function and track.  In the merged layout only the calls in progress on
\* the running thread are without an end, and after stop none
\* (traceevent_exitscope, traceevent_clear_stack).
EndsMeet ==
  LET es == Events
  IN  /\ \A i \in DOMAIN es : es[i].sib # 0 =>
           /\ es[es[i].sib].sib = i
           /\ es[i].fn = es[es[i].sib].fn /\ es[i].tid = es[es[i].sib].tid
      /\ ~conf.split /\ status # "error" =>
           \A i \in DOMAIN es : Scope(es, i) /\ es[i].sib = 0 =>
             /\ Running
             /\ \E k \in DOMAIN stack[current] : stack[current][k].begin = i

\* The scopes whose ends surround the i-th event on its track.
Around(es, i) ==
  {j \in 1 .. i - 1 : /\ es[j].sib > i /\ es[j].tid = es[i].tid}

Duration(es, i) == (es[es[i].sib].time - es[i].time) % TimeModulus

\* With a threshold, reports leave out the scopes that are shorter and the
\* lines whose innermost scope is one of them, and keep all others
\* (timeline_compress).
CompressedScopes ==
  LET es == Events
      innermost(i) == Max(Around(es, i))
  IN  altered /\ conf.threshold # 0 =>
        \A i \in DOMAIN es :
          /\ es[i].op = "enter_scope" /\ es[i].sib # 0 => Duration(es, i) >= conf.threshold
          /\ es[i].op = "ignore_scope" /\ es[i].sib > i => Duration(es, i) < conf.threshold
          /\ es[i].op = "line_scope" /\ Around(es, i) # {} =>
               es[innermost(i)].op = "enter_scope"
          /\ es[i].op = "ignore_scope" /\ es[i].sib = 0 =>
               es[innermost(i)].op = "ignore_scope"

\* Time, less what the hooks took, did not go back while the trace was
\* recorded: not so if a hook took less than calibration takes off for it.
ClockForward ==
  LET es == IF altered THEN Events ELSE Adjusted(Events)
      timed == SelectSeq(es, LAMBDA e : Timed(e.op))
  IN  /\ \A i \in DOMAIN timed : timed[i].time < TimeModulus \div 2
      /\ \A i \in 1 .. Len(timed) - 1 : timed[i].time <= timed[i + 1].time

Reports(format) ==
  {files[i].report : i \in {j \in DOMAIN files :
     files[j].format = format /\ files[j].opened /\ files[j].report.ok}}

\* What a reader of a Perfetto report has on a track: the slices still open,
\* and whether each end so far ended a slice, and the one it was meant for.
Replayed(items, track) ==
  FoldLeft(LAMBDA a, q :
             CASE q.packet.track = track /\ q.packet.type = "begin" ->
                    [a EXCEPT !.open = Append(@, q.slice)]
               [] q.packet.track = track /\ q.packet.type = "end" ->
                    IF a.open = <<>> THEN [a EXCEPT !.paired = FALSE]
                    ELSE [open   |-> Front(a.open),
                          paired |-> a.paired,
                          own    |-> a.own /\ Last(a.open) = q.slice]
               [] OTHER -> a,
           [open |-> <<>>, paired |-> TRUE, own |-> TRUE], items)

\* On every track of a Perfetto report every slice that begins ends, and ends
\* end something; unless the clock went back, the slice they are meant for,
\* although many begin and end at one time (perfetto_queue_compare).
PerfettoNests ==
  \A r \in Reports("perfetto") : \A track \in {q.packet.track : q \in Range(r.items)} :
    LET end == Replayed(r.items, track)
    IN  /\ end.paired /\ end.open = <<>>
        /\ ClockForward => end.own

\* Whatever the clock did, the times of a thread in a Tracy capture never go
\* back, so that the offsets written are not negative, and zones are inside
\* the zone that they are the children of (tracy_build_thread_trees).
TracyNests ==
  \A r \in Reports("tracy") : \A tid \in DOMAIN r.items[1].times :
    LET c == r.items[1]
        tree == c.trees[tid]
    IN  /\ \A i \in 1 .. Len(c.times[tid]) - 1 : c.times[tid][i] <= c.times[tid][i + 1]
        /\ \A z \in DOMAIN tree : tree[z] # 0 =>
             /\ c.zones[tree[z]].start <= c.zones[z].start
             /\ c.zones[z].end <= c.zones[tree[z]].end

\* The number of zones written for a thread, and of the zones with others
\* inside, are those of the zones that follow, though some are dropped
\* (tracy_export_drop_zone, child_vector_count).
TracyCounts ==
  \A r \in Reports("tracy") :
    LET c == r.items[1]
    IN  /\ \A tid \in DOMAIN c.counts : c.counts[tid] = Len(c.times[tid]) \div 2
        /\ c.vectors = Cardinality(UNION {Range(c.trees[tid]) \ {0} : tid \in DOMAIN c.trees})

\* How often each value is in a sequence.
Tally(s) == [v \in Range(s) |-> Cardinality({i \in DOMAIN s : s[i] = v})]

\* The calls of functions of some length, in the events and as each report
\* shows them.
CallsMade(es) ==
  LET shown(i) == <<es[i].tid, es[i].fn, Shown(conf.opt, es[i].time),
                    Shown(conf.opt, es[es[i].sib].time)>>
      long == SelectSeq([i \in DOMAIN es |-> i],
                        LAMBDA i : Scope(es, i) /\ es[i].sib # 0 /\ shown(i)[3] < shown(i)[4])
  IN  Tally([k \in DOMAIN long |-> shown(long[k])])

ChromeCalls(items) ==
  LET long == SelectSeq(items, LAMBDA q : q.ph = "X" /\ q.name \in Funcs /\ q.dur > 0)
  IN  Tally([k \in DOMAIN long |->
               <<long[k].tid, long[k].name, long[k].ts, long[k].ts + long[k].dur>>])

PerfettoCalls(items) ==
  LET begins == SelectSeq(items, LAMBDA q : q.packet.type = "begin" /\ q.packet.name \in Funcs)
  IN  Tally([k \in DOMAIN begins |->
               <<begins[k].packet.track, begins[k].packet.name>> \o begins[k].slice])

TracyCalls(c) ==
  LET start == Bounds(conf.opt, Events).start
      zones == SetToSeq({z \in c.kept : c.zones[z].name \in Funcs})
      shown(z) == <<z.tid, z.name, z.start + start, z.end + start>>
  IN  Tally([k \in DOMAIN zones |-> shown(c.zones[zones[k]])])

\* Unless the clock went back, each report that succeeds shows every call of
\* some length that began and ended, once and at the same time as the others,
\* although two of them sort the events and one drops what does not nest.
ReportsAgree ==
  ClockForward =>
    LET made == CallsMade(Events)
    IN  /\ \A r \in Reports("json") : r.all => ChromeCalls(r.items) = made
        /\ \A r \in Reports("perfetto") : PerfettoCalls(r.items) = made
        /\ \A r \in Reports("tracy") : TracyCalls(r.items[1]) = made

\* Outputs of one format are alike: the first report adjusts and compresses
\* the events for all (list->adjusted, list->compressed).
OutputsAlike == \A format \in Formats : Cardinality(Reports(format)) <= 1

\* A session that stops without an error ends, with every output tried or
\* skipped, whatever becomes of the files.
SessionEnds == status = "stopping" ~> (status = "closed" /\ Len(files) = Len(outs))
=============================================================================
