---------------------------- MODULE ChromeReport ----------------------------
(***************************************************************************)
(* The Chrome trace event report (lmprof_report_traceevent.c): a list of   *)
(* items in the order of the events, the same in a table, a file or a      *)
(* string.                                                                 *)
(***************************************************************************)
EXTENDS TraceReport

Item(ph, name, tid, ts, dur) ==
  [ph |-> ph, name |-> name, tid |-> tid, ts |-> ts, dur |-> dur]

\* __metaProcess
MetaProcess(name, tid) == Item("M", name, tid, 0, 0)

\* tracevent_table_header: what names the process and its threads.
ChromeHeader ==
  <<MetaProcess("process_name", Browser), MetaProcess("thread_name", Browser),
    MetaProcess("thread_name", Main), MetaProcess("thread_name", Sampler)>>

\* __eventRunTask
RunTask(b) == Item("X", "RunTask", Main, b.start, b.end - b.start)

\* __enterFrame
BeginFrame(opt, e) == Item("I", "BeginFrame", e.tid, Shown(opt, e.time), 0)

\* __exitFrame
ActivateLayerTree(opt, e) == Item("I", "ActivateLayerTree", e.tid, Shown(opt, e.time), 0)

\* __drawFrame
DrawFrame(opt, e) == Item("I", "DrawFrame", e.tid, Shown(opt, e.time), 0)

\* __eventScope, of a routine.
RoutineEnd(opt, e, ph) == Item(ph, "routine", Main, Shown(opt, e.time), 0)

\* __eventLineInstance
LineInstance(opt, e) == Item("I", e.fn, e.tid, Shown(opt, e.time), 0)

\* __eventSampleInstance: from one sample to the next.
SampleInstance(opt, e, next) ==
  Item("X", "EvaluateScript", Sampler, Shown(opt, e.time),
       Shown(opt, (next.time - e.time) % TimeModulus))

\* Faulty: the difference is rounded, instead of both ends.
CompleteScopeRounded(opt, e, sibling) ==
  Item("X", e.fn, e.tid, Shown(opt, e.time),
       Shown(opt, (sibling.time - e.time) % TimeModulus))

\* __eventCompleteScope
CompleteScope(opt, e, sibling) ==
  LET start == Shown(opt, e.time)
      end == Shown(opt, sibling.time)
  IN  Item("X", e.fn, e.tid, start, IF end > start THEN end - start ELSE 0)

\* __eventUpdateCounters
UpdateCounters(opt, e) == Item("C", "UpdateCounters", e.tid, Shown(opt, e.time), 0)

\* The loop of traceevent_table_events at the i-th event: a is the state of
\* the loop.  An unknown event ends it.
ChromeEvent(opt, es, a, i) ==
  LET e == es[i]
      op == ReportOp(e)
      counter == IF CounterDue(opt, a.counter) THEN <<UpdateCounters(opt, e)>> ELSE <<>>
      scope == IF e.sib = 0 THEN <<>> ELSE <<CompleteScope(opt, e, es[e.sib])>>
      sample == IF a.samples = 0 THEN <<>> ELSE <<SampleInstance(opt, es[a.samples], e)>>
      items == CASE op = "begin_frame"   -> <<BeginFrame(opt, e)>>
                 [] op = "end_frame"     -> <<ActivateLayerTree(opt, e), DrawFrame(opt, e)>>
                 [] op = "begin_routine" -> <<RoutineEnd(opt, e, "B")>>
                 [] op = "end_routine"   -> <<RoutineEnd(opt, e, "E")>>
                 [] op = "line_scope"    -> <<LineInstance(opt, e)>>
                 [] op = "sample_event"  -> sample
                 [] op = "enter_scope"   -> scope \o counter
                 [] op = "exit_scope"    -> counter
                 [] OTHER                -> <<>>
  IN  IF a.stopped \/ op = "unknown" THEN [a EXCEPT !.stopped = TRUE]
      ELSE [items   |-> a.items \o items,
            samples |-> IF op = "sample_event" THEN i ELSE a.samples,
            counter |-> NextCounter(opt, op, a.counter),
            stopped |-> FALSE]

\* traceevent_table_events, after the list is adjusted and compressed.  The
\* report counts as written even if an unknown event ended it.
ChromeReport(opt, es) ==
  LET b == Bounds(opt, es)
      first == IF b.valid THEN <<RunTask(b)>> ELSE <<>>
      end == FoldLeftDomain(LAMBDA a, i : ChromeEvent(opt, es, a, i),
                            [items |-> first, samples |-> 0, counter |-> 0, stopped |-> FALSE], es)
  IN  [ok |-> TRUE, all |-> ~end.stopped, items |-> ChromeHeader \o end.items]
=============================================================================
