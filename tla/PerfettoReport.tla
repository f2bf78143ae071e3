--------------------------- MODULE PerfettoReport ---------------------------
(***************************************************************************)
(* The Perfetto report (lmprof_report_perfetto.c): begin and end events of *)
(* slices, instants and counters, queued, sorted and written.  Perfetto    *)
(* ends the innermost open slice of a track, whatever end it reads.        *)
(***************************************************************************)
EXTENDS TraceReport, TLC

RunTaskRank == 0
ScopeRank == 2

Queued(type, track, ts, start, end, name, rank) ==
  [type |-> type, track |-> track, ts |-> ts, start |-> start, end |-> end,
   name |-> name, rank |-> rank]

\* perfetto_queue_instant, and of a line event or a counter
QueueInstant(track, ts, name) == <<Queued("instant", track, ts, 0, 0, name, 0)>>
QueueLine(track, ts, e) == <<Queued("line", track, ts, 0, 0, e.fn, 0)>>
QueueCounter(ts) == <<Queued("counter", Main, ts, 0, 0, "LuaMemory", 0)>>

\* perfetto_queue_slice: what has no duration is an instant.
QueueSlice(track, start, end, name, rank) ==
  IF end <= start THEN QueueInstant(track, start, name)
  ELSE <<Queued("begin", track, start, start, end, name, rank),
         Queued("end", track, end, start, end, "", rank)>>

\* The loop of lmprof_perfetto_traceevent_report at the i-th event.
PerfettoEvent(opt, es, a, i) ==
  LET e == es[i]
      op == ReportOp(e)
      ts == Shown(opt, e.time)
      counter == IF CounterDue(opt, a.counter) THEN QueueCounter(ts) ELSE <<>>
      scope == IF e.sib = 0 THEN <<>>
               ELSE QueueSlice(e.tid, ts, Shown(opt, es[e.sib].time), e.fn, ScopeRank)
      sample == IF a.samples = 0 THEN <<>>
                ELSE QueueSlice(Sampler, Shown(opt, es[a.samples].time), ts,
                                "EvaluateScript", ScopeRank)
      queue == CASE op = "begin_frame"  -> QueueInstant(e.tid, ts, "BeginFrame")
                 [] op = "end_frame"    -> QueueInstant(e.tid, ts, "ActivateLayerTree")
                                           \o QueueInstant(e.tid, ts, "DrawFrame")
                 [] op = "line_scope"   -> QueueLine(e.tid, ts, e)
                 [] op = "sample_event" -> sample
                 [] op = "enter_scope"  -> scope \o counter
                 [] op = "exit_scope"   -> counter
                 [] OTHER               -> <<>>
  IN  IF a.failed \/ op = "unknown" THEN [a EXCEPT !.failed = TRUE]
      ELSE [queue   |-> a.queue \o queue,
            samples |-> IF op = "sample_event" THEN i ELSE a.samples,
            counter |-> NextCounter(opt, op, a.counter),
            failed  |-> FALSE]

\* perfetto_queue_phase_rank
PhaseRank(q) ==
  CASE q.type = "end" -> 0
    [] q.type = "begin" -> 1
    [] q.type \in {"instant", "line"} -> 2
    [] q.type = "counter" -> 3

\* Faulty: of the ends at one time, the outermost is the first.
SortKeyOuterEnds(q) ==
  <<q.ts, PhaseRank(q),
    CASE q.type = "end" -> q.start [] q.type = "begin" -> -q.end [] OTHER -> 0,
    CASE q.type = "end" -> -q.rank [] q.type = "begin" -> q.rank [] OTHER -> 0,
    q.sequence>>

\* What perfetto_queue_compare compares, in its order: of the ends at one time
\* the innermost is the first, of the begins the outermost.
SortKey(q) ==
  <<q.ts, PhaseRank(q),
    CASE q.type = "end" -> -q.start [] q.type = "begin" -> -q.end [] OTHER -> 0,
    CASE q.type = "end" -> -q.rank [] q.type = "begin" -> q.rank [] OTHER -> 0,
    q.sequence>>

\* perfetto_queue_compare
Before(p, q) ==
  \E i \in 1 .. 5 :
    /\ SortKey(p)[i] < SortKey(q)[i]
    /\ \A j \in 1 .. i - 1 : SortKey(p)[j] = SortKey(q)[j]

\* perfetto_queue_push numbers the events.
Sorted(queue) ==
  SortSeq([i \in DOMAIN queue |->
             [type |-> queue[i].type, track |-> queue[i].track, ts |-> queue[i].ts,
              start |-> queue[i].start, end |-> queue[i].end, name |-> queue[i].name,
              rank |-> queue[i].rank, sequence |-> i]], Before)

\* perfetto_write_slice_begin, perfetto_write_slice_end, perfetto_write_instant
\* and perfetto_write_counter: an end does not tell which slice it is of.
SliceBegin(track, ts, name) == [type |-> "begin", track |-> track, ts |-> ts, name |-> name]
SliceEnd(track, ts) == [type |-> "end", track |-> track, ts |-> ts]
Instant(track, ts, name) == [type |-> "instant", track |-> track, ts |-> ts, name |-> name]
Counter(track, ts) == [type |-> "counter", track |-> track, ts |-> ts]

\* perfetto_write_queued_event: the packet written, and the slice it is meant
\* for, of which the file says nothing.
WriteQueued(q) ==
  [packet |-> CASE q.type = "begin"              -> SliceBegin(q.track, q.ts, q.name)
                [] q.type = "end"                -> SliceEnd(q.track, q.ts)
                [] q.type \in {"instant", "line"} -> Instant(q.track, q.ts, q.name)
                [] q.type = "counter"            -> Counter(q.track, q.ts),
   slice  |-> <<q.start, q.end>>]

\* lmprof_perfetto_traceevent_report, after the list is adjusted and
\* compressed.  Nothing but the tracks is written if it fails.
PerfettoReport(opt, es) ==
  LET b == Bounds(opt, es)
      first == IF b.valid THEN QueueSlice(Main, b.start, b.end, "RunTask", RunTaskRank) ELSE <<>>
      end == FoldLeftDomain(LAMBDA a, i : PerfettoEvent(opt, es, a, i),
                            [queue |-> first, samples |-> 0, counter |-> 0, failed |-> FALSE], es)
      sorted == Sorted(end.queue)
  IN  [ok |-> ~end.failed, all |-> ~end.failed,
       items |-> IF end.failed THEN <<>> ELSE [i \in DOMAIN sorted |-> WriteQueued(sorted[i])]]
=============================================================================
