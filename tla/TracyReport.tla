---------------------------- MODULE TracyReport ----------------------------
(***************************************************************************)
(* The Tracy report (lmprof_report_tracy.c): zones, frame times and plot   *)
(* points, the zones of a thread arranged in a forest and written with     *)
(* times relative to the one written before.                               *)
(*                                                                         *)
(* A time is relative to the first of the trace; one before it counts as   *)
(* that, and one too far after it is left out.  Memory suffices, and there *)
(* are fewer source locations than the format allows.                      *)
(***************************************************************************)
EXTENDS TraceReport, FiniteSetsExt, TLC

Late == -1

\* tracy_event_time_ns and tracy_rebase_time_ns, of which half the range is
\* too late.
Rebased(opt, b, time) ==
  LET delta == IF Shown(opt, time) > b.start THEN Shown(opt, time) - b.start ELSE 0
  IN  IF delta > TimeModulus \div 2 - 1 THEN Late ELSE delta

\* tracy_zone_interval_valid
Interval(start, end) == start >= 0 /\ end > start

\* tracy_export_add_scope and tracy_export_add_zone, which counts it for its
\* source and for its thread.
AddScope(zones, tid, name, start, end) ==
  IF ~Interval(start, end) THEN zones
  ELSE Append(zones, [tid |-> tid, name |-> name, start |-> start, end |-> end])

\* The loop of lmprof_tracy_traceevent_report at the i-th event.  A routine
\* whose time is left out forgets the one begun.
TracyEvent(opt, b, es, a, i) ==
  LET e == es[i]
      op == ReportOp(e)
      time == IF Timed(op) THEN Rebased(opt, b, e.time) ELSE 0
      begun == es[a.routine]
      endOf(j) == Rebased(opt, b, es[j].time)
      counts == op \in {"enter_scope", "exit_scope"} /\ CounterDue(opt, a.counter)
  IN  IF a.failed \/ op = "unknown" THEN [a EXCEPT !.failed = TRUE]
      ELSE IF time = Late THEN [a EXCEPT !.routine = IF op \in RoutineOps THEN 0 ELSE @]
      ELSE [zones   |-> CASE op = "end_routine" /\ a.routine # 0 ->
                               AddScope(a.zones, Main, "routine", Rebased(opt, b, begun.time), time)
                          [] op = "enter_scope" /\ e.sib # 0 /\ endOf(e.sib) # Late ->
                               AddScope(a.zones, e.tid, e.fn, time, endOf(e.sib))
                          [] OTHER -> a.zones,
            frames  |-> IF op \in FrameOps THEN Append(a.frames, <<op, time>>) ELSE a.frames,
            points  |-> IF counts THEN Append(a.points, time) ELSE a.points,
            routine |-> CASE op = "begin_routine" -> i [] op = "end_routine" -> 0
                          [] OTHER -> a.routine,
            counter |-> NextCounter(opt, op, a.counter),
            failed  |-> FALSE]

\* What tracy_zone_compare compares: a zone comes before those inside it.
ZoneKey(zones, z) == <<zones[z].start, -zones[z].end, z>>

ZoneBefore(zones, y, z) ==
  LET a == ZoneKey(zones, y)
      b == ZoneKey(zones, z)
  IN  \E i \in 1 .. 3 : a[i] < b[i] /\ \A j \in 1 .. i - 1 : a[j] = b[j]

\* Faulty: a zone that outlasts the zone it begins in becomes its child.
OutlastsNever(zones, z, open) == FALSE

\* tracy_build_thread_trees: the zone would end after the one it begins in.
Outlasts(zones, z, open) == open # <<>> /\ zones[z].end > zones[open[Len(open)]].end

\* The zones still open when z begins.
OpenAt(zones, z, open) ==
  LET last == {k \in DOMAIN open : zones[open[k]].end > zones[z].start}
  IN  SubSeq(open, 1, IF last = {} THEN 0 ELSE Max(last))

\* Faulty: a dropped zone is still counted for its thread.
DroppedUncounted(t) == t

\* tracy_export_drop_zone
Dropped(t) == [t EXCEPT !.count = @ - 1]

\* tracy_build_thread_trees, for the zones of a thread: t.trees gives each
\* zone that is kept the one it is inside, 0 for a root; t.count is
\* thread->zone_count, and t.vectors what it adds to child_vector_count.
PlaceZone(zones, t, z) ==
  LET open == OpenAt(zones, z, t.open)
      parent == IF open = <<>> THEN 0 ELSE open[Len(open)]
      inside == {y \in DOMAIN t.trees : t.trees[y] = parent}
  IN  IF Outlasts(zones, z, open) THEN [Dropped(t) EXCEPT !.open = open]
      ELSE [open    |-> Append(open, z),
            order   |-> Append(t.order, z),
            trees   |-> t.trees @@ (z :> parent),
            count   |-> t.count,
            vectors |-> IF parent # 0 /\ inside = {} THEN t.vectors + 1 ELSE t.vectors]

ThreadTrees(zones, tid) ==
  LET own == {z \in DOMAIN zones : zones[z].tid = tid}
  IN  FoldLeft(LAMBDA t, z : PlaceZone(zones, t, z),
               [open |-> <<>>, order |-> <<>>, trees |-> <<>>,
                count |-> Cardinality(own), vectors |-> 0],
               SetToSortSeq(own, LAMBDA y, z : ZoneBefore(zones, y, z)))

\* tracy_write_zone_list: the times of the zones with parent in the forest t,
\* each with those inside it between its start and its end.  A reader adds up
\* the offsets and has these.
ZoneTimes(zones, t, parent) ==
  LET inside(p) == SelectSeq(t.order, LAMBDA z : t.trees[z] = p)
      times[z \in DOMAIN zones] ==
        <<zones[z].start>> \o FlattenSeq([k \in DOMAIN inside(z) |-> times[inside(z)[k]]])
        \o <<zones[z].end>>
  IN  FlattenSeq([k \in DOMAIN inside(parent) |-> times[inside(parent)[k]]])

\* tracy_write_capture: the frames it invents if there are none; the number of
\* zones with others inside; and for each thread the number of its zones, its
\* forest, and its times.
Capture(zones, frames, points) ==
  LET tids == {Browser, Main} \cup {zones[z].tid : z \in DOMAIN zones}
      tree == [tid \in tids |-> ThreadTrees(zones, tid)]
      kept == UNION {DOMAIN tree[tid].trees : tid \in tids}
  IN  [zones     |-> zones,
       kept      |-> kept,
       vectors   |-> MapThenSumSet(LAMBDA tid : tree[tid].vectors, tids),
       counts    |-> [tid \in tids |-> tree[tid].count],
       trees     |-> [tid \in tids |-> tree[tid].trees],
       times     |-> [tid \in tids |-> ZoneTimes(zones, tree[tid], 0)],
       frames    |-> IF frames = <<>> THEN << <<"frame", 0>>, <<"frame", 0>> >> ELSE frames,
       points    |-> points]

\* lmprof_tracy_traceevent_report, after the list is adjusted and compressed.
TracyReport(opt, es) ==
  LET b == Bounds(opt, es)
      from == [b EXCEPT !.start = IF b.valid THEN @ ELSE 0]
      first == IF b.valid /\ b.end - b.start <= TimeModulus \div 2 - 1
               THEN AddScope(<<>>, Main, "RunTask", 0, b.end - b.start) ELSE <<>>
      end == FoldLeftDomain(LAMBDA a, i : TracyEvent(opt, from, es, a, i),
                            [zones |-> first, frames |-> <<>>, points |-> <<>>, routine |-> 0,
                             counter |-> 0, failed |-> FALSE], es)
  IN  [ok |-> ~end.failed, all |-> ~end.failed,
       items |-> IF end.failed THEN <<>> ELSE <<Capture(end.zones, end.frames, end.points)>>]
=============================================================================
