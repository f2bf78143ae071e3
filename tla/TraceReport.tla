---------------------------- MODULE TraceReport ----------------------------
(***************************************************************************)
(* What the three trace reports share (lmprof_collections.c,               *)
(* lmprof_report_traceevent.c): the events with their overhead taken off,  *)
(* short scopes removed, and the time that the trace spans.                *)
(*                                                                         *)
(* Reports are functions of a sequence of events.  An event has an op, a   *)
(* thread tid, a time since list->baseTime, the overhead ov measured until *)
(* then, a function fn, and the positions of other events, 0 for none: sib *)
(* of the other end of its scope; lines of the last line event of a scope  *)
(* or, in a line event, of the one before it.  Times are unsigned.         *)
(***************************************************************************)
EXTENDS Integers, Sequences, SequencesExt

CONSTANTS
  Main,         \* st->thread.mainproc.tid
  Browser,      \* LMPROF_THREAD_BROWSER
  Sampler,      \* LMPROF_THREAD_SAMPLE_TIMELINE
  Root,         \* the function of a stack's first entry
  TimeModulus   \* bound: 2^w, the number of values of lu_time

ASSUME TraceReportAssumption == TimeModulus \in Nat /\ TimeModulus > 1

FrameOps == {"begin_frame", "end_frame"}
RoutineOps == {"begin_routine", "end_routine"}
ScopeOps == {"enter_scope", "exit_scope", "ignore_scope"}

\* op_adjust: what has a time.
Timed(op) == op \in FrameOps \cup RoutineOps \cup ScopeOps \cup {"line_scope", "sample_event"}

\* timeline_adjust.  A time before the base wraps around.
Adjusted(es) ==
  [i \in DOMAIN es |->
     IF Timed(es[i].op) THEN [es[i] EXCEPT !.time = (@ - es[i].ov) % TimeModulus]
     ELSE es[i]]

\* Faulty: the line events of a short scope stay.
ShortOwnEnds(es, threshold) ==
  UNION {{i, es[i].sib} : i \in {j \in DOMAIN es :
    /\ es[j].op = "enter_scope" /\ es[j].sib # 0
    /\ threshold # 0 /\ (es[es[j].sib].time - es[j].time) % TimeModulus < threshold}}

\* The events of the scopes shorter than threshold: both ends and the lines.
Short(es, threshold) ==
  LET linesTo[i \in 0 .. Len(es)] ==
        IF i = 0 THEN {} ELSE {i} \cup linesTo[es[i].lines]
      begins == {i \in DOMAIN es :
                   /\ es[i].op = "enter_scope" /\ es[i].sib # 0
                   /\ threshold # 0
                   /\ (es[es[i].sib].time - es[i].time) % TimeModulus < threshold}
  IN  UNION {{i, es[i].sib} \cup linesTo[es[i].lines] : i \in begins}

\* timeline_compress, with what the reports pass to it.
Compressed(es, threshold) ==
  LET short == Short(es, threshold)
  IN  [i \in DOMAIN es |-> IF i \in short THEN [es[i] EXCEPT !.op = "ignore_scope"] ELSE es[i]]

\* lmprof_traceevent_report_op: the scopes of a stack's root are not shown.
\* (Ignored functions have no events.)
ReportOp(e) ==
  IF e.op \in {"enter_scope", "exit_scope"} /\ e.fn = Root THEN "ignore_scope" ELSE e.op

\* LMPROF_TIME_ADJ: the time shown, in units of the report's clock.
Shown(opt, t) == t \div opt.unit

\* lmprof_traceevent_find_bounds; valid is its result.
Bounds(opt, es) ==
  LET times == {Shown(opt, es[i].time) : i \in
                 {j \in DOMAIN es : LET op == ReportOp(es[j])
                                    IN  op # "ignore_scope" /\ Timed(op)}}
      least == CHOOSE t \in times : \A u \in times : t <= u
      most == CHOOSE t \in times : \A u \in times : u <= t
  IN  IF times = {} THEN [valid |-> FALSE, start |-> 0, end |-> 0]
      ELSE [valid |-> most > least, start |-> least, end |-> most]

\* Whether there is a memory counter at the end of a scope, after counter
\* others without one, and their number after op.
CounterDue(opt, counter) == opt.mem /\ (opt.freq = 1 \/ (counter + 1) % opt.freq = 0)

NextCounter(opt, op, counter) ==
  IF ~opt.mem \/ op \notin {"enter_scope", "exit_scope"} THEN counter
  ELSE IF CounterDue(opt, counter) THEN 0 ELSE counter + 1
=============================================================================
