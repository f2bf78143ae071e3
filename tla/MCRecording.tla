---------------------------- MODULE MCRecording ----------------------------
(* Small instances of Recording. *)
EXTENDS Recording

CONSTANTS main, other, f, g

MCBaseFrames == <<f>>

Clock == [unit |-> 1, mem |-> FALSE, freq |-> 1]

All == <<"json", "perfetto", "tracy">>

\* One thread in the merged layout with no option set.
Plain ==
  [split |-> FALSE, load |-> FALSE, draw |-> FALSE, samples |-> FALSE, frames |-> FALSE,
   cal |-> 0, threads |-> {main}, outOfMemory |-> FALSE, threshold |-> 0, opt |-> Clock,
   outputs |-> {All}, diskFull |-> FALSE, limit |-> 4, elapses |-> {0, 1}]

MCConfs ==
  { Plain,
    \* switches, with frames drawn and memory counted
    [Plain EXCEPT !.threads = {main, other}, !.draw = TRUE, !.opt.mem = TRUE, !.opt.freq = 2,
                  !.limit = 3],
    [Plain EXCEPT !.threads = {main, other}, !.split = TRUE, !.load = TRUE, !.limit = 3],
    \* lines and samples, of functions that have no events too
    [Plain EXCEPT !.samples = TRUE, !.threshold = 2, !.load = TRUE, !.limit = 3],
    \* a clock that is rounded
    [Plain EXCEPT !.opt.unit = 2, !.load = TRUE, !.limit = 3],
    \* a client that marks frames, memory that runs out, and a disk that is full
    [Plain EXCEPT !.frames = TRUE, !.outOfMemory = TRUE, !.diskFull = TRUE, !.limit = 2,
                  !.outputs = {<<>>, All, <<"json", NotString, "json">>, <<"perfetto", "perfetto">>}],
    \* a calibration that takes off more than a hook took
    [Plain EXCEPT !.cal = 1, !.load = TRUE, !.elapses = {0, 2},
                  !.outputs = {All, <<"json", "json">>}] }
=============================================================================
