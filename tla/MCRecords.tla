----------------------------- MODULE MCRecords -----------------------------
(* Small instances of Records. *)
EXTENDS Records, TLC

CONSTANTS main, other, f, g, c, start

\* f and g are hashed to one identifier; c is a C function.
MCIdentifier == (f :> 11) @@ (g :> 11) @@ (c :> 12) @@ (start :> 13)
MCLinesOf == (f :> {1, 2}) @@ (g :> {3}) @@ (c :> {}) @@ (start :> {})

MCBaseFrames == <<f>>

\* Keys with these identifiers, or the numbers of records.
MCKey == [fn : 0 .. 13, parent : 0 .. 15, line : 0 .. 3]
MCBucketOf(k) == (k.fn + k.parent + k.line) % 2

\* One thread, whose calls are instrumented in one session.
Plain ==
  [compress |-> FALSE, byLine |-> FALSE, load |-> FALSE, lines |-> FALSE, samples |-> FALSE,
   kept |-> FALSE, noMemory |-> FALSE, threads |-> {main}, sessions |-> 1, limit |-> 5]

MCConfs ==
  { \* the next session of a kept object, and of another object
    [Plain EXCEPT !.kept = TRUE, !.sessions = 2, !.noMemory = TRUE, !.limit = 3],
    [Plain EXCEPT !.compress = TRUE, !.sessions = 2, !.limit = 3],
    \* two threads
    [Plain EXCEPT !.threads = {main, other}],
    [Plain EXCEPT !.threads = {main, other}, !.compress = TRUE],
    \* calls by line, of a stack that was loaded
    [Plain EXCEPT !.load = TRUE, !.lines = TRUE],
    [Plain EXCEPT !.load = TRUE, !.lines = TRUE, !.compress = TRUE],
    \* samples
    [Plain EXCEPT !.samples = TRUE, !.byLine = TRUE, !.kept = TRUE, !.sessions = 2],
    [Plain EXCEPT !.samples = TRUE, !.compress = TRUE, !.limit = 6] }

\* An object that loads stacks in its second session.
MCReload ==
  {[Plain EXCEPT !.compress = compress, !.load = TRUE, !.kept = TRUE, !.sessions = 2, !.limit = 1] :
     compress \in BOOLEAN}
=============================================================================
