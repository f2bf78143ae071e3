------------------------- MODULE MCTraceInstrument -------------------------
(* A Lua function is active on the main thread when the profiler starts.   *)
EXTENDS TraceInstrument, TLC

MCBase == <<"f">>

Conf(vm, split, load, draw, yield, compress) ==
  [vm |-> vm, split |-> split, load |-> load, draw |-> draw, yield |-> yield,
   compress |-> compress]

\* Both machines and layouts with and without load_stack.
MCConfs ==
  {Conf("puc51", FALSE, FALSE, TRUE, FALSE, FALSE),
   Conf("puc51", FALSE, TRUE, FALSE, TRUE, FALSE),
   Conf("puc51", TRUE, FALSE, TRUE, TRUE, FALSE),
   Conf("luajit", FALSE, FALSE, FALSE, TRUE, FALSE),
   Conf("luajit", FALSE, TRUE, TRUE, FALSE, TRUE),
   Conf("luajit", TRUE, FALSE, FALSE, FALSE, FALSE),
   Conf("luajit", TRUE, TRUE, TRUE, FALSE, FALSE)}

MCSplit == {c \in MCConfs : c.split /\ ~c.load}

Symmetry == Permutations(Threads \ {Main})
=============================================================================
