---------------------------- MODULE MCGraphStack ----------------------------
(* A Lua function is active on the main thread when the profiler starts.   *)
EXTENDS GraphStack, TLC

MCBase == <<"f">>

Symmetry == Permutations(Threads \ {Main})
=============================================================================
