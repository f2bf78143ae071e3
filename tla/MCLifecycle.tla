---------------------------- MODULE MCLifecycle ----------------------------
(* Two profiler objects, the main thread and one coroutine.                *)
EXTENDS Lifecycle, TLC

\* One mode set for each branch: no hook, the hook with counted allocations
\* and with events, one thread only, one whose trace installs no
\* hook, and one that start refuses.
MCModes ==
  { {"time"}, {"instrument", "memory"}, {"instrument", "trace"},
    {"instrument", "memory", "single_thread"}, {"sample", "trace"}, {"trace"} }

\* Traces without calls: of allocations, and of samples on one thread.
MCTraceModes == { {"memory", "trace"}, {"sample", "trace", "single_thread"} }

Symmetry == Permutations(Prof)
=============================================================================
