------------------------------ MODULE Session ------------------------------
(***************************************************************************)
(* What the profiler library promises its clients, without how.            *)
(*                                                                         *)
(* A Lua process has at most one profiling session.  A session belongs to  *)
(* the profiler object that began it, measures until it is halted, and     *)
(* ends.  Only while a session exists may the library have its own         *)
(* debug.sethook, and only while it measures its own allocator and its     *)
(* own garbage-collector setting in place.                                 *)
(***************************************************************************)

CONSTANTS
  Prof,         \* profiler objects
  None          \* no profiler object

VARIABLES
  active,       \* the object whose session exists, or None
  measuring,    \* the session takes measurements
  sethookOurs,  \* debug.sethook is the library's override
  vmOurs        \* the allocator or the garbage collector is altered

svars == <<active, measuring, sethookOurs, vmOurs>>

SInit ==
  /\ active = None
  /\ measuring = FALSE
  /\ sethookOurs = FALSE
  /\ vmOurs = FALSE

\* A session begins only where there is none.
SBegin(p) ==
  /\ active = None
  /\ active' = p
  /\ measuring' = TRUE
  /\ sethookOurs' = TRUE
  /\ vmOurs' \in BOOLEAN

\* Measurements stop for good; the results are still to be reported.
SHalt ==
  /\ measuring
  /\ measuring' = FALSE
  /\ vmOurs' = FALSE
  /\ UNCHANGED <<active, sethookOurs>>

\* The session ends and leaves nothing behind.
SEnd ==
  /\ active # None
  /\ active' = None
  /\ measuring' = FALSE
  /\ sethookOurs' = FALSE
  /\ vmOurs' = FALSE

SNext == (\E p \in Prof : SBegin(p)) \/ SHalt \/ SEnd

SSpec == SInit /\ [][SNext]_svars
=============================================================================
