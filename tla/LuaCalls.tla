------------------------------ MODULE LuaCalls ------------------------------
(***************************************************************************)
(* The call stack of a Lua thread, as Lua itself has it: what the profile  *)
(* stacks of GraphStack and TraceInstrument try to follow.                 *)
(***************************************************************************)
EXTENDS Naturals, Sequences, FiniteSetsExt

\* A call in progress.  seen: the profiler had its call event; lost: it was
\* replaced by the tail call above it.
Frame(f, seen) == [fn |-> f, seen |-> seen, lost |-> FALSE]

Top(s) == s[Len(s)]
Pop(s) == SubSeq(s, 1, Len(s) - 1)

\* The elements of s at the positions of T, in their order.  (SelectSeq takes an
\* operator, so that no fact about it can be stated for every selection.)
Selected(s, T) ==
  LET upTo[n \in 0 .. Len(s)] ==
        IF n = 0 THEN <<>>
        ELSE IF n \in T THEN Append(upTo[n - 1], s[n]) ELSE upTo[n - 1]
  IN  upTo[Len(s)]

\* The calls that the profiler had the call event of.
SeenCalls(s) == Selected(s, {i \in DOMAIN s : s[i].seen})

\* The calls after f is called, in place of the top one if it is a tail call.
Called(s, f) == Append(s, Frame(f, TRUE))
TailCalled(s, f) == Called([s EXCEPT ![Len(s)].lost = TRUE], f)

\* The calls that are left when the top one of s returns: not those that it
\* replaced, each of which has a tail return event of its own in PUC Lua.
Left(s) ==
  LET kept == {i \in 1 .. Len(s) - 1 : ~s[i].lost}
  IN  SubSeq(s, 1, IF kept = {} THEN 0 ELSE Max(kept))

\* The calls that are left when the top one of s raises an error: up to the
\* innermost function of catchers.
Unwound(s, catchers) ==
  LET handlers == {i \in DOMAIN s : s[i].fn \in catchers}
  IN  SubSeq(s, 1, IF handlers = {} THEN 0 ELSE Max(handlers))
=============================================================================
