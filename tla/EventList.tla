----------------------------- MODULE EventList -----------------------------
(***************************************************************************)
(* What the event list of a trace promises, without its pages: a sequence  *)
(* that grows at its end only, up to a capacity, so that an event, once    *)
(* added, keeps its place.                                                 *)
(***************************************************************************)
EXTENDS Naturals, Sequences

CONSTANT Capacity   \* the most events there can be, 0 for any number

VARIABLE list

EInit == list = <<>>

EGrow ==
  /\ Len(list) <= Len(list')
  /\ Capacity # 0 => Len(list') <= Capacity
  /\ \A i \in 1 .. Len(list) : list'[i] = list[i]

ESpec == EInit /\ [][EGrow]_list
=============================================================================
