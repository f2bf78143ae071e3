------------------------------ MODULE Timeline ------------------------------
(***************************************************************************)
(* The paged event list of a trace (lmprof_collections.c): a linked list   *)
(* of pages of PageSize events, the first of which is there from the       *)
(* beginning.                                                              *)
(*                                                                         *)
(* No code moves list->curr back, so that the page after it is never there *)
(* to be used again.  An event is referred to by its position.             *)
(***************************************************************************)
EXTENDS Integers, Sequences

CONSTANTS
  PageSize,     \* TRACE_EVENT_SIZE_ARRAY
  PageLimit,    \* list->pageLimit: 0 for none
  Event         \* events: records with fields tid and fn, among others

ASSUME TimelineAssumption == PageSize \in Nat \ {0} /\ PageLimit \in Nat

VARIABLE pages  \* list->head and its successors, the last of which is list->curr

\* Faulty: the pages are counted without the one that is asked for.
OnePageMore(pgs) == Len(pgs) - 2

\* list->pageCount: the header page is not counted.
PageCount(pgs) == Len(pgs) - 1

MayAllocate(pgs) == PageLimit = 0 \/ PageCount(pgs) < PageLimit

PageFull(pgs) == Len(pgs[Len(pgs)]) = PageSize

\* timeline_allocpage finds no place; outOfMemory: an allocation would fail.
Refuses(pgs, outOfMemory) == PageFull(pgs) /\ (outOfMemory \/ ~MayAllocate(pgs))

\* Faulty: an event takes the first place of its page.
PutFirst(pgs, e) ==
  IF PageFull(pgs) THEN Append(pgs, <<e>>)
  ELSE [pgs EXCEPT ![Len(pgs)] = <<e>> \o @]

\* timeline_allocpage, and the event it finds a place for.
Put(pgs, e) ==
  IF PageFull(pgs) THEN Append(pgs, <<e>>)
  ELSE [pgs EXCEPT ![Len(pgs)] = Append(@, e)]

\* The number of events, and where the i-th of them is.
Count(pgs) == (Len(pgs) - 1) * PageSize + Len(pgs[Len(pgs)])
PageOf(i) == ((i - 1) \div PageSize) + 1
SlotOf(i) == ((i - 1) % PageSize) + 1

At(pgs, i) == pgs[PageOf(i)][SlotOf(i)]

\* A write through a pointer to the i-th event.
Write(pgs, i, e) == [pgs EXCEPT ![PageOf(i)][SlotOf(i)] = e]

\* What timeline_foreach visits, in its order.
Flat(pgs) == [i \in 1 .. Count(pgs) |-> At(pgs, i)]

\* What of an event is never written again.
Key(e) == <<e.tid, e.fn>>
-----------------------------------------------------------------------------
\* timeline_new
TimelineInit == pages = << <<>> >>

AddEvent(e) ==
  /\ ~Refuses(pages, FALSE)
  /\ pages' = Put(pages, e)

ChangeEvent(i, e) ==
  /\ Key(e) = Key(At(pages, i))
  /\ pages' = Write(pages, i, e)

TimelineNext ==
  \E e \in Event : AddEvent(e) \/ \E i \in 1 .. Count(pages) : ChangeEvent(i, e)

TimelineSpec == TimelineInit /\ [][TimelineNext]_pages

\* One page more than the limit is allocated.
Capacity == IF PageLimit = 0 THEN 0 ELSE (PageLimit + 1) * PageSize

FlatList ==
  INSTANCE EventList WITH list <- [i \in 1 .. Count(pages) |-> Key(At(pages, i))]
-----------------------------------------------------------------------------
\* Every page but the last is full: pages are filled in their order, each to
\* its end, and there are no more of them than the limit and the header.
PagesFilled ==
  /\ pages # <<>>
  /\ \A p \in 1 .. Len(pages) :
       /\ Len(pages[p]) <= PageSize
       /\ p < Len(pages) => Len(pages[p]) = PageSize
  /\ PageLimit # 0 => Len(pages) <= PageLimit + 1

\* The pages are a list that grows at its end only and whose events stay where
\* they are: begin_event, sibling and lines point into it while it grows.
ActsAsList == FlatList!ESpec
=============================================================================
