--------------------------- MODULE RecordingProofs ---------------------------
(***************************************************************************)
(* Proofs about Recording: the two ends of a scope refer to each other in  *)
(* whatever order hooks fire on threads, in both layouts and whatever      *)
(* events are refused; reports leave out the scopes and lines that are     *)
(* short, and no others; and outputs of one format are alike, for any      *)
(* pages, threads, functions, calibrations, thresholds and outputs.        *)
(***************************************************************************)
EXTENDS Recording, TimelineProofs, FiniteSetTheorems, WellFoundedInduction, NaturalsInduction

Fns == Funcs \cup {Root}
Tids == Threads \cup {Browser, NoThread}
Ops == {"begin_frame", "end_frame", "begin_routine", "end_routine", "enter_scope",
        "exit_scope", "ignore_scope", "line_scope", "sample_event", "unknown"}

EventSet == [op : Ops, tid : Tids, time : Int, ov : Nat, fn : Fns, sib : Nat, lines : Nat]
EntrySet == [fn : Fns, begin : Nat]
Stacks == [Threads -> Seq(EntrySet)]
Units == [time : Int, ov : Nat]

\* Who an event refers to refers to it, and they are of one function and track.
Linked(es) ==
  \A i \in 1 .. Len(es) :
    /\ es[i].sib \in 0 .. Len(es) /\ es[i].lines \in 0 .. Len(es)
    /\ es[i].sib # 0 => /\ es[es[i].sib].sib = i
                        /\ es[i].fn = es[es[i].sib].fn /\ es[i].tid = es[es[i].sib].tid

\* Stacks begin with their root.
Rooted(stk) ==
  \A t \in Threads : \A k \in 1 .. Len(stk[t]) :
    IF k = 1 THEN stk[t][k].fn = Root ELSE stk[t][k].fn \in Funcs

\* What an entry has as its begin event is one of its function and track, and
\* ignored functions have none.
Refers(es, stk) ==
  \A t \in Threads : \A k \in 1 .. Len(stk[t]) :
    LET b == stk[t][k].begin
    IN  /\ b \in 0 .. Len(es)
        /\ b # 0 => /\ es[b].fn = stk[t][k].fn /\ es[b].tid = Tid(t)
                    /\ stk[t][k].fn \notin Ignored

Sound(es, stk) ==
  /\ es \in Seq(EventSet) /\ Linked(es)
  /\ stk \in Stacks /\ Rooted(stk) /\ Refers(es, stk)

\* An event that begins a scope that has no end.
Begun(e) == e.op = "enter_scope" /\ e.tid # NoThread /\ e.sib = 0

\* The lowest d[t] entries of each thread t are those whose scopes are open.
\* They have no end, and no two of them have one begin event.
Live(es, stk, d) ==
  \A t \in Threads : \A k \in 1 .. d[t] :
    stk[t][k].begin # 0 =>
      /\ es[stk[t][k].begin].sib = 0
      /\ \A u \in Threads : \A m \in 1 .. d[u] :
           stk[u][m].begin = stk[t][k].begin => u = t /\ m = k

\* And there are no others.
Covered(es, stk, d) ==
  \A i \in 1 .. Len(es) : Begun(es[i]) =>
    \E t \in Threads : \E k \in 1 .. d[t] : stk[t][k].begin = i

Depths(stk, d) == d \in [Threads -> Nat] /\ \A t \in Threads : d[t] <= Len(stk[t])

\* Open scopes of one track are those of one thread, in the order of its calls.
Ordered(stk, d) ==
  \A t, u \in Threads : Tid(t) = Tid(u) =>
    \A k \in 1 .. d[t], m \in 1 .. d[u] :
      stk[t][k].begin # 0 /\ stk[u][m].begin # 0 =>
        t = u /\ (k < m => stk[t][k].begin < stk[u][m].begin)

Placed(es, stk, d) ==
  Depths(stk, d) /\ Live(es, stk, d) /\ Covered(es, stk, d) /\ Ordered(stk, d)

\* The c-th event began a scope on the track of the i-th, which had not ended.
StillOpen(es, c, i) ==
  /\ c \in 1 .. i - 1 /\ es[c].op = "enter_scope" /\ es[c].tid = es[i].tid
  /\ es[c].sib = 0 \/ es[c].sib > i

LineOf(es, own, b, j) == es[j].op = "line_scope" /\ own[j] = b

\* Scopes begin before they end, and nothing else refers to a later event.
Forward(es) ==
  \A i \in 1 .. Len(es) :
    /\ es[i].op # "ignore_scope"
    /\ es[i].sib > i => es[i].op = "enter_scope"
    /\ es[i].op = "enter_scope" /\ es[i].sib # 0 => es[i].sib > i

\* A begin event has the last of the lines that it owns.
LastLines(es, own) ==
  \A b \in 1 .. Len(es) : es[b].op = "enter_scope" =>
    /\ es[b].lines # 0 => es[b].lines \in 1 .. Len(es) /\ LineOf(es, own, b, es[b].lines)
    /\ \A j \in 1 .. Len(es) : LineOf(es, own, b, j) => j <= es[b].lines

\* A line has the one before it, and its owner is the last scope that was open;
\* if one of those has ended the owner has.
EachLine(es, own) ==
  \A i \in 1 .. Len(es) : es[i].op = "line_scope" =>
    /\ es[i].sib = 0 /\ StillOpen(es, own[i], i) /\ es[i].tid # NoThread
    /\ es[i].lines # 0 => es[i].lines \in 1 .. i - 1 /\ LineOf(es, own, own[i], es[i].lines)
    /\ \A j \in 1 .. i - 1 : LineOf(es, own, own[i], j) => j <= es[i].lines
    /\ \A c \in 1 .. i - 1 : StillOpen(es, c, i) =>
         c <= own[i] /\ (es[c].sib # 0 => es[own[i]].sib # 0)

Owns(es, own) == Forward(es) /\ LastLines(es, own) /\ EachLine(es, own)

Owned(es) == \E own \in [Nat -> Nat] : Owns(es, own)

\* What the event after the n-th changes of those before it: it may end a scope
\* on whose track no later one is open.
EndsAt(es, g, n) ==
  \A i \in 1 .. n :
    /\ g[i].op = es[i].op /\ g[i].tid = es[i].tid /\ g[i].lines = es[i].lines
    /\ \/ g[i].sib = es[i].sib
       \/ /\ es[i].op = "enter_scope" /\ es[i].sib = 0 /\ g[i].sib = n + 1
          /\ \A o \in i + 1 .. n :
               es[o].op = "enter_scope" /\ es[o].tid = es[i].tid /\ es[o].tid # NoThread
               => g[o].sib # 0

\* The event after the n-th is a line in the scope that the b-th began, and has
\* changed nothing but its lines.
LinesAt(es, g, b, n) ==
  /\ \A i \in 1 .. n : /\ g[i].op = es[i].op /\ g[i].tid = es[i].tid /\ g[i].sib = es[i].sib
                       /\ g[i].lines = IF i = b THEN n + 1 ELSE es[i].lines
  /\ g[n + 1].op = "line_scope" /\ g[n + 1].sib = 0 /\ g[n + 1].lines = es[b].lines
  /\ g[n + 1].tid = es[b].tid

\* The b-th of n events began the last scope that is open on its track.
Innermost(es, b, n) ==
  /\ es[b].op = "enter_scope" /\ es[b].sib = 0 /\ es[b].tid # NoThread
  /\ \A c \in 1 .. n : es[c].op = "enter_scope" /\ es[c].tid = es[b].tid /\ es[c].sib = 0
                       => c <= b

\* The scopes of entries are begin events, before reports make some ignored.
Opens(es, stk, d) ==
  \A t \in Threads : \A k \in 1 .. d[t] :
    stk[t][k].begin # 0 => es[stk[t][k].begin].op = "enter_scope"

\* No other thread's scopes are open on t's track.
Alone(t, d) == \A u \in Threads : u # t /\ Tid(u) = Tid(t) => d[u] = 0

Tracks(es, stk, d) == Placed(es, stk, d) /\ (altered \/ (Owned(es) /\ Opens(es, stk, d)))

\* An event that is neither a line nor the begin of a scope, and has no sibling.
Aside(e) ==
  /\ e.op \notin {"line_scope", "ignore_scope"} /\ ~Begun(e)
  /\ e.sib = 0 /\ e.lines = 0

\* What a hook has changed so far is sound, and as long as it has not failed
\* the scopes open are those of the lowest d[t] entries.
Good(r, d) ==
  /\ r = [pages |-> r.pages, stack |-> r.stack, err |-> r.err] /\ r.err \in BOOLEAN
  /\ FilledWith(EventSet, r.pages)
  /\ Sound(Flat(r.pages), r.stack)
  /\ ~r.err => Tracks(Flat(r.pages), r.stack, d)

\* Events keep their places, threads and functions; stacks their lengths.
Extends(es, ext) ==
  Len(es) <= Len(ext) /\ \A i \in 1 .. Len(es) : Key(ext[i]) = Key(es[i])

Lengths(stk, new) == \A t \in Threads : Len(new[t]) = Len(stk[t])

\* The entries whose scopes are open while c is the running thread: all in
\* the split layout, and otherwise those of c.
OpenDepth(c, stk) == [t \in Threads |-> IF conf.split \/ t = c THEN Len(stk[t]) ELSE 0]
-----------------------------------------------------------------------------
(* Events and stacks *)

\* The kinds of the constants.
LEMMA Constants ==
  /\ Main \in Threads /\ Browser \notin Threads /\ NoThread \notin Threads
  /\ Ignored \subseteq Funcs /\ Root \notin Funcs /\ Root \notin Ignored
  /\ TimeModulus \in Nat /\ TimeModulus > 1
BY RecordingAssumption, TraceReportAssumption

\* The track of a thread's calls.
LEMMA TidType == \A t \in Threads : Tid(t) \in Threads /\ Tid(t) \in Tids /\ Tid(t) # NoThread
BY Constants DEF Tid, Tids

\* The n-th of the indices to n + 1 is followed by one.
LEMMA IndexOn == ASSUME NEW n \in Nat PROVE \A i \in 1 .. n + 1 : i \in 1 .. n \/ i = n + 1
OBVIOUS

LEMMA IndexAfter ==
  \A n \in Nat : \A x \in 1 .. n : \A y \in x + 1 .. n : y \in 1 .. n /\ y # x /\ y # 0 /\ x < y
OBVIOUS

LEMMA IndexWithin == \A m \in Nat, n \in Nat : m <= n => \A k \in 1 .. m : k \in 1 .. n
OBVIOUS

LEMMA IndexNonzero == \A n \in Nat : \A x \in 0 .. n : x # 0 => x \in 1 .. n
OBVIOUS

LEMMA IndexNat == \A n \in Nat : \A x \in 1 .. n : x \in Nat \ {0}
OBVIOUS

\* The highest entry of a thread has the last scope that is open on its track.
LEMMA HighestLast ==
  ASSUME NEW stk, NEW d, Depths(stk, d), Ordered(stk, d), NEW t \in Threads, NEW u \in Threads,
         NEW k \in 1 .. d[u], d[t] # 0, Tid(u) = Tid(t),
         stk[t][d[t]].begin \in Nat \ {0}, stk[u][k].begin \in Nat \ {0}
  PROVE  stk[u][k].begin <= stk[t][d[t]].begin
<1> DEFINE i == d[t]
<1>1. i \in Nat /\ i # 0
  BY DEF Depths
<1>2. i \in 1 .. i
  BY <1>1
<1>3. u = t /\ (k < i => stk[u][k].begin < stk[t][i].begin)
  BY <1>2 DEF Ordered
<1>4. k \in 1 .. i
  BY <1>3
<1> HIDE DEF i
<1>5. k < i \/ k = i
  BY <1>1, <1>4
<1>6. \A x \in Nat, y \in Nat : x = y \/ x < y => x <= y
  OBVIOUS
<1> QED
  BY <1>3, <1>5, <1>6 DEF i

\* What such an event changes leaves owners as they are.
LEMMA OwnsOn ==
  ASSUME NEW es, NEW own, Owns(es, own), Linked(es), NEW g, NEW n \in Nat,
         Len(es) = n, Len(g) = n + 1, EndsAt(es, g, n),
         NEW e, e = g[n + 1], e.op \notin {"line_scope", "ignore_scope"},
         e.sib \in 0 .. n, e.op = "enter_scope" => e.sib = 0 /\ e.lines = 0
  PROVE  Owns(g, own)
<1>1. \A i \in 1 .. n : es[i].sib \in 0 .. n /\ es[i].lines \in 0 .. n
  BY DEF Linked
<1>2. \A i \in 1 .. n : /\ g[i].sib # 0 <=> es[i].sib # 0 \/ g[i].sib = n + 1
                        /\ es[i].sib # 0 => g[i].sib = es[i].sib
                        /\ g[i].sib = es[i].sib \/ (g[i].sib = n + 1 /\ es[i].op = "enter_scope")
                        /\ g[i].op = es[i].op /\ g[i].tid = es[i].tid /\ g[i].lines = es[i].lines
  BY <1>1 DEF EndsAt
<1>3. \A i \in 1 .. n + 1 : i \in 1 .. n \/ i = n + 1
  BY IndexOn
<1>4. \A i \in 1 .. n, c \in 1 .. n : StillOpen(g, c, i) <=> StillOpen(es, c, i)
  <2> TAKE i \in 1 .. n, c \in 1 .. n
  <2>1. g[c].sib = 0 \/ g[c].sib > i <=> es[c].sib = 0 \/ es[c].sib > i
    <3>1. n + 1 > i
      OBVIOUS
    <3> QED
      BY <1>2, <3>1
  <2> QED
    BY <1>2, <2>1 DEF StillOpen
<1>5. \A b, j \in 1 .. n : LineOf(g, own, b, j) <=> LineOf(es, own, b, j)
  BY <1>2 DEF LineOf
<1>6. Forward(g)
  <2> SUFFICES ASSUME NEW i \in 1 .. n + 1
               PROVE  /\ g[i].op # "ignore_scope"
                      /\ g[i].sib > i => g[i].op = "enter_scope"
                      /\ g[i].op = "enter_scope" /\ g[i].sib # 0 => g[i].sib > i
    BY DEF Forward
  <2>1. CASE i = n + 1
    <3>1. ~(e.sib > n + 1)
      OBVIOUS
    <3> QED
      BY <2>1, <3>1
  <2>2. CASE i \in 1 .. n
    <3>1. /\ es[i].op # "ignore_scope"
          /\ es[i].sib > i => es[i].op = "enter_scope"
          /\ es[i].op = "enter_scope" /\ es[i].sib # 0 => es[i].sib > i
      BY <2>2 DEF Owns, Forward
    <3>2. n + 1 > i
      BY <2>2
    <3>3. g[i].op = es[i].op
          /\ (g[i].sib = es[i].sib \/ (g[i].sib = n + 1 /\ es[i].op = "enter_scope"))
      BY <1>2, <2>2
    <3>4. CASE g[i].sib = es[i].sib
      BY <3>1, <3>3, <3>4
    <3>5. CASE g[i].sib = n + 1 /\ es[i].op = "enter_scope"
      BY <3>2, <3>3, <3>5
    <3> QED
      BY <3>3, <3>4, <3>5
  <2> QED
    BY <1>3, <2>1, <2>2
<1>7. LastLines(g, own)
  <2> SUFFICES ASSUME NEW b \in 1 .. n + 1, g[b].op = "enter_scope"
               PROVE  /\ g[b].lines # 0 => g[b].lines \in 1 .. n + 1 /\ LineOf(g, own, b, g[b].lines)
                      /\ \A j \in 1 .. n + 1 : LineOf(g, own, b, j) => j <= g[b].lines
    BY DEF LastLines
  <2>1. ASSUME NEW j \in 1 .. n + 1, LineOf(g, own, b, j)
        PROVE  j \in 1 .. n /\ b \in 1 .. n /\ LineOf(es, own, b, j)
    <3>1. j \in 1 .. n
      BY <1>3, <2>1 DEF LineOf
    <3>2. es[j].op = "line_scope" /\ own[j] = b
      BY <1>2, <2>1, <3>1 DEF LineOf
    <3>3. b \in 1 .. j - 1
      BY <3>1, <3>2 DEF Owns, EachLine, StillOpen
    <3> QED
      BY <3>1, <3>2, <3>3 DEF LineOf
  <2>2. CASE b = n + 1
    <3>1. g[b].lines = 0 /\ ~(n + 1 \in 1 .. n)
      BY <2>2
    <3> QED
      BY <2>1, <2>2, <3>1
  <2>3. CASE b \in 1 .. n
    <3>1. /\ es[b].lines # 0 => es[b].lines \in 1 .. n /\ LineOf(es, own, b, es[b].lines)
          /\ \A j \in 1 .. n : LineOf(es, own, b, j) => j <= es[b].lines
      BY <1>2, <2>3 DEF Owns, LastLines
    <3>2. g[b].lines = es[b].lines
      BY <1>2, <2>3
    <3>3. \A j \in 1 .. n + 1 : LineOf(g, own, b, j) => j <= g[b].lines
      BY <2>1, <3>1, <3>2
    <3>4. es[b].lines \in 1 .. n => es[b].lines \in 1 .. n + 1
      OBVIOUS
    <3>5. g[b].lines # 0 => g[b].lines \in 1 .. n + 1 /\ LineOf(g, own, b, g[b].lines)
      BY <1>5, <2>3, <3>1, <3>2, <3>4
    <3> QED
      BY <3>3, <3>5
  <2> QED
    BY <1>3, <2>2, <2>3
<1>8. EachLine(g, own)
  <2> SUFFICES ASSUME NEW i \in 1 .. n + 1, g[i].op = "line_scope"
               PROVE  /\ g[i].sib = 0 /\ StillOpen(g, own[i], i) /\ g[i].tid # NoThread
                      /\ g[i].lines # 0 =>
                           g[i].lines \in 1 .. i - 1 /\ LineOf(g, own, own[i], g[i].lines)
                      /\ \A j \in 1 .. i - 1 : LineOf(g, own, own[i], j) => j <= g[i].lines
                      /\ \A c \in 1 .. i - 1 : StillOpen(g, c, i) =>
                           c <= own[i] /\ (g[c].sib # 0 => g[own[i]].sib # 0)
    BY DEF EachLine
  <2> DEFINE b == own[i]
  <2>1. i \in 1 .. n /\ es[i].op = "line_scope"
    BY <1>2, <1>3
  <2>2. /\ es[i].sib = 0 /\ StillOpen(es, b, i) /\ es[i].tid # NoThread
        /\ es[i].lines # 0 => es[i].lines \in 1 .. i - 1 /\ LineOf(es, own, b, es[i].lines)
        /\ \A j \in 1 .. i - 1 : LineOf(es, own, b, j) => j <= es[i].lines
        /\ \A c \in 1 .. i - 1 : StillOpen(es, c, i) => c <= b /\ (es[c].sib # 0 => es[b].sib # 0)
    BY <2>1 DEF Owns, EachLine
  <2>3. b \in 1 .. i - 1 /\ b \in 1 .. n /\ es[b].tid = es[i].tid /\ es[b].op = "enter_scope"
    BY <2>1, <2>2 DEF StillOpen
  <2> HIDE DEF b
  <2>4. \A j \in 1 .. i - 1 : j \in 1 .. n
    BY <2>1
  <2>5. g[i].sib = 0 /\ g[i].tid # NoThread /\ g[i].lines = es[i].lines
    BY <1>2, <2>1, <2>2
  <2>6. StillOpen(g, b, i)
    BY <1>4, <2>1, <2>2, <2>3
  <2>7. g[i].lines # 0 => g[i].lines \in 1 .. i - 1 /\ LineOf(g, own, b, g[i].lines)
    BY <1>5, <2>2, <2>3, <2>4, <2>5
  <2>8. \A j \in 1 .. i - 1 : LineOf(g, own, b, j) => j <= g[i].lines
    BY <1>5, <2>2, <2>3, <2>4, <2>5
  <2>9. ASSUME NEW c \in 1 .. i - 1, StillOpen(g, c, i)
        PROVE  c <= b /\ (g[c].sib # 0 => g[b].sib # 0)
    <3>1. c \in 1 .. n /\ StillOpen(es, c, i)
      BY <1>4, <2>1, <2>4, <2>9
    <3>2. c <= b /\ (es[c].sib # 0 => es[b].sib # 0)
      BY <2>2, <3>1
    <3>3. ASSUME es[c].sib = 0, g[c].sib # 0, c # b PROVE g[b].sib # 0
      <4>1. b \in c + 1 .. n
        BY <2>3, <3>1, <3>2, <3>3
      <4>2. es[c].tid = es[i].tid
        BY <3>1 DEF StillOpen
      <4>3. \A o \in c + 1 .. n : es[o].op = "enter_scope" /\ es[o].tid = es[c].tid
                                  /\ es[o].tid # NoThread => g[o].sib # 0
        BY <3>1, <3>3 DEF EndsAt
      <4> QED
        BY <2>2, <2>3, <4>1, <4>2, <4>3
    <3> QED
      BY <1>2, <2>3, <3>1, <3>2, <3>3
  <2> QED
    BY <2>1, <2>5, <2>6, <2>7, <2>8, <2>9 DEF b
<1> QED
  BY <1>6, <1>7, <1>8 DEF Owns

\* A line is owned by the innermost scope of its track.
LEMMA LineOwns ==
  ASSUME NEW es, NEW own \in [Nat -> Nat], Owns(es, own), Linked(es), NEW g, NEW n \in Nat,
         Len(es) = n, Len(g) = n + 1, NEW b \in 1 .. n, Innermost(es, b, n), LinesAt(es, g, b, n)
  PROVE  Owns(g, [own EXCEPT ![n + 1] = b])
<1> DEFINE new == [own EXCEPT ![n + 1] = b]
<1>1. \A i \in 1 .. n : es[i].sib \in 0 .. n /\ es[i].lines \in 0 .. n
  BY DEF Linked
<1>2. new[n + 1] = b /\ \A i \in 1 .. n : new[i] = own[i]
  OBVIOUS
<1> HIDE DEF new
<1>3. \A i \in 1 .. n + 1 : i \in 1 .. n \/ i = n + 1
  BY IndexOn
<1>4. \A i \in 1 .. n, c \in 1 .. n : StillOpen(g, c, i) <=> StillOpen(es, c, i)
  BY DEF StillOpen, LinesAt
<1>5. \A a, j \in 1 .. n : LineOf(g, new, a, j) <=> LineOf(es, own, a, j)
  BY <1>2 DEF LineOf, LinesAt
<1>6. \A a : LineOf(g, new, a, n + 1) <=> a = b
  BY <1>2 DEF LineOf, LinesAt
<1>7. Forward(g)
  <2>1. \A i \in 1 .. n : /\ es[i].op # "ignore_scope"
                          /\ es[i].sib > i => es[i].op = "enter_scope"
                          /\ es[i].op = "enter_scope" /\ es[i].sib # 0 => es[i].sib > i
    BY DEF Owns, Forward
  <2>2. ~(0 > n + 1)
    OBVIOUS
  <2>3. \A i \in 1 .. n : g[i].op = es[i].op /\ g[i].sib = es[i].sib
    BY DEF LinesAt
  <2>4. g[n + 1].op = "line_scope" /\ g[n + 1].sib = 0
    BY DEF LinesAt
  <2>5. \A i \in 1 .. n + 1 : /\ g[i].op # "ignore_scope"
                              /\ g[i].sib > i => g[i].op = "enter_scope"
                              /\ g[i].op = "enter_scope" /\ g[i].sib # 0 => g[i].sib > i
    <3> TAKE i \in 1 .. n + 1
    <3>1. CASE i \in 1 .. n
      BY <2>1, <2>3, <3>1
    <3>2. CASE i = n + 1
      BY <2>2, <2>4, <3>2
    <3> QED
      BY <1>3, <3>1, <3>2
  <2> QED
    BY <2>5 DEF Forward
<1>8. /\ \A j \in 1 .. n : LineOf(es, own, b, j) => j <= es[b].lines
      /\ es[b].lines # 0 => es[b].lines \in 1 .. n /\ LineOf(es, own, b, es[b].lines)
  BY DEF Owns, LastLines, Innermost
<1>9. \A x : x \in 1 .. n => x \in 1 .. n + 1
  OBVIOUS
<1>10. LastLines(g, new)
  <2> SUFFICES ASSUME NEW a \in 1 .. n + 1, g[a].op = "enter_scope"
               PROVE  /\ g[a].lines # 0 => g[a].lines \in 1 .. n + 1 /\ LineOf(g, new, a, g[a].lines)
                      /\ \A j \in 1 .. n + 1 : LineOf(g, new, a, j) => j <= g[a].lines
    BY DEF LastLines
  <2>1. a \in 1 .. n
    BY <1>3 DEF LinesAt
  <2>2. CASE a = b
    <3>1. g[a].lines = n + 1
      BY <2>1, <2>2 DEF LinesAt
    <3>2. n + 1 \in 1 .. n + 1 /\ \A j \in 1 .. n + 1 : j <= n + 1
      OBVIOUS
    <3> QED
      BY <1>6, <2>2, <3>1, <3>2
  <2>3. CASE a # b
    <3>1. g[a].lines = es[a].lines /\ es[a].op = "enter_scope"
      BY <2>1, <2>3 DEF LinesAt
    <3>2. /\ es[a].lines # 0 => es[a].lines \in 1 .. n /\ LineOf(es, own, a, es[a].lines)
          /\ \A j \in 1 .. n : LineOf(es, own, a, j) => j <= es[a].lines
      BY <2>1, <3>1 DEF Owns, LastLines
    <3>3. \A j \in 1 .. n + 1 : LineOf(g, new, a, j) => j <= g[a].lines
      BY <1>3, <1>5, <1>6, <2>1, <2>3, <3>1, <3>2
    <3>4. g[a].lines # 0 => g[a].lines \in 1 .. n + 1 /\ LineOf(g, new, a, g[a].lines)
      BY <1>5, <1>9, <2>1, <3>1, <3>2
    <3> QED
      BY <3>3, <3>4
  <2> QED
    BY <2>2, <2>3
<1>11. EachLine(g, new)
  <2> SUFFICES ASSUME NEW i \in 1 .. n + 1, g[i].op = "line_scope"
               PROVE  /\ g[i].sib = 0 /\ StillOpen(g, new[i], i) /\ g[i].tid # NoThread
                      /\ g[i].lines # 0 =>
                           g[i].lines \in 1 .. i - 1 /\ LineOf(g, new, new[i], g[i].lines)
                      /\ \A j \in 1 .. i - 1 : LineOf(g, new, new[i], j) => j <= g[i].lines
                      /\ \A c \in 1 .. i - 1 : StillOpen(g, c, i) =>
                           c <= new[i] /\ (g[c].sib # 0 => g[new[i]].sib # 0)
    BY DEF EachLine
  <2>1. CASE i = n + 1
    <3>1. new[i] = b /\ i - 1 = n
      BY <1>2, <2>1
    <3>2. /\ g[i].sib = 0 /\ g[i].lines = es[b].lines /\ g[i].tid = es[b].tid
          /\ es[b].tid # NoThread /\ es[b].op = "enter_scope" /\ es[b].sib = 0
      BY <2>1 DEF LinesAt, Innermost
    <3>3. StillOpen(g, b, i)
      BY <3>1, <3>2 DEF StillOpen, LinesAt
    <3>4. g[i].lines # 0 => g[i].lines \in 1 .. n /\ LineOf(g, new, b, g[i].lines)
      BY <1>5, <1>8, <3>2
    <3>5. \A j \in 1 .. n : LineOf(g, new, b, j) => j <= g[i].lines
      BY <1>5, <1>8, <3>2
    <3>6. ASSUME NEW c \in 1 .. n, StillOpen(g, c, i) PROVE c <= b /\ g[c].sib = 0
      <4>1. \A x \in 0 .. n : ~(x > n + 1)
        OBVIOUS
      <4>2. g[c].op = es[c].op /\ g[c].tid = es[c].tid /\ g[c].sib = es[c].sib
        BY DEF LinesAt
      <4>3. es[c].sib = 0 /\ es[c].op = "enter_scope" /\ es[c].tid = es[b].tid
        BY <1>1, <2>1, <3>2, <3>6, <4>1, <4>2 DEF StillOpen
      <4> QED
        BY <4>2, <4>3 DEF Innermost
    <3> QED
      BY <3>1, <3>2, <3>3, <3>4, <3>5, <3>6
  <2>2. CASE i \in 1 .. n
    <3> DEFINE a == own[i]
    <3>1. /\ g[i].op = es[i].op /\ g[i].sib = es[i].sib /\ g[i].tid = es[i].tid
          /\ g[i].lines = IF i = b THEN n + 1 ELSE es[i].lines
      BY <2>2 DEF LinesAt
    <3>2. /\ es[i].sib = 0 /\ StillOpen(es, a, i) /\ es[i].tid # NoThread
          /\ es[i].lines # 0 => es[i].lines \in 1 .. i - 1 /\ LineOf(es, own, a, es[i].lines)
          /\ \A j \in 1 .. i - 1 : LineOf(es, own, a, j) => j <= es[i].lines
          /\ \A c \in 1 .. i - 1 : StillOpen(es, c, i) => c <= a /\ (es[c].sib # 0 => es[a].sib # 0)
      BY <2>2, <3>1 DEF Owns, EachLine
    <3>3. i # b
      BY <3>1 DEF Innermost
    <3>4. new[i] = a
      BY <1>2, <2>2
    <3> HIDE DEF a
    <3>5. a \in 1 .. i - 1
      BY <3>2 DEF StillOpen
    <3>6. a \in 1 .. n /\ \A j \in 1 .. i - 1 : j \in 1 .. n
      <4>1. \A j \in 1 .. i - 1 : j \in 1 .. n
        BY <2>2
      <4> QED
        BY <3>5, <4>1
    <3>7. StillOpen(g, a, i)
      BY <1>4, <2>2, <3>2, <3>6
    <3>8. g[i].lines # 0 => g[i].lines \in 1 .. i - 1 /\ LineOf(g, new, a, g[i].lines)
      BY <1>5, <3>1, <3>2, <3>3, <3>6
    <3>9. \A j \in 1 .. i - 1 : LineOf(g, new, a, j) => j <= g[i].lines
      BY <1>5, <3>1, <3>2, <3>3, <3>6
    <3>10. ASSUME NEW c \in 1 .. i - 1, StillOpen(g, c, i)
           PROVE  c <= a /\ (g[c].sib # 0 => g[a].sib # 0)
      <4>1. StillOpen(es, c, i)
        BY <1>4, <2>2, <3>6, <3>10
      <4>2. g[c].sib = es[c].sib /\ g[a].sib = es[a].sib
        BY <3>6 DEF LinesAt
      <4> QED
        BY <3>2, <4>1, <4>2
    <3> QED
      BY <3>1, <3>2, <3>4, <3>7, <3>8, <3>9, <3>10
  <2> QED
    BY <1>3, <2>1, <2>2
<1> QED
  BY <1>7, <1>10, <1>11 DEF Owns, new

\* Another event that refers to none, and to which none refers.
LEMMA AddSound ==
  ASSUME NEW es, NEW stk, Sound(es, stk), NEW e \in EventSet, e.sib = 0, e.lines \in 0 .. Len(es)
  PROVE  Sound(Append(es, e), stk)
<1> DEFINE f == Append(es, e)
           n == Len(es)
<1>1. /\ f \in Seq(EventSet) /\ Len(f) = n + 1 /\ f[n + 1] = e
      /\ \A i \in 1 .. n : f[i] = es[i]
  BY AppendProperties DEF Sound
<1>2. n \in Nat
  BY DEF Sound
<1> HIDE DEF f, n
<1>3. Linked(f)
  <2>1. \A i \in 1 .. n :
          /\ es[i].sib \in 0 .. n /\ es[i].lines \in 0 .. n
          /\ es[i].sib # 0 => /\ es[es[i].sib].sib = i
                              /\ es[i].fn = es[es[i].sib].fn /\ es[i].tid = es[es[i].sib].tid
    BY DEF Sound, Linked, n
  <2>2. ASSUME NEW i \in 1 .. n
        PROVE /\ f[i].sib \in 0 .. n + 1 /\ f[i].lines \in 0 .. n + 1
              /\ f[i].sib # 0 => /\ f[f[i].sib].sib = i
                                 /\ f[i].fn = f[f[i].sib].fn /\ f[i].tid = f[f[i].sib].tid
    <3>1. f[i] = es[i]
      BY <1>1
    <3>2. es[i].sib # 0 => es[i].sib \in 1 .. n /\ f[es[i].sib] = es[es[i].sib]
      BY <1>1, <1>2, <2>1
    <3>3. f[i].sib \in 0 .. n + 1 /\ f[i].lines \in 0 .. n + 1
      BY <1>2, <2>1, <3>1
    <3>4. f[i].sib # 0 => /\ f[f[i].sib].sib = i
                          /\ f[i].fn = f[f[i].sib].fn /\ f[i].tid = f[f[i].sib].tid
      BY <2>1, <3>1, <3>2
    <3> QED
      BY <3>3, <3>4
  <2>3. f[n + 1].sib = 0 /\ f[n + 1].lines \in 0 .. n + 1
    BY <1>1, <1>2 DEF n
  <2>4. \A i \in 1 .. n + 1 : i \in 1 .. n \/ i = n + 1
    BY <1>2
  <2>5. f[n + 1].sib \in 0 .. n + 1
    BY <1>2, <2>3
  <2> QED
    BY <1>1, <2>2, <2>3, <2>4, <2>5 DEF Linked
<1>4. Refers(f, stk)
  <2>1. ASSUME NEW t \in Threads, NEW k \in 1 .. Len(stk[t])
        PROVE  /\ stk[t][k].begin \in 0 .. Len(f)
               /\ stk[t][k].begin # 0 =>
                    /\ f[stk[t][k].begin].fn = stk[t][k].fn /\ f[stk[t][k].begin].tid = Tid(t)
                    /\ stk[t][k].fn \notin Ignored
    <3> DEFINE b == stk[t][k].begin
    <3>1. /\ b \in 0 .. n
          /\ b # 0 => es[b].fn = stk[t][k].fn /\ es[b].tid = Tid(t) /\ stk[t][k].fn \notin Ignored
      BY DEF Sound, Refers, n
    <3> HIDE DEF b
    <3>2. b # 0 => f[b] = es[b]
      BY <1>1, <1>2, <3>1
    <3>3. b \in 0 .. Len(f)
      BY <1>1, <1>2, <3>1
    <3> QED
      BY <3>1, <3>2, <3>3 DEF b
  <2> QED
    BY <2>1 DEF Refers
<1> QED
  BY <1>1, <1>3, <1>4 DEF Sound, f

\* It opens no scope either.
LEMMA AddPlaced ==
  ASSUME NEW es, NEW stk, Sound(es, stk), NEW d, Placed(es, stk, d),
         NEW e \in EventSet, ~Begun(e)
  PROVE  Placed(Append(es, e), stk, d)
<1> DEFINE f == Append(es, e)
           n == Len(es)
<1>1. /\ f \in Seq(EventSet) /\ Len(f) = n + 1 /\ f[n + 1] = e
      /\ \A i \in 1 .. n : f[i] = es[i]
  BY AppendProperties DEF Sound
<1>2. n \in Nat
  BY DEF Sound
<1> HIDE DEF f, n
<1>3. \A t \in Threads : \A k \in 1 .. d[t] : stk[t][k].begin \in 0 .. n
  <2> TAKE t \in Threads
  <2> TAKE k \in 1 .. d[t]
  <2>1. d[t] \in Nat /\ Len(stk[t]) \in Nat /\ d[t] <= Len(stk[t])
    BY DEF Placed, Depths, Sound, Stacks
  <2>2. k \in 1 .. Len(stk[t])
    BY <2>1
  <2> QED
    BY <2>2 DEF Sound, Refers, n
<1>4. Live(f, stk, d)
  <2>1. \A t \in Threads : \A k \in 1 .. d[t] :
          stk[t][k].begin # 0 => f[stk[t][k].begin] = es[stk[t][k].begin]
    BY <1>1, <1>2, <1>3
  <2> QED
    BY <2>1 DEF Live, Placed
<1>5. Covered(f, stk, d)
  <2>1. \A i \in 1 .. n + 1 : i \in 1 .. n \/ i = n + 1
    BY <1>2
  <2> QED
    BY <1>1, <2>1 DEF Covered, Placed, n
<1> QED
  BY <1>4, <1>5 DEF Placed, f

\* The begin events of open entries.
LEMMA OpenType ==
  ASSUME NEW es, NEW stk, Sound(es, stk), NEW d, Depths(stk, d)
  PROVE  /\ Len(es) \in Nat
         /\ \A t \in Threads : \A k \in 1 .. d[t] :
              /\ k \in 1 .. Len(stk[t]) /\ stk[t][k].begin \in 0 .. Len(es)
              /\ stk[t][k].begin # 0 => /\ stk[t][k].begin \in 1 .. Len(es)
                                        /\ es[stk[t][k].begin].tid = Tid(t)
<1>1. es \in Seq(EventSet) /\ stk \in Stacks /\ Refers(es, stk)
  BY DEF Sound
<1>2. Len(es) \in Nat
  BY <1>1
<1>3. ASSUME NEW t \in Threads, NEW k \in 1 .. d[t] PROVE k \in 1 .. Len(stk[t])
  <2>1. d[t] \in Nat /\ Len(stk[t]) \in Nat /\ d[t] <= Len(stk[t])
    BY <1>1 DEF Depths, Stacks
  <2> QED
    BY <2>1
<1> QED
  BY <1>1, <1>2, <1>3 DEF Refers

\* Nor does it change what lines belong to.
LEMMA AddTracks ==
  ASSUME NEW es, NEW stk, Sound(es, stk), NEW d, Tracks(es, stk, d), NEW e \in EventSet, Aside(e)
  PROVE  Tracks(Append(es, e), stk, d)
<1> DEFINE f == Append(es, e)
           n == Len(es)
<1>1. /\ f \in Seq(EventSet) /\ Len(f) = n + 1 /\ f[n + 1] = e
      /\ \A i \in 1 .. n : f[i] = es[i]
  BY AppendProperties DEF Sound
<1>2. es \in Seq(EventSet) /\ Linked(es) /\ n \in Nat
  BY DEF Sound
<1>3. Placed(f, stk, d)
  BY AddPlaced DEF Aside, Tracks
<1> HIDE DEF f, n
<1>4. ASSUME Owned(es), Opens(es, stk, d) PROVE Owned(f) /\ Opens(f, stk, d)
  <2>1. PICK own \in [Nat -> Nat] : Owns(es, own)
    BY <1>4 DEF Owned
  <2>2. e.sib <= n /\ e.sib = 0 /\ e.lines = 0 /\ e.op \notin {"line_scope", "ignore_scope"}
    BY <1>2 DEF Aside
  <2>3. Owns(f, own)
    <3>1. EndsAt(es, f, n)
      BY <1>1 DEF EndsAt
    <3>2. Len(es) = n /\ e.sib \in 0 .. n
      BY <1>2, <2>2 DEF n
    <3> QED
      BY <1>1, <1>2, <2>1, <2>2, <3>1, <3>2, OwnsOn
  <2>4. \A t \in Threads : \A k \in 1 .. d[t] : stk[t][k].begin # 0 => stk[t][k].begin \in 1 .. n
    BY OpenType DEF Tracks, Placed, n
  <2> QED
    BY <1>1, <1>4, <2>3, <2>4 DEF Owned, Opens
<1> QED
  BY <1>3, <1>4 DEF Tracks, f

\* What depends on the begin events of open entries only.
LEMMA Retrack ==
  ASSUME NEW es, NEW stk, NEW d, Tracks(es, stk, d), NEW new, NEW c, Depths(new, c),
         \A t \in Threads : \A k \in 1 .. c[t] : new[t][k].begin # 0 =>
           k \in 1 .. d[t] /\ stk[t][k].begin = new[t][k].begin,
         \A t \in Threads : \A k \in 1 .. d[t] : stk[t][k].begin # 0 =>
           k \in 1 .. c[t] /\ stk[t][k].begin = new[t][k].begin,
         es \in Seq(EventSet)
  PROVE  Tracks(es, new, c)
<1>1. Live(es, new, c) /\ Ordered(new, c)
  <2>1. \A t \in Threads : \A k \in 1 .. d[t] : stk[t][k].begin # 0 =>
          /\ es[stk[t][k].begin].sib = 0
          /\ \A u \in Threads : \A m \in 1 .. d[u] :
               stk[u][m].begin = stk[t][k].begin => u = t /\ m = k
    BY DEF Tracks, Placed, Live
  <2>2. Live(es, new, c)
    BY <2>1 DEF Live
  <2>3. Ordered(stk, d)
    BY DEF Tracks, Placed
  <2>4. Ordered(new, c)
    BY <2>3 DEF Ordered
  <2> QED
    BY <2>2, <2>4
<1>2. Covered(es, new, c)
  <2> SUFFICES ASSUME NEW i \in 1 .. Len(es), Begun(es[i])
               PROVE  \E t \in Threads : \E k \in 1 .. c[t] : new[t][k].begin = i
    BY DEF Covered
  <2>1. PICK t \in Threads : \E k \in 1 .. d[t] : stk[t][k].begin = i
    BY DEF Tracks, Placed, Covered
  <2>2. PICK k \in 1 .. d[t] : stk[t][k].begin = i
    BY <2>1
  <2>3. i # 0
    OBVIOUS
  <2>4. k \in 1 .. c[t] /\ new[t][k].begin = i
    BY <2>2, <2>3
  <2> QED
    BY <2>4
<1>3. Opens(es, stk, d) => Opens(es, new, c)
  BY DEF Opens
<1> QED
  BY <1>1, <1>2, <1>3 DEF Tracks, Placed

\* The begin event of an entry is set, and nothing else.
LEMMA MarkEntry ==
  ASSUME NEW stk \in Stacks, NEW t \in Threads, NEW i \in 1 .. Len(stk[t]), NEW b \in Nat
  PROVE  LET new == [stk EXCEPT ![t][i].begin = b]
         IN  /\ new \in Stacks /\ Lengths(stk, new)
             /\ \A u \in Threads : \A k \in 1 .. Len(stk[u]) :
                  /\ new[u][k].fn = stk[u][k].fn
                  /\ new[u][k].begin = IF u = t /\ k = i THEN b ELSE stk[u][k].begin
<1> DEFINE p == [stk[t][i] EXCEPT !.begin = b]
           s == [stk[t] EXCEPT ![i] = p]
           new == [stk EXCEPT ![t] = s]
<1>1. stk[t] \in Seq(EntrySet) /\ stk[t][i] \in EntrySet /\ Len(stk[t]) \in Nat
  BY DEF Stacks
<1>2. p \in EntrySet /\ p.fn = stk[t][i].fn /\ p.begin = b
  BY <1>1 DEF EntrySet
<1> HIDE DEF p
<1>3. /\ s \in Seq(EntrySet) /\ Len(s) = Len(stk[t])
      /\ \A k \in 1 .. Len(stk[t]) : s[k] = IF k = i THEN p ELSE stk[t][k]
  BY <1>1, <1>2
<1> HIDE DEF s
<1>4. new \in Stacks /\ \A u \in Threads : new[u] = IF u = t THEN s ELSE stk[u]
  BY <1>3 DEF Stacks
<1>5. new = [stk EXCEPT ![t][i].begin = b]
  BY DEF p, s
<1> HIDE DEF new
<1>6. Lengths(stk, new)
  BY <1>3, <1>4 DEF Lengths
<1>7. \A u \in Threads : \A k \in 1 .. Len(stk[u]) :
        /\ new[u][k].fn = stk[u][k].fn
        /\ new[u][k].begin = IF u = t /\ k = i THEN b ELSE stk[u][k].begin
  BY <1>2, <1>3, <1>4
<1> QED
  BY <1>4, <1>5, <1>6, <1>7

\* The scope of an entry begins: the entry has the event, which is sound if no
\* other entry has it, as is the case of a new one.
LEMMA BeginSound ==
  ASSUME NEW es, NEW stk, Sound(es, stk), NEW t \in Threads, NEW i \in 1 .. Len(stk[t]),
         NEW e \in EventSet, e.op = "enter_scope", e.sib = 0, e.lines = 0, e.tid = Tid(t),
         e.fn = stk[t][i].fn, e.fn \notin Ignored
  PROVE  LET new == [stk EXCEPT ![t][i].begin = Len(es) + 1]
         IN  /\ Sound(Append(es, e), new) /\ Lengths(stk, new)
             /\ \A d : Tracks(es, stk, d) /\ i = d[t] + 1 /\ Alone(t, d) =>
                  Tracks(Append(es, e), new, [d EXCEPT ![t] = i])
<1> DEFINE f == Append(es, e)
           n == Len(es)
           new == [stk EXCEPT ![t][i].begin = n + 1]
<1>1. /\ f \in Seq(EventSet) /\ Len(f) = n + 1 /\ f[n + 1] = e
      /\ \A j \in 1 .. n : f[j] = es[j]
  BY AppendProperties DEF Sound
<1>2. n \in Nat /\ stk \in Stacks /\ n + 1 \in Nat /\ n + 1 # 0
  BY DEF Sound
<1>3. /\ new \in Stacks /\ Lengths(stk, new)
      /\ \A u \in Threads : \A k \in 1 .. Len(stk[u]) :
           /\ new[u][k].fn = stk[u][k].fn
           /\ new[u][k].begin = IF u = t /\ k = i THEN n + 1 ELSE stk[u][k].begin
  <2> DEFINE m == n + 1
  <2>1. m \in Nat /\ stk \in Stacks
    BY <1>2
  <2> HIDE DEF n, m
  <2>2. LET w == [stk EXCEPT ![t][i].begin = m]
        IN  /\ w \in Stacks /\ Lengths(stk, w)
            /\ \A u \in Threads : \A k \in 1 .. Len(stk[u]) :
                 /\ w[u][k].fn = stk[u][k].fn
                 /\ w[u][k].begin = IF u = t /\ k = i THEN m ELSE stk[u][k].begin
    BY <2>1, MarkEntry
  <2> QED
    BY <2>2 DEF m
<1>4. Sound(f, stk)
  <2>1. 0 \in 0 .. n
    BY <1>2
  <2> QED
    BY <2>1, AddSound
<1>5. \A u \in Threads : Len(stk[u]) \in Nat /\ Len(new[u]) = Len(stk[u])
  BY <1>2, <1>3 DEF Stacks, Lengths
<1>6. \A u \in Threads : \A k \in 1 .. Len(stk[u]) : stk[u][k].begin \in 0 .. n
  BY DEF Sound, Refers
<1> HIDE DEF f, n, new
<1>7. Rooted(new)
  <2>1. Rooted(stk)
    BY DEF Sound
  <2>2. \A u \in Threads : \A k \in 1 .. Len(stk[u]) : new[u][k].fn = stk[u][k].fn
    BY <1>3
  <2> QED
    BY <1>5, <2>1, <2>2 DEF Rooted
<1>8. Refers(f, new)
  <2> SUFFICES ASSUME NEW u \in Threads, NEW k \in 1 .. Len(stk[u])
               PROVE  /\ new[u][k].begin \in 0 .. Len(f)
                      /\ new[u][k].begin # 0 =>
                           /\ f[new[u][k].begin].fn = new[u][k].fn
                           /\ f[new[u][k].begin].tid = Tid(u)
                           /\ new[u][k].fn \notin Ignored
    BY <1>5 DEF Refers
  <2>1. CASE u = t /\ k = i
    <3>1. new[u][k].begin = n + 1 /\ new[u][k].fn = e.fn
      BY <1>3, <2>1
    <3>2. n + 1 \in 0 .. Len(f)
      BY <1>1, <1>2
    <3> QED
      BY <1>1, <2>1, <3>1, <3>2
  <2>2. CASE ~(u = t /\ k = i)
    <3>1. new[u][k].begin = stk[u][k].begin /\ new[u][k].fn = stk[u][k].fn
      BY <1>3, <2>2
    <3>2. Refers(f, stk)
      BY <1>4 DEF Sound
    <3> QED
      BY <3>1, <3>2 DEF Refers
  <2> QED
    BY <2>1, <2>2
<1>9. Sound(f, new)
  BY <1>1, <1>3, <1>4, <1>7, <1>8 DEF Sound
<1>10. ASSUME NEW d, Tracks(es, stk, d), i = d[t] + 1, Alone(t, d)
       PROVE  Tracks(f, new, [d EXCEPT ![t] = i])
  <2> DEFINE c == [d EXCEPT ![t] = i]
  <2>1. d \in [Threads -> Nat] /\ \A u \in Threads : d[u] \in Nat /\ d[u] <= Len(stk[u])
    BY <1>10 DEF Tracks, Placed, Depths
  <2>2. /\ c \in [Threads -> Nat] /\ c[t] = i /\ \A u \in Threads : u # t => c[u] = d[u]
    BY <1>5, <2>1
  <2> HIDE DEF c
  <2>3. \A u \in Threads : c[u] <= Len(new[u])
    BY <1>5, <2>1, <2>2
  <2>4. ASSUME NEW u \in Threads, NEW k \in 1 .. c[u]
        PROVE  \/ u = t /\ k = i /\ new[u][k].begin = n + 1
               \/ /\ k \in 1 .. d[u] /\ k \in 1 .. Len(stk[u])
                  /\ new[u][k].begin = stk[u][k].begin /\ stk[u][k].begin \in 0 .. n
    <3>1. CASE u = t /\ k = i
      BY <1>3, <3>1
    <3>2. CASE ~(u = t /\ k = i)
      <4>1. k \in 1 .. d[u]
        <5>1. u = t => i = d[u] + 1 /\ c[u] = i
          BY <1>10, <2>2
        <5>2. u # t => c[u] = d[u]
          BY <2>2
        <5>3. d[u] \in Nat
          BY <2>1
        <5> QED
          BY <3>2, <5>1, <5>2, <5>3
      <4>2. k \in 1 .. Len(stk[u])
        BY <1>5, <2>1, <4>1
      <4> QED
        BY <1>3, <1>6, <3>2, <4>1, <4>2
    <3> QED
      BY <3>1, <3>2
  <2>5. Live(f, new, c)
    <3> SUFFICES ASSUME NEW u \in Threads, NEW k \in 1 .. c[u], new[u][k].begin # 0
                 PROVE  /\ f[new[u][k].begin].sib = 0
                        /\ \A v \in Threads : \A m \in 1 .. c[v] :
                             new[v][m].begin = new[u][k].begin => v = u /\ m = k
      BY DEF Live
    <3>1. f[new[u][k].begin].sib = 0
      <4>1. CASE new[u][k].begin = n + 1
        BY <1>1, <4>1
      <4>2. CASE new[u][k].begin # n + 1
        <5>1. /\ k \in 1 .. d[u] /\ new[u][k].begin = stk[u][k].begin
              /\ stk[u][k].begin \in 0 .. n
          BY <2>4, <4>2
        <5>2. stk[u][k].begin \in 1 .. n
          BY <1>2, <5>1
        <5> QED
          BY <1>1, <1>10, <5>1, <5>2 DEF Tracks, Placed, Live
      <4> QED
        BY <4>1, <4>2
    <3>2. ASSUME NEW v \in Threads, NEW m \in 1 .. c[v], new[v][m].begin = new[u][k].begin
          PROVE  v = u /\ m = k
      <4>1. \A j \in 0 .. n : j # n + 1
        BY <1>2
      <4>2. CASE new[u][k].begin = n + 1
        <5>1. u = t /\ k = i
          BY <2>4, <4>1, <4>2
        <5>2. v = t /\ m = i
          BY <2>4, <3>2, <4>1, <4>2
        <5> QED
          BY <5>1, <5>2
      <4>3. CASE new[u][k].begin # n + 1
        <5>1. k \in 1 .. d[u] /\ new[u][k].begin = stk[u][k].begin
          BY <2>4, <4>3
        <5>2. m \in 1 .. d[v] /\ new[v][m].begin = stk[v][m].begin
          BY <2>4, <3>2, <4>3
        <5> QED
          BY <1>10, <3>2, <5>1, <5>2 DEF Tracks, Placed, Live
      <4> QED
        BY <4>2, <4>3
    <3> QED
      BY <3>1, <3>2
  <2>6. Covered(f, new, c)
    <3> SUFFICES ASSUME NEW j \in 1 .. n + 1, Begun(f[j])
                 PROVE  \E u \in Threads : \E k \in 1 .. c[u] : new[u][k].begin = j
      BY <1>1 DEF Covered
    <3>1. CASE j = n + 1
      <4>1. i \in 1 .. c[t] /\ new[t][i].begin = j
        <5>1. i \in 1 .. i
          BY <1>5
        <5> QED
          BY <1>3, <2>2, <3>1, <5>1
      <4> QED
        BY <4>1
    <3>2. CASE j # n + 1
      <4>1. j \in 1 .. n /\ f[j] = es[j]
        BY <1>1, <1>2, <3>2
      <4>2. PICK u \in Threads : \E k \in 1 .. d[u] : stk[u][k].begin = j
        BY <1>10, <4>1 DEF Tracks, Placed, Covered, n
      <4>3. PICK k \in 1 .. d[u] : stk[u][k].begin = j
        BY <4>2
      <4>4. k \in 1 .. c[u] /\ ~(u = t /\ k = i)
        <5>1. u = t => i = d[u] + 1 /\ c[u] = i
          BY <1>10, <2>2
        <5>2. u # t => c[u] = d[u]
          BY <2>2
        <5>3. d[u] \in Nat
          BY <2>1
        <5> QED
          BY <5>1, <5>2, <5>3
      <4>5. k \in 1 .. Len(stk[u])
        BY <1>5, <2>1
      <4>6. new[u][k].begin = j
        BY <1>3, <4>3, <4>4, <4>5
      <4> QED
        BY <4>4, <4>6
    <3> QED
      BY <3>1, <3>2
  <2>7. Ordered(new, c)
    <3> SUFFICES ASSUME NEW u \in Threads, NEW v \in Threads, Tid(u) = Tid(v),
                        NEW k \in 1 .. c[u], NEW m \in 1 .. c[v],
                        new[u][k].begin # 0, new[v][m].begin # 0
                 PROVE  u = v /\ (k < m => new[u][k].begin < new[v][m].begin)
      BY DEF Ordered
    <3>1. Ordered(stk, d)
      BY <1>10 DEF Tracks, Placed
    <3>2. \A w \in Threads : w # t /\ Tid(w) = Tid(t) => d[w] = 0 /\ c[w] = 0
      BY <1>10, <2>2 DEF Alone
    <3>3. CASE u = t /\ k = i
      <4>1. v = t /\ c[v] = i
        BY <2>2, <3>2, <3>3
      <4>2. ~(k < m)
        BY <3>3, <4>1
      <4> QED
        BY <3>3, <4>1, <4>2
    <3>4. CASE v = t /\ m = i /\ ~(u = t /\ k = i)
      <4>1. u = t
        BY <2>2, <3>2, <3>4
      <4>2. new[u][k].begin \in 0 .. n /\ new[v][m].begin = n + 1
        BY <1>3, <2>4, <3>4
      <4> QED
        BY <1>2, <3>4, <4>1, <4>2
    <3>5. CASE ~(u = t /\ k = i) /\ ~(v = t /\ m = i)
      <4>1. /\ k \in 1 .. d[u] /\ new[u][k].begin = stk[u][k].begin
            /\ m \in 1 .. d[v] /\ new[v][m].begin = stk[v][m].begin
        BY <2>4, <3>5
      <4> QED
        BY <3>1, <4>1 DEF Ordered
    <3> QED
      BY <3>3, <3>4, <3>5
  <2>8. ASSUME Owned(es), Opens(es, stk, d) PROVE Owned(f) /\ Opens(f, new, c)
    <3>1. PICK own \in [Nat -> Nat] : Owns(es, own)
      BY <2>8 DEF Owned
    <3>2. e.sib \in 0 .. n /\ e.op \notin {"line_scope", "ignore_scope"}
      BY <1>2
    <3>3. Len(es) = n /\ Linked(es) /\ EndsAt(es, f, n)
      BY <1>1 DEF Sound, EndsAt, n
    <3>4. Owns(f, own)
      BY <1>1, <1>2, <3>1, <3>2, <3>3, OwnsOn
    <3>5. Opens(f, new, c)
      <4> SUFFICES ASSUME NEW u \in Threads, NEW k \in 1 .. c[u], new[u][k].begin # 0
                   PROVE  f[new[u][k].begin].op = "enter_scope"
        BY DEF Opens
      <4>1. CASE new[u][k].begin = n + 1
        BY <1>1, <4>1
      <4>2. CASE new[u][k].begin # n + 1
        <5>1. /\ k \in 1 .. d[u] /\ new[u][k].begin = stk[u][k].begin
              /\ stk[u][k].begin \in 0 .. n
          BY <2>4, <4>2
        <5>2. stk[u][k].begin \in 1 .. n
          BY <1>2, <5>1, IndexNonzero
        <5>3. es[stk[u][k].begin].op = "enter_scope"
          BY <2>8, <5>1 DEF Opens
        <5>4. f[stk[u][k].begin] = es[stk[u][k].begin]
          BY <1>1, <5>2
        <5> QED
          BY <5>1, <5>3, <5>4
      <4> QED
        BY <4>1, <4>2
    <3> QED
      BY <3>4, <3>5 DEF Owned
  <2> QED
    BY <1>10, <2>2, <2>3, <2>5, <2>6, <2>7, <2>8 DEF Tracks, Placed, Depths, c
<1> QED
  BY <1>3, <1>9, <1>10 DEF f, n, new

\* Other times, lines and, if they are no scopes' begins, operations.
LEMMA Reworded ==
  ASSUME NEW es, NEW stk, Sound(es, stk), NEW g \in Seq(EventSet), Len(g) = Len(es),
         \A i \in 1 .. Len(es) :
           /\ g[i].sib = es[i].sib /\ g[i].fn = es[i].fn /\ g[i].tid = es[i].tid
           /\ g[i].lines \in 0 .. Len(es)
           /\ g[i].op = es[i].op \/ g[i].op # "enter_scope"
  PROVE  /\ Sound(g, stk)
         /\ \A d : Placed(es, stk, d) => Placed(g, stk, d)
<1> DEFINE n == Len(es)
<1>1. n \in Nat /\ stk \in Stacks
  BY DEF Sound
<1>2. /\ \A i \in 1 .. n : /\ g[i].sib = es[i].sib /\ g[i].fn = es[i].fn
                           /\ g[i].tid = es[i].tid /\ g[i].lines \in 0 .. n
                           /\ g[i].op = es[i].op \/ g[i].op # "enter_scope"
      /\ Len(g) = n /\ Len(es) = n
  OBVIOUS
<1> HIDE DEF n
<1>3. Linked(g)
  <2>1. \A i \in 1 .. n :
          /\ es[i].sib \in 0 .. n
          /\ es[i].sib # 0 => /\ es[i].sib \in 1 .. n
                              /\ es[es[i].sib].sib = i
                              /\ es[i].fn = es[es[i].sib].fn /\ es[i].tid = es[es[i].sib].tid
    BY <1>1, <1>2 DEF Sound, Linked
  <2> QED
    BY <1>2, <2>1 DEF Linked
<1>4. Refers(g, stk)
  <2>1. \A t \in Threads : \A k \in 1 .. Len(stk[t]) :
          /\ stk[t][k].begin \in 0 .. n
          /\ stk[t][k].begin # 0 =>
               /\ stk[t][k].begin \in 1 .. n
               /\ es[stk[t][k].begin].fn = stk[t][k].fn /\ es[stk[t][k].begin].tid = Tid(t)
               /\ stk[t][k].fn \notin Ignored
    BY <1>1, <1>2 DEF Sound, Refers
  <2> QED
    BY <1>2, <2>1 DEF Refers
<1>5. ASSUME NEW d, Placed(es, stk, d) PROVE Placed(g, stk, d)
  <2>1. \A t \in Threads : \A k \in 1 .. d[t] : stk[t][k].begin # 0 => stk[t][k].begin \in 1 .. n
    <3> TAKE t \in Threads
    <3> TAKE k \in 1 .. d[t]
    <3>1. d[t] \in Nat /\ d[t] <= Len(stk[t]) /\ Len(stk[t]) \in Nat
      BY <1>1, <1>5 DEF Placed, Depths, Stacks
    <3>2. k \in 1 .. Len(stk[t])
      BY <3>1
    <3>3. stk[t][k].begin \in 0 .. n
      BY <1>2, <3>2 DEF Sound, Refers
    <3> QED
      BY <1>1, <3>3
  <2>2. Live(g, stk, d)
    BY <1>2, <1>5, <2>1 DEF Placed, Live
  <2>3. Covered(g, stk, d)
    <3>1. \A i \in 1 .. n : Begun(g[i]) => Begun(es[i])
      BY <1>2 DEF Begun
    <3> QED
      BY <1>2, <1>5, <3>1 DEF Placed, Covered
  <2> QED
    BY <1>5, <2>2, <2>3 DEF Placed
<1> QED
  BY <1>3, <1>4, <1>5 DEF Sound

\* The scope of the highest entry of a thread that is open ends.
LEMMA EndSound ==
  ASSUME NEW es, NEW stk, Sound(es, stk), NEW d, Tracks(es, stk, d), NEW t \in Threads,
         d[t] \in 1 .. Len(stk[t]), NEW b, b = stk[t][d[t]].begin, b # 0,
         NEW e \in EventSet, e.op = "exit_scope", e.sib = b, e.lines = 0, e.tid = Tid(t),
         e.fn = stk[t][d[t]].fn
  PROVE  LET g == [Append(es, e) EXCEPT ![b] = [es[b] EXCEPT !.sib = Len(es) + 1]]
         IN  /\ b \in 1 .. Len(es)
             /\ Sound(g, stk) /\ Tracks(g, stk, [d EXCEPT ![t] = d[t] - 1])
<1> DEFINE f == Append(es, e)
           n == Len(es)
           p == [es[b] EXCEPT !.sib = n + 1]
           g == [f EXCEPT ![b] = p]
           i == d[t]
           c == [d EXCEPT ![t] = i - 1]
<1>1. /\ f \in Seq(EventSet) /\ Len(f) = n + 1 /\ f[n + 1] = e
      /\ \A j \in 1 .. n : f[j] = es[j]
  BY AppendProperties DEF Sound
<1>2. n \in Nat /\ stk \in Stacks /\ es \in Seq(EventSet)
  BY DEF Sound
<1>3. b \in 1 .. n /\ es[b].fn = e.fn /\ es[b].tid = Tid(t)
  <2>1. b \in 0 .. n /\ es[b].fn = e.fn /\ es[b].tid = Tid(t)
    BY DEF Sound, Refers
  <2> QED
    BY <1>2, <2>1
<1>4. es[b].sib = 0
  <2>1. d[t] \in 1 .. d[t]
    OBVIOUS
  <2> QED
    BY <2>1 DEF Tracks, Placed, Live
<1>5. /\ p \in EventSet /\ p.sib = n + 1 /\ p.fn = e.fn /\ p.tid = Tid(t)
      /\ p.lines = es[b].lines /\ p.op = es[b].op
  <2>1. es[b] \in EventSet
    BY <1>2, <1>3
  <2>2. n + 1 \in Nat
    BY <1>2
  <2> HIDE DEF n
  <2>3. /\ p \in EventSet /\ p.sib = n + 1 /\ p.fn = es[b].fn /\ p.tid = es[b].tid
        /\ p.lines = es[b].lines /\ p.op = es[b].op
    BY <2>1, <2>2 DEF EventSet
  <2> HIDE DEF p
  <2> QED
    BY <1>3, <2>3
<1> HIDE DEF f, p
<1>6. /\ g \in Seq(EventSet) /\ Len(g) = n + 1
      /\ \A j \in 1 .. n + 1 : g[j] = IF j = b THEN p ELSE f[j]
  <2> HIDE DEF n
  <2> QED
    BY <1>1, <1>2, <1>3, <1>5
<1> HIDE DEF g
<1>7. /\ g[b] = p /\ g[n + 1] = e
      /\ \A j \in 1 .. n : j # b => g[j] = es[j]
  <2> HIDE DEF n
  <2> QED
    BY <1>1, <1>2, <1>3, <1>6
<1>8. \A j \in 1 .. n :
        /\ es[j].sib \in 0 .. n /\ es[j].lines \in 0 .. n
        /\ es[j].sib # 0 => /\ es[es[j].sib].sib = j
                            /\ es[j].fn = es[es[j].sib].fn /\ es[j].tid = es[es[j].sib].tid
  BY DEF Sound, Linked
<1>9. Linked(g)
  <2> HIDE DEF n
  <2>1. ASSUME NEW j \in 1 .. n + 1
        PROVE  /\ g[j].sib \in 0 .. n + 1 /\ g[j].lines \in 0 .. n + 1
               /\ g[j].sib # 0 => /\ g[g[j].sib].sib = j
                                  /\ g[j].fn = g[g[j].sib].fn /\ g[j].tid = g[g[j].sib].tid
    <3>1. CASE j = b
      <4>1. es[b].lines \in 0 .. n
        BY <1>3, <1>8
      <4>2. g[j] = p /\ g[n + 1] = e /\ p.sib = n + 1 /\ e.sib = b
        BY <1>5, <1>7, <3>1
      <4>3. p.fn = e.fn /\ p.tid = e.tid /\ p.lines \in 0 .. n
        BY <1>5, <4>1
      <4>4. n + 1 \in 0 .. n + 1 /\ p.lines \in 0 .. n + 1
        BY <1>2, <4>3
      <4> QED
        BY <3>1, <4>2, <4>3, <4>4
    <3>2. CASE j = n + 1
      <4>1. g[j] = e /\ g[b] = p /\ p.sib = n + 1 /\ e.sib = b /\ e.lines = 0
        BY <1>5, <1>7, <3>2
      <4>2. p.fn = e.fn /\ p.tid = e.tid
        BY <1>5
      <4>3. b \in 0 .. n + 1 /\ 0 \in 0 .. n + 1
        BY <1>2, <1>3
      <4> QED
        BY <3>2, <4>1, <4>2, <4>3
    <3>3. CASE j # b /\ j # n + 1
      <4>1. j \in 1 .. n /\ g[j] = es[j]
        BY <1>2, <1>7, <3>3
      <4>2. es[j].sib \in 0 .. n /\ es[j].lines \in 0 .. n
        BY <1>8, <4>1
      <4>3. ASSUME es[j].sib # 0 PROVE es[j].sib \in 1 .. n /\ g[es[j].sib] = es[es[j].sib]
        <5>1. es[j].sib \in 1 .. n
          BY <1>2, <4>2, <4>3
        <5>2. es[es[j].sib].sib = j
          BY <1>8, <4>1, <4>3
        <5>3. es[j].sib # b
          BY <1>2, <1>4, <4>1, <5>2
        <5> QED
          BY <1>7, <5>1, <5>3
      <4>4. CASE es[j].sib = 0
        BY <1>2, <4>1, <4>2, <4>4
      <4>5. CASE es[j].sib # 0
        <5>1. /\ es[es[j].sib].sib = j
              /\ es[j].fn = es[es[j].sib].fn /\ es[j].tid = es[es[j].sib].tid
          BY <1>8, <4>1, <4>5
        <5> QED
          BY <1>2, <4>1, <4>2, <4>3, <4>5, <5>1
      <4> QED
        BY <4>4, <4>5
    <3> QED
      BY <3>1, <3>2, <3>3
  <2> QED
    BY <1>6, <2>1 DEF Linked
<1>10. \A u \in Threads : \A k \in 1 .. Len(stk[u]) :
         /\ stk[u][k].begin \in 0 .. n
         /\ stk[u][k].begin # 0 =>
              /\ es[stk[u][k].begin].fn = stk[u][k].fn /\ es[stk[u][k].begin].tid = Tid(u)
              /\ stk[u][k].fn \notin Ignored
  BY DEF Sound, Refers
<1>11. Refers(g, stk)
  <2>1. ASSUME NEW u \in Threads, NEW k \in 1 .. Len(stk[u])
        PROVE  /\ stk[u][k].begin \in 0 .. n + 1
               /\ stk[u][k].begin # 0 =>
                    /\ g[stk[u][k].begin].fn = stk[u][k].fn /\ g[stk[u][k].begin].tid = Tid(u)
                    /\ stk[u][k].fn \notin Ignored
    <3> DEFINE x == stk[u][k].begin
    <3>1. /\ x \in 0 .. n
          /\ x # 0 => es[x].fn = stk[u][k].fn /\ es[x].tid = Tid(u) /\ stk[u][k].fn \notin Ignored
      BY <1>10
    <3> HIDE DEF x, n
    <3>2. x # 0 => g[x].fn = es[x].fn /\ g[x].tid = es[x].tid
      <4>1. CASE x = b
        <5>1. g[x] = p /\ p.fn = es[x].fn /\ p.tid = es[x].tid
          BY <1>3, <1>5, <1>7, <4>1
        <5> QED
          BY <5>1
      <4>2. CASE x # b
        <5>1. x # 0 => x \in 1 .. n
          BY <1>2, <3>1
        <5> QED
          BY <1>7, <4>2, <5>1
      <4> QED
        BY <4>1, <4>2
    <3>3. x \in 0 .. n + 1
      BY <1>2, <3>1
    <3> QED
      BY <3>1, <3>2, <3>3 DEF x
  <2> QED
    BY <1>6, <2>1 DEF Refers
<1>12. Sound(g, stk)
  BY <1>6, <1>9, <1>11 DEF Sound
<1> HIDE DEF n
<1>13. d \in [Threads -> Nat] /\ \A u \in Threads : d[u] \in Nat /\ d[u] <= Len(stk[u])
                                                  /\ Len(stk[u]) \in Nat
  BY <1>2 DEF Tracks, Placed, Depths, Stacks
<1>14. /\ c \in [Threads -> Nat] /\ c[t] = i - 1 /\ \A u \in Threads : u # t => c[u] = d[u]
  BY <1>13
<1> HIDE DEF c
<1>15. /\ \A u \in Threads : c[u] <= Len(stk[u])
       /\ \A u \in Threads : \A k \in 1 .. c[u] :
            k \in 1 .. d[u] /\ k \in 1 .. Len(stk[u]) /\ ~(u = t /\ k = i)
       /\ \A u \in Threads : \A k \in 1 .. d[u] : ~(u = t /\ k = i) => k \in 1 .. c[u]
  <2>1. ASSUME NEW u \in Threads
        PROVE  /\ c[u] <= Len(stk[u])
               /\ \A k \in 1 .. c[u] : k \in 1 .. d[u] /\ k \in 1 .. Len(stk[u]) /\ ~(u = t /\ k = i)
               /\ \A k \in 1 .. d[u] : ~(u = t /\ k = i) => k \in 1 .. c[u]
    <3>1. CASE u = t
      <4>1. c[u] = d[u] - 1 /\ d[u] = i
        BY <1>14, <3>1
      <4> HIDE DEF i
      <4> QED
        BY <1>13, <3>1, <4>1
    <3>2. CASE u # t
      <4>1. c[u] = d[u]
        BY <1>14, <3>2
      <4> QED
        BY <1>13, <3>2, <4>1
    <3> QED
      BY <3>1, <3>2
  <2> QED
    BY <2>1
<1>16. \A u \in Threads : \A k \in 1 .. d[u] :
         /\ stk[u][k].begin # 0 => es[stk[u][k].begin].sib = 0
         /\ stk[u][k].begin # 0 =>
              \A v \in Threads : \A m \in 1 .. d[v] :
                stk[v][m].begin = stk[u][k].begin => v = u /\ m = k
  BY DEF Tracks, Placed, Live
<1>17. \A u \in Threads : \A k \in 1 .. d[u] : stk[u][k].begin = b => u = t /\ k = i
  <2>1. i \in 1 .. d[t]
    BY <1>13
  <2> QED
    BY <1>16, <2>1
<1>18. Live(g, stk, c)
  <2> SUFFICES ASSUME NEW u \in Threads, NEW k \in 1 .. c[u], stk[u][k].begin # 0
               PROVE  /\ g[stk[u][k].begin].sib = 0
                      /\ \A v \in Threads : \A m \in 1 .. c[v] :
                           stk[v][m].begin = stk[u][k].begin => v = u /\ m = k
    BY DEF Live
  <2>1. k \in 1 .. d[u] /\ k \in 1 .. Len(stk[u]) /\ ~(u = t /\ k = i)
    BY <1>15
  <2>2. stk[u][k].begin \in 1 .. n /\ stk[u][k].begin # b
    <3>1. stk[u][k].begin \in 0 .. n
      BY <1>10, <2>1
    <3> QED
      BY <1>2, <1>17, <2>1, <3>1
  <2>3. g[stk[u][k].begin].sib = 0
    BY <1>7, <1>16, <2>1, <2>2
  <2>4. \A v \in Threads : \A m \in 1 .. c[v] :
          stk[v][m].begin = stk[u][k].begin => v = u /\ m = k
    BY <1>15, <1>16, <2>1
  <2> QED
    BY <2>3, <2>4
<1>19. Covered(g, stk, c)
  <2> SUFFICES ASSUME NEW j \in 1 .. n + 1, Begun(g[j])
               PROVE  \E u \in Threads : \E k \in 1 .. c[u] : stk[u][k].begin = j
    BY <1>6 DEF Covered
  <2>1. j # b /\ j # n + 1
    BY <1>2, <1>5, <1>7 DEF Begun
  <2>2. j \in 1 .. n /\ g[j] = es[j]
    BY <1>2, <1>7, <2>1
  <2>3. PICK u \in Threads : \E k \in 1 .. d[u] : stk[u][k].begin = j
    BY <2>2 DEF Tracks, Placed, Covered, n
  <2>4. PICK k \in 1 .. d[u] : stk[u][k].begin = j
    BY <2>3
  <2>5. k \in 1 .. c[u]
    BY <1>15, <2>1, <2>4
  <2> QED
    BY <2>4, <2>5
<1>20. Ordered(stk, d) /\ Ordered(stk, c)
  BY <1>15 DEF Tracks, Placed, Ordered
<1>21. ASSUME Owned(es), Opens(es, stk, d) PROVE Owned(g) /\ Opens(g, stk, c)
  <2>1. PICK own \in [Nat -> Nat] : Owns(es, own)
    BY <1>21 DEF Owned
  <2>2. es[b].op = "enter_scope" /\ i \in 1 .. d[t]
    <3>1. i \in 1 .. d[t]
      BY <1>13
    <3> QED
      BY <1>21, <3>1 DEF Opens
  <2>3. ASSUME NEW o \in b + 1 .. n, es[o].op = "enter_scope", es[o].tid = es[b].tid,
               es[o].tid # NoThread
        PROVE  g[o].sib # 0
    <3>1. o \in 1 .. n /\ o # b /\ o # 0 /\ b < o
      <4>1. \A x \in 1 .. n : \A y \in x + 1 .. n : y \in 1 .. n /\ y # x /\ y # 0 /\ x < y
        BY <1>2, IndexAfter
      <4> QED
        BY <1>3, <4>1
    <3>2. SUFFICES ASSUME es[o].sib = 0 PROVE FALSE
      BY <1>7, <3>1
    <3>3. Begun(es[o])
      BY <2>3, <3>2 DEF Begun
    <3>4. PICK u \in Threads : \E k \in 1 .. d[u] : stk[u][k].begin = o
      BY <3>1, <3>3 DEF Tracks, Placed, Covered, n
    <3>5. PICK k \in 1 .. d[u] : stk[u][k].begin = o
      BY <3>4
    <3>6. es[o].tid = Tid(u) /\ k \in 1 .. Len(stk[u])
      <4>1. k \in 1 .. Len(stk[u])
        BY <1>13, IndexWithin
      <4> QED
        BY <1>10, <3>1, <3>5, <4>1
    <3>7. Tid(u) = Tid(t) /\ Depths(stk, d) /\ Ordered(stk, d)
      BY <1>3, <2>3, <3>6 DEF Tracks, Placed
    <3>8. o \in Nat \ {0} /\ b \in Nat \ {0} /\ d[t] # 0
      BY <1>2, <1>3, <1>13, <2>2, <3>1, IndexNat
    <3>9. o <= b
      BY <3>5, <3>7, <3>8, HighestLast
    <3>10. \A x \in Nat, y \in Nat : ~(x < y /\ y <= x)
      OBVIOUS
    <3> QED
      BY <3>1, <3>8, <3>9, <3>10
  <2>4. EndsAt(es, g, n)
    <3> SUFFICES ASSUME NEW j \in 1 .. n
                 PROVE  /\ g[j].op = es[j].op /\ g[j].tid = es[j].tid /\ g[j].lines = es[j].lines
                        /\ \/ g[j].sib = es[j].sib
                           \/ /\ es[j].op = "enter_scope" /\ es[j].sib = 0
                              /\ g[j].sib = n + 1
                              /\ \A o \in j + 1 .. n :
                                   /\ es[o].op = "enter_scope" /\ es[o].tid = es[j].tid
                                   /\ es[o].tid # NoThread
                                   => g[o].sib # 0
      BY DEF EndsAt
    <3>1. CASE j = b
      <4>1. g[j] = p /\ p.tid = es[j].tid
        BY <1>3, <1>5, <1>7, <3>1
      <4> QED
        BY <1>4, <1>5, <2>2, <2>3, <3>1, <4>1
    <3>2. CASE j # b
      BY <1>7, <3>2
    <3> QED
      BY <3>1, <3>2
  <2>5. \A j \in 1 .. n : g[j].op = es[j].op
    BY <2>4 DEF EndsAt
  <2>6. Owns(g, own)
    <3>1. e.op \notin {"line_scope", "ignore_scope"} /\ e.sib \in 0 .. n /\ e.op # "enter_scope"
      <4>1. \A x \in 1 .. n : x \in 0 .. n
        BY <1>2
      <4> QED
        BY <1>3, <4>1
    <3>2. Linked(es) /\ Len(es) = n /\ Len(g) = n + 1 /\ e = g[n + 1]
      BY <1>6, <1>7 DEF Sound, n
    <3> QED
      BY <1>2, <2>1, <2>4, <3>1, <3>2, OwnsOn
  <2>7. Opens(g, stk, c)
    <3> SUFFICES ASSUME NEW u \in Threads, NEW k \in 1 .. c[u], stk[u][k].begin # 0
                 PROVE  g[stk[u][k].begin].op = "enter_scope"
      BY DEF Opens
    <3>1. k \in 1 .. d[u] /\ k \in 1 .. Len(stk[u])
      BY <1>15
    <3>2. stk[u][k].begin \in 1 .. n
      <4>1. \A x \in 0 .. n : x # 0 => x \in 1 .. n
        BY <1>2
      <4> QED
        BY <1>10, <3>1, <4>1
    <3> QED
      BY <1>21, <2>5, <3>1, <3>2 DEF Opens
  <2> QED
    BY <2>6, <2>7 DEF Owned
<1>22. Tracks(g, stk, c)
  BY <1>14, <1>15, <1>18, <1>19, <1>20, <1>21 DEF Tracks, Placed, Depths
<1> QED
  BY <1>3, <1>12, <1>22 DEF f, p, g, c, n

\* A line in the scope of the highest entry of a thread that is open: the begin
\* event has it as its last, and it the one that was the last before.
LEMMA LineSound ==
  ASSUME NEW es, NEW stk, Sound(es, stk), NEW d, Tracks(es, stk, d), NEW t \in Threads,
         d[t] \in 1 .. Len(stk[t]), NEW b, b = stk[t][d[t]].begin, b # 0,
         NEW e \in EventSet, e.op = "line_scope", e.sib = 0, e.lines = es[b].lines, e.tid = Tid(t)
  PROVE  LET g == [Append(es, e) EXCEPT ![b] = [es[b] EXCEPT !.lines = Len(es) + 1]]
         IN  Sound(g, stk) /\ Tracks(g, stk, d)
<1> DEFINE f == Append(es, e)
           n == Len(es)
           p == [es[b] EXCEPT !.lines = n + 1]
           g == [f EXCEPT ![b] = p]
           i == d[t]
<1>1. /\ f \in Seq(EventSet) /\ Len(f) = n + 1 /\ f[n + 1] = e
      /\ \A j \in 1 .. n : f[j] = es[j]
  BY AppendProperties DEF Sound
<1>2. n \in Nat /\ stk \in Stacks /\ es \in Seq(EventSet) /\ Linked(es)
  BY DEF Sound
<1>3. i \in 1 .. d[t] /\ b \in 1 .. n /\ es[b].tid = Tid(t) /\ es[b].sib = 0
  <2>1. i \in 1 .. d[t]
    OBVIOUS
  <2> QED
    BY <2>1, OpenType DEF Tracks, Placed, Live
<1>4. /\ \A j \in 1 .. n : es[j].lines \in 0 .. n
      /\ Depths(stk, d) /\ Ordered(stk, d) /\ b \in Nat \ {0} /\ d[t] # 0 /\ n + 1 \in Nat
      /\ \A u \in Threads : \A k \in 1 .. d[u] :
           stk[u][k].begin # 0 => es[stk[u][k].begin].tid = Tid(u)
  <2>1. \A j \in 1 .. n : es[j].lines \in 0 .. n
    BY <1>2 DEF Linked
  <2>2. Depths(stk, d) /\ Ordered(stk, d)
    BY DEF Tracks, Placed
  <2>3. \A u \in Threads : \A k \in 1 .. d[u] :
           stk[u][k].begin # 0 => es[stk[u][k].begin].tid = Tid(u)
    BY <2>2, OpenType
  <2>4. b \in Nat \ {0} /\ d[t] # 0 /\ n + 1 \in Nat
    BY <1>2, <1>3, IndexNat
  <2> QED
    BY <2>1, <2>2, <2>3, <2>4
<1>5. Sound(f, stk) /\ Placed(f, stk, d)
  <2>1. e.lines \in 0 .. Len(es) /\ ~Begun(e)
    BY <1>3, <1>4 DEF Begun
  <2> QED
    BY <2>1, AddSound, AddPlaced DEF Tracks
<1>6. /\ p \in EventSet /\ p.sib = es[b].sib /\ p.fn = es[b].fn /\ p.tid = es[b].tid
      /\ p.op = es[b].op /\ p.lines = n + 1
  <2>1. es[b] \in EventSet /\ n + 1 \in Nat
    BY <1>2, <1>3
  <2> HIDE DEF n
  <2> QED
    BY <2>1 DEF EventSet
<1> HIDE DEF f, p
<1>7. /\ g \in Seq(EventSet) /\ Len(g) = n + 1
      /\ \A j \in 1 .. n + 1 : g[j] = IF j = b THEN p ELSE f[j]
  <2> HIDE DEF n
  <2> QED
    BY <1>1, <1>2, <1>3, <1>6
<1> HIDE DEF g
<1>8. /\ g[n + 1] = e
      /\ \A j \in 1 .. n :
           /\ g[j].op = es[j].op /\ g[j].tid = es[j].tid /\ g[j].sib = es[j].sib
           /\ g[j].fn = es[j].fn /\ g[j].lines = IF j = b THEN n + 1 ELSE es[j].lines
  <2> HIDE DEF n
  <2>1. n + 1 # b /\ \A j \in 1 .. n : j \in 1 .. n + 1
    BY <1>2, <1>3
  <2>2. n + 1 \in 1 .. n + 1
    BY <1>2
  <2> QED
    BY <1>1, <1>6, <1>7, <2>1, <2>2
<1>9. Sound(g, stk) /\ Placed(g, stk, d)
  <2>1. ASSUME NEW j \in 1 .. n + 1
        PROVE  /\ g[j].sib = f[j].sib /\ g[j].fn = f[j].fn /\ g[j].tid = f[j].tid
               /\ g[j].lines \in 0 .. n + 1 /\ g[j].op = f[j].op
    <3>1. f[j].lines \in 0 .. n + 1
      BY <1>1, <1>5 DEF Sound, Linked
    <3>2. n + 1 \in 0 .. n + 1
      BY <1>2
    <3>3. f[b] = es[b]
      BY <1>1, <1>3
    <3> QED
      BY <1>6, <1>7, <3>1, <3>2, <3>3
  <2>2. Len(f) = n + 1 /\ Len(g) = n + 1
    BY <1>1, <1>7
  <2> HIDE DEF n
  <2> QED
    BY <1>5, <1>7, <2>1, <2>2, Reworded
<1>10. ASSUME Owned(es), Opens(es, stk, d) PROVE Owned(g) /\ Opens(g, stk, d)
  <2>1. PICK own \in [Nat -> Nat] : Owns(es, own)
    BY <1>10 DEF Owned
  <2>2. es[b].op = "enter_scope"
    BY <1>3, <1>10 DEF Opens
  <2>3. es[b].tid # NoThread
    BY <1>3, TidType
  <2>4. ASSUME NEW c \in 1 .. n, es[c].op = "enter_scope", es[c].tid = es[b].tid, es[c].sib = 0
        PROVE  c <= b
    <3>1. Begun(es[c]) /\ c # 0 /\ c \in Nat \ {0}
      BY <1>2, <2>3, <2>4, IndexNat DEF Begun
    <3>2. PICK u \in Threads : \E k \in 1 .. d[u] : stk[u][k].begin = c
      BY <3>1 DEF Tracks, Placed, Covered, n
    <3>3. PICK k \in 1 .. d[u] : stk[u][k].begin = c
      BY <3>2
    <3>4. es[c].tid = Tid(u)
      BY <1>4, <3>1, <3>3
    <3>5. Tid(u) = Tid(t)
      BY <1>3, <2>4, <3>4
    <3> QED
      BY <1>4, <3>1, <3>3, <3>5, HighestLast
  <2>5. Owns(g, [own EXCEPT ![n + 1] = b])
    <3>1. Len(es) = n
      OBVIOUS
    <3>2. LinesAt(es, g, b, n)
      BY <1>3, <1>8 DEF LinesAt
    <3>3. Innermost(es, b, n)
      BY <1>3, <2>2, <2>3, <2>4 DEF Innermost
    <3> HIDE DEF n
    <3> QED
      BY <1>2, <1>3, <1>7, <2>1, <3>1, <3>2, <3>3, LineOwns
  <2>6. [own EXCEPT ![n + 1] = b] \in [Nat -> Nat]
    <3>1. \A x \in Nat, y \in Nat : [own EXCEPT ![x] = y] \in [Nat -> Nat]
      OBVIOUS
    <3>2. n + 1 \in Nat /\ b \in Nat
      BY <1>4
    <3> QED
      BY <3>1, <3>2
  <2>7. Opens(g, stk, d)
    <3>1. \A u \in Threads : \A k \in 1 .. d[u] : stk[u][k].begin # 0 => stk[u][k].begin \in 1 .. n
      BY OpenType DEF Tracks, Placed
    <3>2. \A j \in 1 .. n : g[j].op = es[j].op
      BY <1>8
    <3> HIDE DEF n
    <3> QED
      BY <1>10, <3>1, <3>2 DEF Opens
  <2> QED
    BY <2>5, <2>6, <2>7 DEF Owned
<1> QED
  BY <1>9, <1>10 DEF f, p, g, n, Tracks

\* Extensions of extensions extend.
LEMMA ExtendsOn ==
  ASSUME NEW es, NEW f, NEW g, Len(es) \in Nat, Len(f) \in Nat, Len(g) \in Nat,
         Extends(es, f), Extends(f, g)
  PROVE  Extends(es, g)
<1>1. Len(es) <= Len(g)
  BY DEF Extends
<1>2. \A i \in 1 .. Len(es) : i \in 1 .. Len(f)
  BY DEF Extends
<1> QED
  BY <1>1, <1>2 DEF Extends

LEMMA ExtendsSelf == ASSUME NEW es, Len(es) \in Nat PROVE Extends(es, es)
BY DEF Extends

LEMMA LengthsOn ==
  ASSUME NEW stk, NEW new, NEW more, Lengths(stk, new), Lengths(new, more)
  PROVE  Lengths(stk, more)
BY DEF Lengths
-----------------------------------------------------------------------------
(* What hooks are made of *)

\* What is good is good of these kinds.
LEMMA GoodType ==
  ASSUME NEW r, NEW d, Good(r, d)
  PROVE  /\ r.err \in BOOLEAN /\ FilledWith(EventSet, r.pages)
         /\ Flat(r.pages) \in Seq(EventSet) /\ Len(Flat(r.pages)) \in Nat
         /\ Count(r.pages) = Len(Flat(r.pages))
         /\ r.stack \in Stacks /\ \A t \in Threads : Len(r.stack[t]) \in Nat
BY FlatType DEF Good, Sound, Stacks

\* What has failed need only be sound.
LEMMA GoodFailed ==
  ASSUME NEW r, NEW d, Good(r, d), NEW c, r.err
  PROVE  Good(r, c)
BY DEF Good

\* An event that finds a place.
LEMMA PutFlat ==
  ASSUME NEW r, FilledWith(EventSet, r.pages), NEW e \in EventSet, ~Full(r)
  PROVE  LET q == Put(r.pages, e)
         IN  /\ FilledWith(EventSet, q) /\ Flat(q) = Append(Flat(r.pages), e)
             /\ Count(q) = Len(Flat(r.pages)) + 1 /\ Len(Flat(q)) = Len(Flat(r.pages)) + 1
             /\ Extends(Flat(r.pages), Flat(q))
<1> DEFINE q == Put(r.pages, e)
           es == Flat(r.pages)
<1>1. ~Refuses(r.pages, FALSE)
  BY DEF Full, Refuses
<1>2. FilledWith(EventSet, q) /\ Count(q) = Count(r.pages) + 1 /\ Flat(q) = Append(es, e)
  BY <1>1, FlatPut
<1>3. es \in Seq(EventSet) /\ Len(es) = Count(r.pages) /\ Len(es) \in Nat
  BY FlatType
<1>4. /\ Len(Append(es, e)) = Len(es) + 1
      /\ \A i \in 1 .. Len(es) : Append(es, e)[i] = es[i]
  BY <1>3, AppendProperties
<1>5. Extends(es, Append(es, e))
  <2> HIDE DEF es
  <2> QED
    BY <1>3, <1>4 DEF Extends
<1> QED
  BY <1>2, <1>3, <1>4, <1>5

\* An event of its own, without which a hook may go on or fail.
LEMMA PutGood ==
  ASSUME NEW r, NEW d, Good(r, d), NEW e \in EventSet, Aside(e), ~Full(r)
  PROVE  LET w == [r EXCEPT !.pages = Put(@, e)]
         IN  /\ Good(w, d) /\ w.stack = r.stack /\ w.err = r.err
             /\ w.pages = Put(r.pages, e)
<1> DEFINE w == [r EXCEPT !.pages = Put(@, e)]
           q == Put(r.pages, e)
           es == Flat(r.pages)
<1>1. FilledWith(EventSet, q) /\ Flat(q) = Append(es, e)
  BY PutFlat DEF Good
<1>2. r = [pages |-> r.pages, stack |-> r.stack, err |-> r.err]
  BY DEF Good
<1> HIDE DEF q
<1>3. w = [pages |-> q, stack |-> r.stack, err |-> r.err]
  BY <1>2 DEF q
<1>4. Sound(Append(es, e), r.stack)
  <2>1. 0 \in 0 .. Len(es)
    BY GoodType
  <2> QED
    BY <2>1, AddSound DEF Good, Aside
<1>5. ~r.err => Tracks(Append(es, e), r.stack, d)
  BY AddTracks DEF Good
<1> HIDE DEF w
<1>6. w = [pages |-> w.pages, stack |-> w.stack, err |-> w.err]
  BY <1>3
<1>7. w.pages = q /\ w.stack = r.stack /\ w.err = r.err
  BY <1>3
<1>8. Good(w, d)
  <2>1. r.err \in BOOLEAN
    BY DEF Good
  <2> HIDE DEF es
  <2> QED
    BY <1>1, <1>4, <1>5, <1>6, <1>7, <2>1 DEF Good
<1> QED
  BY <1>7, <1>8 DEF w, q

LEMMA WantGood ==
  ASSUME NEW r, NEW d, Good(r, d), NEW e \in EventSet, Aside(e)
  PROVE  LET w == Want(r, e)
         IN  /\ Good(w, d) /\ w.stack = r.stack /\ w.err = r.err
             /\ Extends(Flat(r.pages), Flat(w.pages))
<1>1. CASE r.err \/ Full(r)
  <2>1. Want(r, e) = r
    BY <1>1 DEF Want
  <2>2. Extends(Flat(r.pages), Flat(r.pages))
    BY GoodType, ExtendsSelf
  <2> QED
    BY <2>1, <2>2
<1>2. CASE ~(r.err \/ Full(r))
  <2>1. Want(r, e) = [r EXCEPT !.pages = Put(@, e)]
    BY <1>2 DEF Want
  <2>2. Extends(Flat(r.pages), Flat(Put(r.pages, e)))
    BY <1>2, PutFlat DEF Good
  <2> QED
    BY <1>2, <2>1, <2>2, PutGood
<1> QED
  BY <1>1, <1>2

\* A hook that fails leaves what it has done.
LEMMA FailGood ==
  ASSUME NEW r, NEW d, Good(r, d), NEW c
  PROVE  LET w == [r EXCEPT !.err = TRUE]
         IN  Good(w, c) /\ w.stack = r.stack /\ w.err = TRUE /\ w.pages = r.pages
<1> DEFINE w == [r EXCEPT !.err = TRUE]
<1>1. r = [pages |-> r.pages, stack |-> r.stack, err |-> r.err]
  BY DEF Good
<1>2. w = [pages |-> r.pages, stack |-> r.stack, err |-> TRUE]
  <2> DEFINE yes == TRUE
             f == [r EXCEPT !.err = yes]
  <2>1. f = w
    OBVIOUS
  <2> HIDE DEF yes, w
  <2>2. f = [pages |-> r.pages, stack |-> r.stack, err |-> yes]
    BY <1>1
  <2> QED
    BY <2>1, <2>2, Zenon DEF yes
<1> HIDE DEF w
<1>3. w.pages = r.pages /\ w.stack = r.stack /\ w.err = TRUE
      /\ w = [pages |-> w.pages, stack |-> w.stack, err |-> w.err]
  BY <1>2
<1>4. Good(w, c)
  BY <1>3 DEF Good
<1> QED
  BY <1>3, <1>4 DEF w

LEMMA NeedGood ==
  ASSUME NEW r, NEW d, Good(r, d), NEW e \in EventSet, Aside(e)
  PROVE  LET w == Need(r, e)
         IN  /\ Good(w, d) /\ w.stack = r.stack /\ (r.err => w.err)
             /\ Extends(Flat(r.pages), Flat(w.pages))
<1>1. CASE r.err \/ Full(r)
  <2>1. Need(r, e) = [r EXCEPT !.err = TRUE]
    BY <1>1 DEF Need
  <2>2. Extends(Flat(r.pages), Flat(r.pages))
    BY GoodType, ExtendsSelf
  <2> QED
    BY <2>1, <2>2, FailGood
<1>2. CASE ~(r.err \/ Full(r))
  <2>1. Need(r, e) = [r EXCEPT !.pages = Put(@, e)]
    BY <1>2 DEF Need
  <2>2. Extends(Flat(r.pages), Flat(Put(r.pages, e)))
    BY <1>2, PutFlat DEF Good
  <2> QED
    BY <1>2, <2>1, <2>2, PutGood
<1> QED
  BY <1>1, <1>2

\* Events as they are made.
LEMMA NewEventType ==
  ASSUME NEW op \in Ops, NEW tid \in Tids, NEW unit \in Units, NEW fn \in Fns
  PROVE  LET e == NewEvent(op, tid, unit, fn)
         IN  /\ e \in EventSet /\ e.op = op /\ e.tid = tid /\ e.fn = fn
             /\ e.sib = 0 /\ e.lines = 0
             /\ \A b \in Nat : LET x == [e EXCEPT !.sib = b]
                               IN  /\ x \in EventSet /\ x.op = op /\ x.tid = tid /\ x.fn = fn
                                   /\ x.sib = b /\ x.lines = 0
             /\ \A b \in Nat : LET x == [e EXCEPT !.lines = b]
                               IN  /\ x \in EventSet /\ x.op = op /\ x.tid = tid /\ x.fn = fn
                                   /\ x.sib = 0 /\ x.lines = b
BY DEF NewEvent, EventSet, Units

\* An entry without a scope may be among those whose scopes are open, or not.
LEMMA EmptyEntry ==
  ASSUME NEW r, NEW d \in [Threads -> Nat], Good(r, d), NEW t \in Threads,
         NEW c \in [Threads -> Nat], \A u \in Threads : u # t => c[u] = d[u],
         c[t] <= Len(r.stack[t]),
         \A k \in 1 .. Len(r.stack[t]) :
           ~(k \in 1 .. d[t] <=> k \in 1 .. c[t]) => r.stack[t][k].begin = 0
  PROVE  Good(r, c)
<1> SUFFICES ASSUME ~r.err PROVE Tracks(Flat(r.pages), r.stack, c)
  BY DEF Good
<1>1. Tracks(Flat(r.pages), r.stack, d) /\ Flat(r.pages) \in Seq(EventSet) /\ r.stack \in Stacks
  BY DEF Good, Sound
<1>2. \A u \in Threads : d[u] \in Nat /\ c[u] \in Nat /\ d[u] <= Len(r.stack[u])
                         /\ Len(r.stack[u]) \in Nat
  BY <1>1 DEF Tracks, Placed, Depths, Stacks
<1>3. Depths(r.stack, c)
  BY <1>2 DEF Depths
<1>4. \A u \in Threads : \A k \in 1 .. c[u] : r.stack[u][k].begin # 0 => k \in 1 .. d[u]
  <2> TAKE u \in Threads
  <2> TAKE k \in 1 .. c[u]
  <2>1. CASE u = t
    <3>1. k \in 1 .. Len(r.stack[t])
      BY <1>2, <2>1
    <3> QED
      BY <2>1, <3>1
  <2>2. CASE u # t
    BY <2>2
  <2> QED
    BY <2>1, <2>2
<1>5. \A u \in Threads : \A k \in 1 .. d[u] : r.stack[u][k].begin # 0 => k \in 1 .. c[u]
  <2> TAKE u \in Threads
  <2> TAKE k \in 1 .. d[u]
  <2>1. CASE u = t
    <3>1. k \in 1 .. Len(r.stack[t])
      BY <1>2, <2>1
    <3> QED
      BY <2>1, <3>1
  <2>2. CASE u # t
    BY <2>2
  <2> QED
    BY <2>1, <2>2
<1> QED
  BY <1>1, <1>3, <1>4, <1>5, Retrack

\* An entry of a stack, and what is known of it.
LEMMA EntryType ==
  ASSUME NEW r, NEW d, Good(r, d), NEW t \in Threads, NEW i \in 1 .. Len(r.stack[t])
  PROVE  /\ r.stack[t][i].fn \in Fns /\ r.stack[t][i].begin \in 0 .. Len(Flat(r.pages))
         /\ r.stack[t][i].begin \in Nat
         /\ ~HasEvents(r.stack[t][i]) => r.stack[t][i].begin = 0
         /\ r.stack[t][i].begin # 0 => r.stack[t][i].begin \in 1 .. Len(Flat(r.pages))
<1>1. r.stack[t] \in Seq(EntrySet) /\ Len(Flat(r.pages)) \in Nat
  BY GoodType DEF Stacks
<1>2. r.stack[t][i] \in EntrySet
  BY <1>1
<1>3. /\ r.stack[t][i].begin \in 0 .. Len(Flat(r.pages))
      /\ r.stack[t][i].begin # 0 => r.stack[t][i].fn \notin Ignored
  BY DEF Good, Sound, Refers
<1> QED
  BY <1>1, <1>2, <1>3 DEF EntrySet, HasEvents

\* traceevent_enterscope for the first entry whose scope is not open.
LEMMA EnterGood ==
  ASSUME NEW r, NEW d \in [Threads -> Nat], Good(r, d), NEW t \in Threads,
         NEW i \in 1 .. Len(r.stack[t]), i = d[t] + 1, Alone(t, d), NEW unit \in Units
  PROVE  LET w == EnterScope(r, t, i, unit)
         IN  /\ Good(w, [d EXCEPT ![t] = i]) /\ Lengths(r.stack, w.stack)
             /\ r.err => w.err
             /\ Extends(Flat(r.pages), Flat(w.pages))
<1> DEFINE entry == r.stack[t][i]
           e == NewEvent("enter_scope", Tid(t), unit, entry.fn)
           s == Need(r, e)
           c == [d EXCEPT ![t] = i]
           es == Flat(r.pages)
           q == Put(r.pages, e)
           new == [r.stack EXCEPT ![t][i].begin = Len(es) + 1]
<1>1. /\ entry.fn \in Fns
      /\ ~HasEvents(entry) => entry.begin = 0
  BY EntryType
<1>2. /\ e \in EventSet /\ e.op = "enter_scope" /\ e.tid = Tid(t) /\ e.fn = entry.fn
      /\ e.sib = 0 /\ e.lines = 0
  BY <1>1, TidType, NewEventType DEF Ops
<1>3. c \in [Threads -> Nat] /\ c[t] = i /\ \A u \in Threads : u # t => c[u] = d[u]
  <2>1. i \in Nat
    OBVIOUS
  <2> QED
    BY <2>1
<1>4. Extends(es, es) /\ es \in Seq(EventSet) /\ Len(es) \in Nat /\ Lengths(r.stack, r.stack)
  BY GoodType, ExtendsSelf DEF Lengths
<1>5. EnterScope(r, t, i, unit) =
        IF ~HasEvents(entry) THEN r
        ELSE IF s.err THEN s ELSE [s EXCEPT !.stack[t][i].begin = Count(s.pages)]
  BY DEF EnterScope
<1>6. CASE ~HasEvents(entry)
  <2> HIDE DEF c, es
  <2>1. d[t] \in Nat
    OBVIOUS
  <2>2. i <= Len(r.stack[t])
    BY GoodType
  <2>3. \A k \in 1 .. Len(r.stack[t]) :
           ~(k \in 1 .. d[t] <=> k \in 1 .. c[t]) => r.stack[t][k].begin = 0
    <3> TAKE k \in 1 .. Len(r.stack[t])
    <3>1. k # i => (k \in 1 .. d[t] <=> k \in 1 .. c[t])
      BY <1>3, <2>1
    <3> QED
      BY <1>1, <1>6, <3>1
  <2>4. Good(r, c)
    BY <1>3, <2>2, <2>3, EmptyEntry
  <2> QED
    BY <1>4, <1>5, <1>6, <2>4 DEF c, es
<1>7. CASE HasEvents(entry) /\ (r.err \/ Full(r))
  <2>1. s = [r EXCEPT !.err = TRUE]
    BY <1>7 DEF Need
  <2> HIDE DEF s, c, es
  <2>2. Good(s, c) /\ s.stack = r.stack /\ s.err = TRUE /\ s.pages = r.pages
    BY <2>1, FailGood
  <2> QED
    BY <1>4, <1>5, <1>7, <2>2 DEF c, es
<1>8. CASE HasEvents(entry) /\ ~(r.err \/ Full(r))
  <2>1. s = [r EXCEPT !.pages = q]
    BY <1>8 DEF Need
  <2>2. r = [pages |-> r.pages, stack |-> r.stack, err |-> r.err] /\ FilledWith(EventSet, r.pages)
        /\ Sound(es, r.stack) /\ Tracks(es, r.stack, d) /\ ~r.err
    BY <1>8 DEF Good
  <2>3. /\ FilledWith(EventSet, q) /\ Flat(q) = Append(es, e) /\ Count(q) = Len(es) + 1
        /\ Extends(es, Flat(q))
    BY <1>2, <1>8, <2>2, PutFlat
  <2>4. entry.fn \notin Ignored
    BY <1>8 DEF HasEvents
  <2>5. Sound(Append(es, e), new) /\ Lengths(r.stack, new) /\ Tracks(Append(es, e), new, c)
    <3> HIDE DEF e, es
    <3> QED
      BY <1>2, <2>2, <2>4, BeginSound
  <2>6. s = [pages |-> q, stack |-> r.stack, err |-> r.err]
    <3> HIDE DEF s, q
    <3> QED
      BY <2>1, <2>2
  <2>7. s.pages = q /\ s.stack = r.stack /\ s.err = r.err
    <3> HIDE DEF s
    <3> QED
      BY <2>6
  <2> DEFINE w == [s EXCEPT !.stack[t][i].begin = Count(s.pages)]
  <2>8. w = [pages |-> q, stack |-> new, err |-> r.err]
    <3>1. w = [s EXCEPT !.stack = [s.stack EXCEPT ![t][i].begin = Count(s.pages)]]
      BY DEF w
    <3> HIDE DEF s, w
    <3>2. w = [s EXCEPT !.stack = new]
      BY <2>3, <2>7, <3>1
    <3> HIDE DEF new, q
    <3> QED
      BY <2>6, <3>2
  <2>9. EnterScope(r, t, i, unit) = w
    BY <1>5, <1>8, <2>2, <2>7
  <2> HIDE DEF w, c, new, q, es, e
  <2>10. w.pages = q /\ w.stack = new /\ w.err = r.err
         /\ w = [pages |-> w.pages, stack |-> w.stack, err |-> w.err]
    BY <2>8
  <2>11. Good(w, c)
    BY <2>2, <2>3, <2>5, <2>10 DEF Good
  <2> QED
    BY <2>2, <2>3, <2>5, <2>9, <2>10, <2>11 DEF c, es
<1> QED
  BY <1>6, <1>7, <1>8

\* traceevent_exitscope for the last entry whose scope is open.
LEMMA ExitGood ==
  ASSUME NEW r, NEW d \in [Threads -> Nat], Good(r, d), NEW t \in Threads,
         NEW i \in 1 .. Len(r.stack[t]), i = d[t], NEW unit \in Units
  PROVE  LET w == ExitScope(r, t, i, unit)
         IN  /\ Good(w, [d EXCEPT ![t] = i - 1]) /\ w.stack = r.stack
             /\ r.err => w.err
             /\ Extends(Flat(r.pages), Flat(w.pages))
<1> DEFINE entry == r.stack[t][i]
           b == entry.begin
           e == [NewEvent("exit_scope", Tid(t), unit, entry.fn) EXCEPT !.sib = b]
           s == Need(r, e)
           c == [d EXCEPT ![t] = i - 1]
           es == Flat(r.pages)
           q == Put(r.pages, e)
<1>1. /\ entry.fn \in Fns /\ b \in Nat /\ b \in 0 .. Len(es)
      /\ ~HasEvents(entry) => b = 0
      /\ b # 0 => b \in 1 .. Len(es)
  BY EntryType
<1>2. /\ e \in EventSet /\ e.op = "exit_scope" /\ e.tid = Tid(t) /\ e.fn = entry.fn
      /\ e.sib = b /\ e.lines = 0
  <2> HIDE DEF b, entry
  <2> QED
    BY <1>1, TidType, NewEventType DEF Ops
<1>3. c \in [Threads -> Nat] /\ c[t] = i - 1 /\ \A u \in Threads : u # t => c[u] = d[u]
  <2>1. i - 1 \in Nat
    OBVIOUS
  <2> QED
    BY <2>1
<1>4. Extends(es, es) /\ es \in Seq(EventSet) /\ Len(es) \in Nat
  BY GoodType, ExtendsSelf
<1>5. ExitScope(r, t, i, unit) =
        IF ~HasEvents(entry) THEN r
        ELSE IF s.err \/ b = 0 THEN s
        ELSE [s EXCEPT !.pages = Write(@, b, [At(s.pages, b) EXCEPT !.sib = Count(s.pages)])]
  BY DEF ExitScope
<1>6. ASSUME NEW w, Good(w, d), w.stack = r.stack, b = 0 PROVE Good(w, c)
  <2> HIDE DEF c, es, b
  <2>1. Len(r.stack[t]) \in Nat /\ d[t] \in Nat /\ i \in Nat
    BY GoodType
  <2>2. c[t] <= Len(w.stack[t])
    BY <1>3, <1>6, <2>1
  <2>3. \A k \in 1 .. Len(w.stack[t]) :
           ~(k \in 1 .. d[t] <=> k \in 1 .. c[t]) => w.stack[t][k].begin = 0
    <3> TAKE k \in 1 .. Len(w.stack[t])
    <3>1. k # i => (k \in 1 .. d[t] <=> k \in 1 .. c[t])
      BY <1>3, <2>1
    <3>2. w.stack[t][i].begin = 0
      BY <1>6 DEF b
    <3> QED
      BY <3>1, <3>2
  <2> QED
    BY <1>3, <1>6, <2>2, <2>3, EmptyEntry
<1>7. CASE ~HasEvents(entry)
  <2>1. Good(r, c)
    BY <1>1, <1>6, <1>7
  <2> QED
    BY <1>4, <1>5, <1>7, <2>1
<1>8. CASE HasEvents(entry) /\ (r.err \/ Full(r))
  <2>1. s = [r EXCEPT !.err = TRUE]
    BY <1>8 DEF Need
  <2> HIDE DEF s, c, es, b
  <2>2. Good(s, c) /\ s.stack = r.stack /\ s.err = TRUE /\ s.pages = r.pages
    BY <2>1, FailGood
  <2> QED
    BY <1>4, <1>5, <1>8, <2>2 DEF c, es
<1>9. CASE HasEvents(entry) /\ ~(r.err \/ Full(r)) /\ b = 0
  <2>1. ExitScope(r, t, i, unit) = s
    BY <1>5, <1>9
  <2>2. Aside(e)
    BY <1>2, <1>9 DEF Begun, Aside
  <2> HIDE DEF e, s, c
  <2>3. Good(s, d) /\ s.stack = r.stack /\ (r.err => s.err) /\ Extends(es, Flat(s.pages))
    BY <1>2, <1>9, <2>2, NeedGood DEF s
  <2>4. Good(s, c)
    BY <1>6, <1>9, <2>3
  <2> QED
    BY <2>1, <2>3, <2>4 DEF c
<1>10. CASE HasEvents(entry) /\ ~(r.err \/ Full(r)) /\ b # 0
  <2> DEFINE f == Append(es, e)
             p == [es[b] EXCEPT !.sib = Len(es) + 1]
             g == [f EXCEPT ![b] = p]
             x == Write(q, b, p)
  <2>1. s = [r EXCEPT !.pages = q]
    BY <1>10 DEF Need
  <2>2. r = [pages |-> r.pages, stack |-> r.stack, err |-> r.err] /\ FilledWith(EventSet, r.pages)
        /\ Sound(es, r.stack) /\ Tracks(es, r.stack, d) /\ ~r.err /\ r.err \in BOOLEAN
    BY <1>10 DEF Good
  <2>3. /\ FilledWith(EventSet, q) /\ Flat(q) = f /\ Count(q) = Len(es) + 1
        /\ Extends(es, f) /\ Len(f) = Len(es) + 1
    <3> HIDE DEF e
    <3> QED
      BY <1>2, <1>10, <2>2, PutFlat
  <2>4. b \in 1 .. Len(es) /\ Sound(g, r.stack) /\ Tracks(g, r.stack, c)
    <3> HIDE DEF e, es
    <3>1. d[t] \in 1 .. Len(r.stack[t]) /\ b = r.stack[t][d[t]].begin
      OBVIOUS
    <3>2. b # 0
      BY <1>10
    <3> HIDE DEF b
    <3>3. e.fn = r.stack[t][d[t]].fn
      BY <1>2
    <3>4. Sound(es, r.stack) /\ Tracks(es, r.stack, d)
      BY <2>2
    <3>5. e \in EventSet /\ e.op = "exit_scope" /\ e.sib = b /\ e.lines = 0 /\ e.tid = Tid(t)
      BY <1>2
    <3> QED
      BY <3>1, <3>2, <3>3, <3>4, <3>5, EndSound
  <2>5. s = [pages |-> q, stack |-> r.stack, err |-> r.err]
    <3> HIDE DEF s, q
    <3> QED
      BY <2>1, <2>2
  <2>6. s.pages = q /\ s.stack = r.stack /\ s.err = r.err
    <3> HIDE DEF s
    <3> QED
      BY <2>5
  <2>7. b \in 1 .. Count(q) /\ At(q, b) = es[b] /\ es[b] \in EventSet
    <3> HIDE DEF e, es, b, q
    <3>1. b \in 1 .. Count(q)
      BY <1>4, <2>3, <2>4
    <3>2. At(q, b) = Flat(q)[b]
      BY <2>3, <3>1, FlatType
    <3>3. f[b] = es[b]
      BY <1>2, <1>4, <2>4, AppendProperties
    <3> QED
      BY <1>4, <2>3, <2>4, <3>1, <3>2, <3>3
  <2>8. p \in EventSet /\ Key(p) = Key(es[b])
    <3>1. Len(es) + 1 \in Nat
      BY <1>4
    <3> HIDE DEF es, b
    <3> QED
      BY <2>7, <3>1 DEF EventSet, Key
  <2>9. FilledWith(EventSet, x) /\ Flat(x) = g
    <3> HIDE DEF p, q, f, b
    <3> QED
      BY <2>3, <2>7, <2>8, FlatWrite
  <2>10. Extends(es, g)
    <3> HIDE DEF p, e
    <3>1. /\ f \in Seq(EventSet) /\ Len(f) = Len(es) + 1
          /\ \A j \in 1 .. Len(es) : f[j] = es[j]
      BY <1>2, <1>4, AppendProperties
    <3> HIDE DEF f, es, b
    <3>2. Len(g) = Len(es) + 1 /\ \A j \in 1 .. Len(es) : g[j] = IF j = b THEN p ELSE es[j]
      BY <1>4, <2>4, <2>8, <3>1
    <3> HIDE DEF g
    <3>3. \A j \in 1 .. Len(es) : Key(g[j]) = Key(es[j])
      BY <2>8, <3>2
    <3>4. Len(es) <= Len(g)
      BY <1>4, <3>2
    <3> QED
      BY <3>3, <3>4 DEF Extends
  <2> DEFINE w == [s EXCEPT !.pages = Write(@, b, [At(s.pages, b) EXCEPT !.sib = Count(s.pages)])]
  <2>11. w = [pages |-> x, stack |-> r.stack, err |-> r.err]
    <3>1. w = [s EXCEPT !.pages = Write(s.pages, b, [At(s.pages, b) EXCEPT !.sib = Count(s.pages)])]
      BY DEF w
    <3> HIDE DEF s, w, b
    <3>2. w = [s EXCEPT !.pages = x]
      BY <2>3, <2>6, <2>7, <3>1
    <3> HIDE DEF x
    <3> QED
      BY <2>5, <3>2
  <2>12. ExitScope(r, t, i, unit) = w
    BY <1>5, <1>10, <2>2, <2>6
  <2> HIDE DEF w, c, g, x, es, e
  <2>13. w.pages = x /\ w.stack = r.stack /\ w.err = r.err
         /\ w = [pages |-> w.pages, stack |-> w.stack, err |-> w.err]
    BY <2>11
  <2>14. Good(w, c)
    BY <2>2, <2>4, <2>9, <2>13 DEF Good
  <2> QED
    BY <2>2, <2>9, <2>10, <2>12, <2>13, <2>14 DEF c, es
<1> QED
  BY <1>7, <1>8, <1>9, <1>10

\* A set of numbers that has 0 and the successor of each of its numbers has
\* all of them: what a recursive function does is proved with the set of the
\* arguments for which it does it.
LEMMA InductionOnNat ==
  ASSUME NEW A, 0 \in A, \A n \in Nat : n \in A => n + 1 \in A
  PROVE  \A n \in Nat : n \in A
<1> SUFFICES ASSUME NEW m \in Nat, m \notin A PROVE FALSE
  OBVIOUS
<1> DEFINE C == Nat \ A
<1>1. C \subseteq Nat /\ C # {}
  OBVIOUS
<1>2. PICK c \in C : \A e \in C : ~(<<e, c>> \in OpToRel(<, Nat))
  <2> HIDE DEF C
  <2> QED
    BY <1>1, NatLessThanWellFounded, WFMin
<1>3. c \in Nat /\ c # 0
  OBVIOUS
<1>4. c - 1 \in Nat /\ (c - 1) + 1 = c
  BY <1>3
<1>5. c - 1 \in C
  BY <1>4
<1>6. <<c - 1, c>> \in OpToRel(<, Nat)
  BY <1>3, <1>4 DEF OpToRel
<1> QED
  BY <1>2, <1>5, <1>6

\* after has what a hook has changed after each of the m scopes that it ends.
EndsUp(after, r, t, n, unit) ==
  /\ after[0] = r
  /\ \A m \in 1 .. Len(r.stack[t]) - n :
       after[m] = ExitScope(after[m - 1], t, Len(r.stack[t]) - m + 1, unit)
  /\ ExitAbove(r, t, n, unit) = after[Len(r.stack[t]) - n]

\* There is such a function.
LEMMA EndsUpExists ==
  ASSUME NEW r, NEW t, NEW n, NEW unit, Len(r.stack[t]) - n \in Nat
  PROVE  \E after : EndsUp(after, r, t, n, unit)
<1> DEFINE len == Len(r.stack[t])
           Deeper(u, m) == IF m = 0 THEN r ELSE ExitScope(u[m - 1], t, len - m + 1, unit)
           A == {k \in Nat : \E u : u = [m \in 0 .. k |-> Deeper(u, m)]}
           w == CHOOSE u : u = [m \in 0 .. len - n |-> Deeper(u, m)]
<1>1. 0 \in A
  <2>1. [m \in 0 .. 0 |-> r] = [m \in 0 .. 0 |-> Deeper([k \in 0 .. 0 |-> r], m)]
    OBVIOUS
  <2> QED
    BY <2>1
<1>2. ASSUME NEW k \in Nat, k \in A PROVE k + 1 \in A
  <2>1. PICK u : u = [m \in 0 .. k |-> Deeper(u, m)]
    BY <1>2
  <2> DEFINE v == [m \in 0 .. k + 1 |-> IF m = k + 1 THEN Deeper(u, m) ELSE u[m]]
  <2>2. \A m \in 0 .. k + 1 : v[m] = Deeper(v, m)
    <3> TAKE m \in 0 .. k + 1
    <3>1. m # 0 => m - 1 \in 0 .. k /\ v[m - 1] = u[m - 1]
      OBVIOUS
    <3>2. Deeper(v, m) = Deeper(u, m)
      BY <3>1
    <3>3. m # k + 1 => m \in 0 .. k
      OBVIOUS
    <3>4. \A j \in 0 .. k : u[j] = Deeper(u, j)
      <4> HIDE DEF Deeper
      <4> QED
        BY <2>1
    <3> HIDE DEF Deeper
    <3> QED
      BY <3>2, <3>3, <3>4
  <2>3. v = [m \in 0 .. k + 1 |-> Deeper(v, m)]
    <3>1. v = [m \in 0 .. k + 1 |-> v[m]]
      OBVIOUS
    <3> HIDE DEF v, Deeper
    <3> QED
      BY <2>2, <3>1
  <2> HIDE DEF v, Deeper
  <2> QED
    BY <2>3
<1>3. len - n \in A
  <2> HIDE DEF A
  <2> QED
    BY <1>1, <1>2, InductionOnNat
<1>4. w = [m \in 0 .. len - n |-> Deeper(w, m)]
  BY <1>3
<1>5. ExitAbove(r, t, n, unit) = w[len - n]
  BY DEF ExitAbove
<1>6. \A m \in 0 .. len - n : w[m] = Deeper(w, m)
  <2> HIDE DEF Deeper, w
  <2> QED
    BY <1>4
<1> HIDE DEF w
<1>7. w[0] = r /\ \A m \in 1 .. len - n : w[m] = ExitScope(w[m - 1], t, len - m + 1, unit)
  BY <1>6
<1> QED
  BY <1>5, <1>7 DEF EndsUp

\* The ends of all scopes above the n-th entry (traceevent_instrument and
\* traceevent_clear_stack).
LEMMA ExitAboveGood ==
  ASSUME NEW r, NEW d \in [Threads -> Nat], Good(r, d), NEW t \in Threads,
         d[t] = Len(r.stack[t]), NEW n \in 0 .. Len(r.stack[t]), NEW unit \in Units
  PROVE  LET w == ExitAbove(r, t, n, unit)
         IN  /\ Good(w, [d EXCEPT ![t] = n]) /\ w.stack = r.stack
             /\ r.err => w.err
             /\ Extends(Flat(r.pages), Flat(w.pages))
<1> DEFINE len == Len(r.stack[t])
           es == Flat(r.pages)
<1>1. len \in Nat /\ n \in Nat /\ n <= len /\ len - n \in Nat
  BY GoodType
<1>2. Len(es) \in Nat /\ Extends(es, es)
  BY GoodType, ExtendsSelf
<1>3. PICK u : EndsUp(u, r, t, n, unit)
  BY <1>1, EndsUpExists
<1> DEFINE A == {m \in Nat : m <= len - n =>
                   /\ Good(u[m], [d EXCEPT ![t] = len - m]) /\ u[m].stack = r.stack
                   /\ r.err => u[m].err
                   /\ Extends(es, Flat(u[m].pages))}
<1> HIDE DEF es
<1>4. 0 \in A
  <2>1. u[0] = r
    BY <1>3 DEF EndsUp
  <2>2. [d EXCEPT ![t] = len - 0] = d
    BY <1>1
  <2> HIDE DEF len
  <2> QED
    BY <1>2, <2>1, <2>2 DEF es
<1>5. ASSUME NEW m \in Nat, m \in A PROVE m + 1 \in A
  <2> SUFFICES ASSUME m + 1 <= len - n
               PROVE  /\ Good(u[m + 1], [d EXCEPT ![t] = len - (m + 1)])
                      /\ u[m + 1].stack = r.stack /\ (r.err => u[m + 1].err)
                      /\ Extends(es, Flat(u[m + 1].pages))
    OBVIOUS
  <2> DEFINE i == len - m
             c == [d EXCEPT ![t] = i]
             v == u[m]
             w == u[m + 1]
  <2>1. m <= len - n /\ m + 1 \in 1 .. len - n /\ (m + 1) - 1 = m
        /\ i \in 1 .. len /\ len - (m + 1) + 1 = i /\ len - (m + 1) = i - 1
        /\ i \in Nat /\ i - 1 \in Nat
    BY <1>1
  <2>2. Good(v, c) /\ v.stack = r.stack /\ (r.err => v.err) /\ Extends(es, Flat(v.pages))
    BY <1>5, <2>1
  <2>3. w = ExitScope(v, t, i, unit)
    <3>1. w = ExitScope(u[(m + 1) - 1], t, len - (m + 1) + 1, unit)
      BY <1>3, <2>1 DEF EndsUp
    <3> HIDE DEF w, i, len
    <3> QED
      BY <2>1, <3>1
  <2>4. c \in [Threads -> Nat] /\ c[t] = i /\ [c EXCEPT ![t] = i - 1] = [d EXCEPT ![t] = i - 1]
    <3> HIDE DEF i
    <3> QED
      BY <2>1
  <2>5. i \in 1 .. Len(v.stack[t]) /\ i = c[t]
    BY <2>1, <2>2, <2>4
  <2> HIDE DEF w, v, c, i, len
  <2>6. /\ Good(w, [c EXCEPT ![t] = i - 1]) /\ w.stack = v.stack /\ (v.err => w.err)
        /\ Extends(Flat(v.pages), Flat(w.pages))
    BY <2>2, <2>3, <2>4, <2>5, ExitGood
  <2>7. Extends(es, Flat(w.pages))
    BY <1>2, <2>2, <2>6, GoodType, ExtendsOn
  <2>8. Good(w, [d EXCEPT ![t] = len - (m + 1)])
    BY <2>1, <2>4, <2>6
  <2> QED
    BY <2>2, <2>6, <2>7, <2>8 DEF w
<1>6. len - n \in A
  <2> HIDE DEF A, len
  <2> QED
    BY <1>1, <1>4, <1>5, InductionOnNat
<1>7. ExitAbove(r, t, n, unit) = u[len - n]
  BY <1>3 DEF EndsUp
<1>8. len - n <= len - n /\ len - (len - n) = n
  BY <1>1
<1> HIDE DEF len
<1>9. /\ Good(u[len - n], [d EXCEPT ![t] = n]) /\ u[len - n].stack = r.stack
      /\ r.err => u[len - n].err
      /\ Extends(es, Flat(u[len - n].pages))
  BY <1>6, <1>8
<1> QED
  BY <1>7, <1>9 DEF es

\* after has what a hook has changed after each of the m scopes that it begins.
BeginsUp(after, r, t, unit) ==
  /\ after[0] = r
  /\ \A m \in 1 .. Len(r.stack[t]) : after[m] = EnterScope(after[m - 1], t, m, unit)
  /\ EnterAll(r, t, unit) = after[Len(r.stack[t])]

\* There is such a function.
LEMMA BeginsUpExists ==
  ASSUME NEW r, NEW t, NEW unit, Len(r.stack[t]) \in Nat
  PROVE  \E after : BeginsUp(after, r, t, unit)
<1> DEFINE len == Len(r.stack[t])
           Deeper(u, m) == IF m = 0 THEN r ELSE EnterScope(u[m - 1], t, m, unit)
           A == {k \in Nat : \E u : u = [m \in 0 .. k |-> Deeper(u, m)]}
           w == CHOOSE u : u = [m \in 0 .. len |-> Deeper(u, m)]
<1>1. 0 \in A
  <2>1. [m \in 0 .. 0 |-> r] = [m \in 0 .. 0 |-> Deeper([k \in 0 .. 0 |-> r], m)]
    OBVIOUS
  <2> QED
    BY <2>1
<1>2. ASSUME NEW k \in Nat, k \in A PROVE k + 1 \in A
  <2>1. PICK u : u = [m \in 0 .. k |-> Deeper(u, m)]
    BY <1>2
  <2> DEFINE v == [m \in 0 .. k + 1 |-> IF m = k + 1 THEN Deeper(u, m) ELSE u[m]]
  <2>2. \A m \in 0 .. k + 1 : v[m] = Deeper(v, m)
    <3> TAKE m \in 0 .. k + 1
    <3>1. m # 0 => m - 1 \in 0 .. k /\ v[m - 1] = u[m - 1]
      OBVIOUS
    <3>2. Deeper(v, m) = Deeper(u, m)
      BY <3>1
    <3>3. m # k + 1 => m \in 0 .. k
      OBVIOUS
    <3>4. \A j \in 0 .. k : u[j] = Deeper(u, j)
      <4> HIDE DEF Deeper
      <4> QED
        BY <2>1
    <3> HIDE DEF Deeper
    <3> QED
      BY <3>2, <3>3, <3>4
  <2>3. v = [m \in 0 .. k + 1 |-> Deeper(v, m)]
    <3>1. v = [m \in 0 .. k + 1 |-> v[m]]
      OBVIOUS
    <3> HIDE DEF v, Deeper
    <3> QED
      BY <2>2, <3>1
  <2> HIDE DEF v, Deeper
  <2> QED
    BY <2>3
<1>3. len \in A
  <2> HIDE DEF A
  <2> QED
    BY <1>1, <1>2, InductionOnNat
<1>4. w = [m \in 0 .. len |-> Deeper(w, m)]
  BY <1>3
<1>5. EnterAll(r, t, unit) = w[len]
  BY DEF EnterAll
<1>6. \A m \in 0 .. len : w[m] = Deeper(w, m)
  <2> HIDE DEF Deeper, w
  <2> QED
    BY <1>4
<1> HIDE DEF w
<1>7. w[0] = r /\ \A m \in 1 .. len : w[m] = EnterScope(w[m - 1], t, m, unit)
  BY <1>6
<1> QED
  BY <1>5, <1>7 DEF BeginsUp

\* The begins of all scopes of a stack (traceevent_append_stack).
LEMMA EnterAllGood ==
  ASSUME NEW r, NEW d \in [Threads -> Nat], Good(r, d), NEW t \in Threads,
         d[t] = 0, Alone(t, d), NEW unit \in Units
  PROVE  LET w == EnterAll(r, t, unit)
         IN  /\ Good(w, [d EXCEPT ![t] = Len(r.stack[t])]) /\ Lengths(r.stack, w.stack)
             /\ r.err => w.err
             /\ Extends(Flat(r.pages), Flat(w.pages))
<1> DEFINE len == Len(r.stack[t])
           es == Flat(r.pages)
<1>1. len \in Nat
  BY GoodType
<1>2. Len(es) \in Nat /\ Extends(es, es)
  BY GoodType, ExtendsSelf
<1>3. PICK u : BeginsUp(u, r, t, unit)
  BY <1>1, BeginsUpExists
<1> DEFINE A == {m \in Nat : m <= len =>
                   /\ Good(u[m], [d EXCEPT ![t] = m]) /\ Lengths(r.stack, u[m].stack)
                   /\ r.err => u[m].err
                   /\ Extends(es, Flat(u[m].pages))}
<1> HIDE DEF es
<1>4. 0 \in A
  <2>1. u[0] = r
    BY <1>3 DEF BeginsUp
  <2>2. [d EXCEPT ![t] = 0] = d
    OBVIOUS
  <2>3. Lengths(r.stack, r.stack)
    BY DEF Lengths
  <2> HIDE DEF len
  <2> QED
    BY <1>2, <2>1, <2>2, <2>3 DEF es
<1>5. ASSUME NEW m \in Nat, m \in A PROVE m + 1 \in A
  <2> SUFFICES ASSUME m + 1 <= len
               PROVE  /\ Good(u[m + 1], [d EXCEPT ![t] = m + 1])
                      /\ Lengths(r.stack, u[m + 1].stack) /\ (r.err => u[m + 1].err)
                      /\ Extends(es, Flat(u[m + 1].pages))
    OBVIOUS
  <2> DEFINE i == m + 1
             c == [d EXCEPT ![t] = m]
             v == u[m]
             w == u[m + 1]
  <2>1. m <= len /\ i \in 1 .. len /\ i - 1 = m /\ i \in Nat
    BY <1>1
  <2>2. Good(v, c) /\ Lengths(r.stack, v.stack) /\ (r.err => v.err) /\ Extends(es, Flat(v.pages))
    BY <1>5, <2>1
  <2>3. w = EnterScope(v, t, i, unit)
    <3>1. u[i] = EnterScope(u[i - 1], t, i, unit)
      BY <1>3, <2>1 DEF BeginsUp
    <3> QED
      BY <2>1, <3>1
  <2>4. c \in [Threads -> Nat] /\ c[t] = m /\ [c EXCEPT ![t] = i] = [d EXCEPT ![t] = i]
    <3> HIDE DEF i
    <3> QED
      BY <2>1
  <2>5. i \in 1 .. Len(v.stack[t]) /\ i = c[t] + 1
    BY <2>1, <2>2, <2>4 DEF Lengths
  <2>10. Alone(t, c)
    BY DEF Alone
  <2> HIDE DEF w, v, c, i, len
  <2>6. /\ Good(w, [c EXCEPT ![t] = i]) /\ Lengths(v.stack, w.stack) /\ (v.err => w.err)
        /\ Extends(Flat(v.pages), Flat(w.pages))
    BY <2>2, <2>3, <2>4, <2>5, <2>10, EnterGood
  <2>7. Extends(es, Flat(w.pages))
    BY <1>2, <2>2, <2>6, GoodType, ExtendsOn
  <2>8. Lengths(r.stack, w.stack)
    BY <2>2, <2>6, LengthsOn
  <2>9. Good(w, [d EXCEPT ![t] = i])
    BY <2>4, <2>6
  <2> QED
    BY <2>2, <2>6, <2>7, <2>8, <2>9 DEF w, i
<1>6. len \in A
  <2> HIDE DEF A, len
  <2> QED
    BY <1>1, <1>4, <1>5, InductionOnNat
<1>7. EnterAll(r, t, unit) = u[len]
  BY <1>3 DEF BeginsUp
<1>8. len <= len
  BY <1>1
<1> HIDE DEF len
<1>9. /\ Good(u[len], [d EXCEPT ![t] = len]) /\ Lengths(r.stack, u[len].stack)
      /\ r.err => u[len].err
      /\ Extends(es, Flat(u[len].pages))
  BY <1>6, <1>8
<1> QED
  BY <1>7, <1>9 DEF es, len
-----------------------------------------------------------------------------
(* Hooks *)

\* The lowest entries with open scopes, as numbers, for stacks of one length.
LEMMA DepthType ==
  ASSUME NEW stk \in Stacks, NEW c
  PROVE  /\ OpenDepth(c, stk) \in [Threads -> Nat]
         /\ \A t \in Threads : /\ OpenDepth(c, stk)[t] \in Nat
                               /\ OpenDepth(c, stk)[t] <= Len(stk[t])
         /\ \A new : Lengths(stk, new) => OpenDepth(c, new) = OpenDepth(c, stk)
BY DEF OpenDepth, Stacks, Lengths

\* traceevent_clear_stack: with its scopes ended no thread is the running one.
LEMMA ClearGood ==
  ASSUME NEW r, NEW c \in Threads, Good(r, OpenDepth(c, r.stack)), NEW unit \in Units
  PROVE  LET w == ClearStack(r, c, unit)
         IN  /\ Good(w, OpenDepth(NoThread, r.stack)) /\ w.stack = r.stack
             /\ Extends(Flat(r.pages), Flat(w.pages))
<1> DEFINE ended == ExitAbove(r, c, 0, unit)
           end == NewEvent("end_routine", Main, unit, Root)
           closed == IF conf.split THEN r ELSE Need(ended, end)
           frame == FrameEvent("end_frame", unit)
           d == OpenDepth(NoThread, r.stack)
           es == Flat(r.pages)
<1>1. end \in EventSet /\ Aside(end) /\ frame \in EventSet /\ Aside(frame)
  BY Constants, NewEventType DEF Ops, Tids, Fns, Begun, FrameEvent, Aside
<1>2. Len(es) \in Nat /\ Extends(es, es) /\ r.stack \in Stacks
  BY GoodType, ExtendsSelf
<1> HIDE DEF end, frame, d, es
<1>3. Good(closed, d) /\ closed.stack = r.stack /\ Extends(es, Flat(closed.pages))
  <2>1. CASE conf.split
    <3>1. OpenDepth(c, r.stack) = d
      BY <2>1 DEF OpenDepth, d
    <3> QED
      BY <1>2, <2>1, <3>1 DEF es
  <2>2. CASE ~conf.split
    <3> DEFINE a == OpenDepth(c, r.stack)
    <3>1. a \in [Threads -> Nat] /\ a[c] = Len(r.stack[c])
      BY <1>2, DepthType DEF OpenDepth
    <3>2. [a EXCEPT ![c] = 0] = d
      BY <2>2, Constants DEF OpenDepth, d
    <3>3. 0 \in 0 .. Len(r.stack[c])
      BY GoodType
    <3> HIDE DEF a, ended
    <3>4. /\ Good(ended, [a EXCEPT ![c] = 0]) /\ ended.stack = r.stack
          /\ Extends(es, Flat(ended.pages))
      <4>1. Good(r, a)
        BY DEF a
      <4> QED
        BY <3>1, <3>3, <4>1, ExitAboveGood DEF ended, es
    <3>5. Good(ended, d)
      BY <3>2, <3>4
    <3>6. /\ Good(Need(ended, end), d) /\ Need(ended, end).stack = ended.stack
          /\ Extends(Flat(ended.pages), Flat(Need(ended, end).pages))
      BY <1>1, <3>5, NeedGood
    <3>7. Extends(es, Flat(Need(ended, end).pages))
      BY <1>2, <3>4, <3>5, <3>6, GoodType, ExtendsOn
    <3> QED
      BY <2>2, <3>4, <3>6, <3>7
  <2> QED
    BY <2>1, <2>2
<1>4. ClearStack(r, c, unit) = IF conf.draw THEN Want(closed, frame) ELSE closed
  BY DEF ClearStack, frame, end
<1> HIDE DEF closed
<1>5. CASE conf.draw
  <2>1. /\ Good(Want(closed, frame), d) /\ Want(closed, frame).stack = closed.stack
        /\ Extends(Flat(closed.pages), Flat(Want(closed, frame).pages))
    BY <1>1, <1>3, WantGood
  <2>2. Extends(es, Flat(Want(closed, frame).pages))
    BY <1>2, <1>3, <2>1, GoodType, ExtendsOn
  <2> QED
    BY <1>3, <1>4, <1>5, <2>1, <2>2 DEF d, es
<1>6. CASE ~conf.draw
  BY <1>3, <1>4, <1>6 DEF d, es
<1> QED
  BY <1>5, <1>6

\* traceevent_append_stack: with its scopes begun t is the running thread.
LEMMA AppendGood ==
  ASSUME NEW r, Good(r, OpenDepth(NoThread, r.stack)), NEW t \in Threads, NEW unit \in Units
  PROVE  LET w == AppendStack(r, t, unit)
         IN  /\ Good(w, OpenDepth(t, r.stack)) /\ Lengths(r.stack, w.stack)
             /\ Extends(Flat(r.pages), Flat(w.pages))
<1> DEFINE frame == FrameEvent("begin_frame", unit)
           framed == IF conf.draw THEN Want(r, frame) ELSE r
           begin == NewEvent("begin_routine", Main, unit, Root)
           routine == Need(framed, begin)
           all == EnterAll(routine, t, unit)
           d == OpenDepth(NoThread, r.stack)
           c == OpenDepth(t, r.stack)
           es == Flat(r.pages)
<1>1. begin \in EventSet /\ Aside(begin) /\ frame \in EventSet /\ Aside(frame)
  BY Constants, NewEventType DEF Ops, Tids, Fns, Begun, FrameEvent, Aside
<1>2. Len(es) \in Nat /\ Extends(es, es) /\ r.stack \in Stacks
  BY GoodType, ExtendsSelf
<1>3. Lengths(r.stack, r.stack)
  BY DEF Lengths
<1> HIDE DEF begin, frame, d, c, es
<1>4. Good(framed, d) /\ framed.stack = r.stack /\ Extends(es, Flat(framed.pages))
  <2>1. CASE conf.draw
    BY <1>1, <2>1, WantGood DEF d, es
  <2>2. CASE ~conf.draw
    BY <1>2, <2>2 DEF d, es
  <2> QED
    BY <2>1, <2>2
<1>5. AppendStack(r, t, unit) = IF conf.split THEN framed ELSE all
  BY DEF AppendStack, frame, begin
<1> HIDE DEF framed
<1>6. CASE conf.split
  <2>1. c = d
    BY <1>6 DEF c, d, OpenDepth
  <2> QED
    BY <1>3, <1>4, <1>5, <1>6, <2>1 DEF c, es
<1>7. CASE ~conf.split
  <2>1. Alone(t, d)
    BY <1>7, Constants DEF Alone, d, OpenDepth
  <2>2. /\ Good(routine, d) /\ routine.stack = r.stack
        /\ Extends(Flat(framed.pages), Flat(routine.pages))
    BY <1>1, <1>4, NeedGood
  <2> HIDE DEF routine
  <2>3. Extends(es, Flat(routine.pages))
    BY <1>2, <1>4, <2>2, GoodType, ExtendsOn
  <2>4. d \in [Threads -> Nat] /\ d[t] = 0
    <3>1. d \in [Threads -> Nat]
      BY <1>2, DepthType DEF d
    <3>2. d[t] = 0
      BY <1>7, Constants DEF d, OpenDepth
    <3> QED
      BY <3>1, <3>2
  <2>5. [d EXCEPT ![t] = Len(r.stack[t])] = c
    BY <1>7, Constants DEF c, d, OpenDepth
  <2>6. /\ Good(all, [d EXCEPT ![t] = Len(routine.stack[t])]) /\ Lengths(routine.stack, all.stack)
        /\ Extends(Flat(routine.pages), Flat(all.pages))
    BY <2>1, <2>2, <2>4, EnterAllGood
  <2> HIDE DEF all
  <2>7. Good(all, c) /\ Lengths(r.stack, all.stack)
    BY <2>2, <2>5, <2>6
  <2>8. Extends(es, Flat(all.pages))
    BY <1>2, <2>2, <2>3, <2>6, GoodType, ExtendsOn
  <2> QED
    BY <1>5, <1>7, <2>7, <2>8 DEF c, es
<1> QED
  BY <1>6, <1>7

\* lmprof_thread_stacktable_get: the root, and the calls in progress.
LEMMA NewStackType ==
  ASSUME NEW t \in Threads
  PROVE  /\ NewStack(t) \in Seq(EntrySet) /\ Len(NewStack(t)) \in Nat \ {0}
         /\ \A k \in 1 .. Len(NewStack(t)) :
              /\ NewStack(t)[k].begin = 0
              /\ IF k = 1 THEN NewStack(t)[k].fn = Root ELSE NewStack(t)[k].fn \in Funcs
<1> DEFINE s == Loaded(t)
           n == Len(s)
           x == <<Entry(Root)>> \o s
<1>1. \A f \in Fns : Entry(f) \in EntrySet /\ Entry(f).fn = f /\ Entry(f).begin = 0
  BY DEF Entry, EntrySet
<1>2. /\ s \in Seq(EntrySet) /\ n \in Nat
      /\ \A k \in 1 .. n : s[k].fn \in Funcs /\ s[k].begin = 0
  <2>1. CASE conf.load /\ t = Main
    <3> DEFINE b == [i \in 1 .. Len(BaseFrames) |-> Entry(BaseFrames[i])]
    <3>1. /\ Len(BaseFrames) \in Nat /\ DOMAIN BaseFrames = 1 .. Len(BaseFrames)
          /\ \A i \in 1 .. Len(BaseFrames) : BaseFrames[i] \in Funcs
      BY RecordingAssumption
    <3>2. s = b
      BY <2>1, <3>1 DEF Loaded
    <3>3. \A i \in 1 .. Len(BaseFrames) :
            Entry(BaseFrames[i]) \in EntrySet /\ Entry(BaseFrames[i]).fn \in Funcs
            /\ Entry(BaseFrames[i]).begin = 0
      BY <1>1, <3>1 DEF Fns
    <3>4. b \in Seq(EntrySet) /\ Len(b) = Len(BaseFrames)
      BY <3>1, <3>3
    <3> HIDE DEF s
    <3> QED
      BY <3>1, <3>2, <3>3, <3>4
  <2>2. CASE ~(conf.load /\ t = Main)
    <3>1. s = <<>>
      BY <2>2 DEF Loaded
    <3> HIDE DEF s
    <3> QED
      BY <3>1
  <2> QED
    BY <2>1, <2>2
<1>3. Entry(Root) \in EntrySet /\ Entry(Root).fn = Root /\ Entry(Root).begin = 0
  BY <1>1 DEF Fns
<1> HIDE DEF s
<1>4. /\ x \in Seq(EntrySet) /\ Len(x) = n + 1 /\ x[1] = Entry(Root)
      /\ \A k \in 2 .. n + 1 : x[k] = s[k - 1]
  BY <1>2, <1>3
<1>5. x = NewStack(t)
  BY DEF NewStack, s
<1> HIDE DEF x
<1>6. ASSUME NEW k \in 1 .. n + 1
      PROVE  x[k].begin = 0 /\ IF k = 1 THEN x[k].fn = Root ELSE x[k].fn \in Funcs
  <2>1. CASE k = 1
    BY <1>3, <1>4, <2>1
  <2>2. CASE k # 1
    <3>1. k \in 2 .. n + 1 /\ k - 1 \in 1 .. n
      BY <1>2, <2>2
    <3> QED
      BY <1>2, <1>4, <2>2, <3>1
  <2> QED
    BY <2>1, <2>2
<1>7. n + 1 \in Nat \ {0}
  BY <1>2
<1> QED
  BY <1>4, <1>5, <1>6, <1>7

\* A stack that is new has no scopes yet.
LEMMA MadeGood ==
  ASSUME NEW r, Good(r, OpenDepth(NoThread, r.stack)), NEW t \in Threads, r.stack[t] = <<>>
  PROVE  LET w == [r EXCEPT !.stack[t] = NewStack(t)]
         IN  /\ Good(w, OpenDepth(NoThread, w.stack)) /\ w.pages = r.pages /\ w.stack[t] # <<>>
             /\ w.stack \in Stacks
<1> DEFINE s == NewStack(t)
           n == Len(s)
           new == [r.stack EXCEPT ![t] = s]
           w == [r EXCEPT !.stack[t] = s]
           es == Flat(r.pages)
           d == OpenDepth(NoThread, r.stack)
           c == OpenDepth(NoThread, new)
<1>1. /\ s \in Seq(EntrySet) /\ n \in Nat \ {0}
      /\ \A k \in 1 .. n : /\ s[k].begin = 0
                           /\ IF k = 1 THEN s[k].fn = Root ELSE s[k].fn \in Funcs
  BY NewStackType
<1>2. r.stack \in Stacks /\ Len(es) \in Nat /\ es \in Seq(EventSet)
  BY GoodType
<1> HIDE DEF s
<1>3. new \in Stacks /\ new[t] = s /\ \A u \in Threads : u # t => new[u] = r.stack[u]
  BY <1>1, <1>2 DEF Stacks
<1>4. r = [pages |-> r.pages, stack |-> r.stack, err |-> r.err]
  BY DEF Good
<1>5. w = [pages |-> r.pages, stack |-> new, err |-> r.err]
  BY <1>4
<1> HIDE DEF w, new
<1>6. w.pages = r.pages /\ w.stack = new /\ w.err = r.err
      /\ w = [pages |-> w.pages, stack |-> w.stack, err |-> w.err]
  BY <1>5
<1>7. Sound(es, new)
  <2>1. Sound(es, r.stack)
    BY DEF Good
  <2>2. Rooted(new)
    <3> SUFFICES ASSUME NEW u \in Threads, NEW k \in 1 .. Len(new[u])
                 PROVE  IF k = 1 THEN new[u][k].fn = Root ELSE new[u][k].fn \in Funcs
      BY DEF Rooted
    <3>1. CASE u = t
      BY <1>1, <1>3, <3>1
    <3>2. CASE u # t
      BY <1>3, <2>1, <3>2 DEF Sound, Rooted
    <3> QED
      BY <3>1, <3>2
  <2>3. Refers(es, new)
    <3> SUFFICES ASSUME NEW u \in Threads, NEW k \in 1 .. Len(new[u])
                 PROVE  /\ new[u][k].begin \in 0 .. Len(es)
                        /\ new[u][k].begin # 0 =>
                             /\ es[new[u][k].begin].fn = new[u][k].fn
                             /\ es[new[u][k].begin].tid = Tid(u)
                             /\ new[u][k].fn \notin Ignored
      BY DEF Refers
    <3>1. CASE u = t
      <4>1. new[u][k].begin = 0
        BY <1>1, <1>3, <3>1
      <4> HIDE DEF es
      <4> QED
        BY <1>2, <4>1
    <3>2. CASE u # t
      BY <1>3, <2>1, <3>2 DEF Sound, Refers
    <3> QED
      BY <3>1, <3>2
  <2> QED
    BY <1>3, <2>1, <2>2, <2>3 DEF Sound
<1>8. ASSUME ~r.err PROVE Tracks(es, new, c)
  <2>1. Tracks(es, r.stack, d)
    BY <1>8 DEF Good
  <2>2. Depths(new, c)
    BY <1>3, DepthType DEF Depths
  <2>3. d \in [Threads -> Nat] /\ \A u \in Threads : d[u] \in Nat /\ d[u] <= Len(r.stack[u])
    BY <1>2, DepthType
  <2>4. \A u \in Threads : u # t => c[u] = d[u]
    BY <1>3 DEF OpenDepth
  <2>5. d[t] = 0
    <3>1. Len(r.stack[t]) = 0
      OBVIOUS
    <3> HIDE DEF d
    <3> QED
      BY <2>3, <3>1
  <2>6. c[t] \in Nat /\ c[t] <= n
    BY <1>3, DepthType
  <2> HIDE DEF c, d, es
  <2>7. \A u \in Threads : \A k \in 1 .. c[u] : new[u][k].begin # 0 =>
          k \in 1 .. d[u] /\ r.stack[u][k].begin = new[u][k].begin
    <3> TAKE u \in Threads
    <3> TAKE k \in 1 .. c[u]
    <3>1. CASE u = t
      <4>1. k \in 1 .. n
        BY <1>1, <2>6, <3>1
      <4> HIDE DEF n
      <4> QED
        BY <1>1, <1>3, <3>1, <4>1
    <3>2. CASE u # t
      BY <1>3, <2>4, <3>2
    <3> QED
      BY <3>1, <3>2
  <2>8. \A u \in Threads : \A k \in 1 .. d[u] : r.stack[u][k].begin # 0 =>
          k \in 1 .. c[u] /\ r.stack[u][k].begin = new[u][k].begin
    <3> TAKE u \in Threads
    <3> TAKE k \in 1 .. d[u]
    <3>1. u # t
      BY <2>5
    <3> QED
      BY <1>3, <2>4, <3>1
  <2> QED
    BY <1>2, <2>1, <2>2, <2>7, <2>8, Retrack
<1>9. Good(w, OpenDepth(NoThread, w.stack))
  <2>1. FilledWith(EventSet, r.pages) /\ r.err \in BOOLEAN
    BY DEF Good
  <2> HIDE DEF es, c
  <2> QED
    BY <1>6, <1>7, <1>8, <2>1 DEF Good, es, c
<1>10. w.stack[t] # <<>>
  BY <1>1, <1>3, <1>6
<1> QED
  BY <1>3, <1>6, <1>9, <1>10 DEF w, s

\* What a hook finds.
AtHook == [pages |-> pages, stack |-> stack, err |-> FALSE]

\* A hook fires after one on the thread current, or is the first.
Hooked ==
  /\ Good(AtHook, OpenDepth(current, stack))
  /\ current \in Threads \cup {NoThread}
  /\ current # NoThread => stack[current] # <<>>

\* traceevent_prehook: t is the running thread, whichever was before.
LEMMA PrehookGood ==
  ASSUME Hooked, NEW t \in Threads, NEW unit \in Units
  PROVE  LET w == Prehook(t, unit)
         IN  /\ Good(w, OpenDepth(t, w.stack)) /\ w.stack[t] # <<>>
             /\ Extends(Flat(pages), Flat(w.pages))
<1> DEFINE r == AtHook
           cleared == IF current = NoThread THEN r ELSE ClearStack(r, current, unit)
           made == IF cleared.stack[t] = <<>> THEN [cleared EXCEPT !.stack[t] = NewStack(t)]
                   ELSE cleared
           all == AppendStack(made, t, unit)
           es == Flat(pages)
<1>1. Prehook(t, unit) = IF t = current THEN r ELSE all
  BY DEF Prehook, AtHook
<1>2. r.pages = pages /\ r.stack = stack
  BY DEF AtHook
<1>3. Good(r, OpenDepth(current, r.stack)) /\ current \in Threads \cup {NoThread}
  BY <1>2 DEF Hooked
<1> HIDE DEF r
<1>4. Len(es) \in Nat /\ Extends(es, es)
  BY <1>2, <1>3, GoodType, ExtendsSelf
<1> HIDE DEF es
<1>5. CASE t = current
  <2>1. current # NoThread
    BY <1>5, Constants
  <2> QED
    BY <1>1, <1>2, <1>3, <1>4, <1>5, <2>1 DEF Hooked, es
<1>6. CASE t # current
  <2>1. /\ Good(cleared, OpenDepth(NoThread, cleared.stack)) /\ cleared.stack = r.stack
        /\ Extends(es, Flat(cleared.pages))
    <3>1. CASE current = NoThread
      BY <1>2, <1>3, <1>4, <3>1 DEF es
    <3>2. CASE current # NoThread
      <4>1. current \in Threads
        BY <1>3, <3>2
      <4> QED
        BY <1>2, <1>3, <3>2, <4>1, ClearGood DEF es
    <3> QED
      BY <3>1, <3>2
  <2> HIDE DEF cleared
  <2>2. /\ Good(made, OpenDepth(NoThread, made.stack)) /\ made.stack[t] # <<>>
        /\ made.pages = cleared.pages
    <3>1. CASE cleared.stack[t] = <<>>
      BY <2>1, <3>1, MadeGood
    <3>2. CASE cleared.stack[t] # <<>>
      BY <2>1, <3>2
    <3> QED
      BY <3>1, <3>2
  <2> HIDE DEF made
  <2>3. /\ Good(all, OpenDepth(t, made.stack)) /\ Lengths(made.stack, all.stack)
        /\ Extends(Flat(made.pages), Flat(all.pages))
    BY <2>2, AppendGood
  <2> HIDE DEF all
  <2>4. Extends(es, Flat(all.pages))
    BY <1>4, <2>1, <2>2, <2>3, GoodType, ExtendsOn
  <2>5. OpenDepth(t, all.stack) = OpenDepth(t, made.stack)
    BY <2>2, <2>3, GoodType, DepthType
  <2>6. all.stack[t] # <<>>
    <3>1. Len(all.stack[t]) = Len(made.stack[t]) /\ made.stack \in Stacks /\ all.stack \in Stacks
      BY <2>2, <2>3, GoodType DEF Lengths
    <3>2. made.stack[t] \in Seq(EntrySet) /\ all.stack[t] \in Seq(EntrySet)
      BY <3>1 DEF Stacks
    <3> QED
      BY <2>2, <3>1, <3>2
  <2> QED
    BY <1>1, <1>6, <2>3, <2>4, <2>5, <2>6 DEF es
<1> QED
  BY <1>5, <1>6

\* A hook's record with one stack replaced.
WithStack(r, t, s) == [r EXCEPT !.stack[t] = s]

LEMMA StackReplaced ==
  ASSUME NEW r, r = [pages |-> r.pages, stack |-> r.stack, err |-> r.err], NEW t, NEW s
  PROVE  WithStack(r, t, s) =
           [pages |-> r.pages, stack |-> [r.stack EXCEPT ![t] = s], err |-> r.err]
BY DEF WithStack

\* s is old with its lowest m entries as they were, some of those above it
\* removed, or others without a begin event added.
Restacked(old, s, m) ==
  /\ s \in Seq(EntrySet) /\ Len(s) # 0 /\ m <= Len(s)
  /\ \A k \in 1 .. Len(s) :
       \/ k \in 1 .. Len(old) /\ s[k] = old[k]
       \/ s[k].begin = 0 /\ s[k].fn \in Funcs /\ k > 1
  /\ \A k \in 1 .. m : s[k] = old[k]

LEMMA StackGood ==
  ASSUME NEW r, NEW d, Good(r, d), NEW t \in Threads, d \in [Threads -> Nat],
         NEW s, Restacked(r.stack[t], s, d[t])
  PROVE  LET w == WithStack(r, t, s)
         IN  /\ Good(w, d) /\ w.pages = r.pages /\ w.err = r.err
             /\ w.stack = [r.stack EXCEPT ![t] = s]
<1> DEFINE new == [r.stack EXCEPT ![t] = s]
           w == WithStack(r, t, s)
           es == Flat(r.pages)
<1>1. /\ r.stack \in Stacks /\ Len(es) \in Nat /\ es \in Seq(EventSet)
      /\ r.err \in BOOLEAN /\ FilledWith(EventSet, r.pages)
  BY GoodType
<1>2. new \in Stacks /\ new[t] = s /\ \A u \in Threads : u # t => new[u] = r.stack[u]
  BY <1>1 DEF Stacks, Restacked
<1>3. r = [pages |-> r.pages, stack |-> r.stack, err |-> r.err]
  BY DEF Good
<1>4. w = [pages |-> r.pages, stack |-> new, err |-> r.err]
  BY <1>3, StackReplaced
<1>5. Sound(es, r.stack)
  BY DEF Good
<1>6. Rooted(new)
  <2> SUFFICES ASSUME NEW u \in Threads, NEW k \in 1 .. Len(new[u])
               PROVE  IF k = 1 THEN new[u][k].fn = Root ELSE new[u][k].fn \in Funcs
    BY DEF Rooted
  <2>1. Rooted(r.stack)
    BY <1>5 DEF Sound
  <2>2. CASE u = t
    <3>1. new[u] = s
      BY <1>2, <2>2
    <3> HIDE DEF new
    <3> QED
      BY <2>1, <2>2, <3>1 DEF Rooted, Restacked
  <2>3. CASE u # t
    <3>1. new[u] = r.stack[u]
      BY <1>2, <2>3
    <3> HIDE DEF new
    <3> QED
      BY <2>1, <3>1 DEF Rooted
  <2> QED
    BY <2>2, <2>3
<1>7. Refers(es, new)
  <2> SUFFICES ASSUME NEW u \in Threads, NEW k \in 1 .. Len(new[u])
               PROVE  LET b == new[u][k].begin
                      IN  /\ b \in 0 .. Len(es)
                          /\ b # 0 => /\ es[b].fn = new[u][k].fn /\ es[b].tid = Tid(u)
                                      /\ new[u][k].fn \notin Ignored
    BY DEF Refers
  <2>1. Refers(es, r.stack)
    BY <1>5 DEF Sound
  <2> HIDE DEF es
  <2>2. CASE k \in 1 .. Len(r.stack[u]) /\ new[u][k] = r.stack[u][k]
    BY <2>1, <2>2, Zenon DEF Refers
  <2>3. CASE new[u][k].begin = 0
    BY <1>1, <2>3
  <2>4. CASE u = t
    <3>1. new[u] = s
      BY <1>2, <2>4
    <3> HIDE DEF new
    <3> QED
      BY <2>2, <2>3, <2>4, <3>1 DEF Restacked
  <2>5. CASE u # t
    BY <1>2, <2>2, <2>5
  <2> QED
    BY <2>4, <2>5
<1>8. ASSUME ~r.err PROVE Tracks(es, new, d)
  <2>1. Tracks(es, r.stack, d)
    BY <1>8 DEF Good
  <2>2. \A u \in Threads : d[u] <= Len(r.stack[u])
    BY <2>1 DEF Tracks, Placed, Depths
  <2>3. Depths(new, d)
    BY <1>2, <2>2 DEF Depths, Restacked
  <2>4. \A u \in Threads : \A k \in 1 .. d[u] : new[u][k] = r.stack[u][k]
    BY <1>2 DEF Restacked
  <2> HIDE DEF new, es
  <2>5. \A u \in Threads : \A k \in 1 .. d[u] : new[u][k].begin # 0 =>
          k \in 1 .. d[u] /\ r.stack[u][k].begin = new[u][k].begin
    BY <2>4
  <2>6. \A u \in Threads : \A k \in 1 .. d[u] : r.stack[u][k].begin # 0 =>
          k \in 1 .. d[u] /\ r.stack[u][k].begin = new[u][k].begin
    BY <2>4
  <2> QED
    BY <1>1, <2>1, <2>3, <2>5, <2>6, Retrack
<1> HIDE DEF w, new, es
<1>9. w.pages = r.pages /\ w.stack = new /\ w.err = r.err
      /\ w = [pages |-> w.pages, stack |-> w.stack, err |-> w.err]
  BY <1>4
<1>10. Sound(es, new)
  BY <1>2, <1>5, <1>6, <1>7 DEF Sound
<1>11. Good(w, d)
  BY <1>1, <1>8, <1>9, <1>10 DEF Good, es
<1> QED
  BY <1>9, <1>11 DEF w, new

\* A call: its entry is pushed and its scope begun.
LEMMA PushGood ==
  ASSUME NEW r, NEW t \in Threads, Good(r, OpenDepth(t, r.stack)), r.stack[t] # <<>>,
         NEW f \in Funcs, NEW unit \in Units
  PROVE  LET pushed == [r EXCEPT !.stack[t] = Append(@, Entry(f))]
             w == EnterScope(pushed, t, Len(pushed.stack[t]), unit)
         IN  /\ Good(w, OpenDepth(t, w.stack)) /\ w.stack[t] # <<>>
             /\ Extends(Flat(r.pages), Flat(w.pages))
<1> DEFINE old == r.stack[t]
           s == Append(old, Entry(f))
           n == Len(old)
           d == OpenDepth(t, r.stack)
           pushed == [r EXCEPT !.stack[t] = Append(@, Entry(f))]
           i == Len(pushed.stack[t])
           w == EnterScope(pushed, t, i, unit)
<1>1. r.stack \in Stacks /\ old \in Seq(EntrySet) /\ n \in Nat
  BY GoodType DEF Stacks
<1>2. d \in [Threads -> Nat] /\ d[t] = n
  BY <1>1, DepthType DEF OpenDepth
<1>3. Entry(f) \in EntrySet /\ Entry(f).begin = 0 /\ Entry(f).fn \in Funcs
  BY DEF Entry, EntrySet, Fns
<1>4. n # 0
  <2> HIDE DEF n
  <2> QED
    BY <1>1 DEF n
<1>5. QED
  <2> HIDE DEF old
  <2>1. /\ s \in Seq(EntrySet) /\ Len(s) = n + 1 /\ s[n + 1] = Entry(f)
        /\ \A k \in 1 .. n : s[k] = old[k]
    BY <1>1, <1>3, AppendProperties
  <2> HIDE DEF s, n
  <2>2. Restacked(old, s, n)
    BY <1>1, <1>3, <1>4, <2>1 DEF Restacked, n
  <2>3. /\ Good(pushed, d) /\ pushed.pages = r.pages
        /\ pushed.stack = [r.stack EXCEPT ![t] = s]
    <3>1. pushed = WithStack(r, t, s)
      BY DEF WithStack, s, old
    <3>2. Restacked(r.stack[t], s, d[t])
      BY <1>2, <2>2 DEF old
    <3> HIDE DEF pushed, d
    <3>3. Good(r, d)
      BY DEF d
    <3> QED
      BY <1>2, <3>1, <3>2, <3>3, StackGood
  <2>4. pushed.stack[t] = s /\ i = n + 1 /\ i = d[t] + 1 /\ i \in 1 .. Len(pushed.stack[t])
    BY <1>1, <1>2, <2>1, <2>3 DEF Stacks, n
  <2>5. [d EXCEPT ![t] = i] = OpenDepth(t, pushed.stack)
    BY <1>1, <1>2, <2>1, <2>3, <2>4 DEF OpenDepth, Stacks
  <2>10. Alone(t, d)
    BY DEF Alone, OpenDepth, Tid
  <2> HIDE DEF pushed, i, d
  <2>6. /\ Good(w, [d EXCEPT ![t] = i]) /\ Lengths(pushed.stack, w.stack)
        /\ Extends(Flat(pushed.pages), Flat(w.pages))
    BY <1>2, <2>3, <2>4, <2>10, EnterGood
  <2> HIDE DEF w
  <2>7. pushed.stack \in Stacks /\ w.stack \in Stacks
    BY <2>3, <2>6, GoodType
  <2>8. OpenDepth(t, w.stack) = OpenDepth(t, pushed.stack)
    BY <2>6, <2>7, DepthType
  <2>9. w.stack[t] # <<>>
    <3>1. Len(w.stack[t]) = n + 1
      BY <2>1, <2>4, <2>6 DEF Lengths
    <3> QED
      BY <1>1, <3>1 DEF n
  <2> QED
    BY <2>3, <2>5, <2>6, <2>8, <2>9 DEF w, i, pushed

\* A return: the scopes above the n-th entry end, and their entries go.
LEMMA PopGood ==
  ASSUME NEW r, NEW t \in Threads, Good(r, OpenDepth(t, r.stack)),
         NEW n \in 1 .. Len(r.stack[t]) - 1, NEW unit \in Units
  PROVE  LET s == ExitAbove(r, t, n, unit)
             w == [s EXCEPT !.stack[t] = IF r.err THEN @ ELSE SubSeq(@, 1, n)]
         IN  /\ Good(w, OpenDepth(t, w.stack)) /\ w.stack[t] # <<>>
             /\ Extends(Flat(r.pages), Flat(w.pages))
<1> DEFINE s == ExitAbove(r, t, n, unit)
           old == r.stack[t]
           low == SubSeq(old, 1, n)
           w == [s EXCEPT !.stack[t] = IF r.err THEN @ ELSE SubSeq(@, 1, n)]
           d == OpenDepth(t, r.stack)
           c == [d EXCEPT ![t] = n]
<1>1. r.stack \in Stacks /\ old \in Seq(EntrySet) /\ Len(old) \in Nat
  BY GoodType DEF Stacks
<1>2. d \in [Threads -> Nat] /\ d[t] = Len(r.stack[t])
  BY <1>1, DepthType DEF OpenDepth
<1>3. n \in Nat /\ n # 0 /\ n \in 0 .. Len(r.stack[t]) /\ n <= Len(old)
  BY <1>1
<1>4. c \in [Threads -> Nat] /\ c[t] = n
  BY <1>2, <1>3
<1>5. Good(s, c) /\ s.stack = r.stack /\ (r.err => s.err) /\ Extends(Flat(r.pages), Flat(s.pages))
  <2> HIDE DEF d, s
  <2>1. Good(r, d)
    BY DEF d
  <2> QED
    BY <1>2, <1>3, <2>1, ExitAboveGood DEF s
<1>6. s = [pages |-> s.pages, stack |-> s.stack, err |-> s.err]
  BY <1>5 DEF Good
<1> HIDE DEF s
<1>7. CASE r.err
  <2>1. w = WithStack(s, t, s.stack[t])
    BY <1>7 DEF WithStack
  <2>2. [s.stack EXCEPT ![t] = s.stack[t]] = s.stack
    BY <1>1, <1>5 DEF Stacks
  <2>3. w = s
    <3>1. WithStack(s, t, s.stack[t]) =
            [pages |-> s.pages, stack |-> [s.stack EXCEPT ![t] = s.stack[t]], err |-> s.err]
      BY <1>6, StackReplaced
    <3> HIDE DEF w
    <3> QED
      BY <1>6, <2>1, <2>2, <3>1
  <2> HIDE DEF w
  <2>4. Good(w, OpenDepth(t, w.stack))
    BY <1>5, <1>7, <2>3, GoodFailed
  <2>5. old # <<>>
    BY <1>1, <1>3
  <2> QED
    BY <1>5, <2>3, <2>4, <2>5 DEF w, s
<1>8. CASE ~r.err
  <2>1. w = WithStack(s, t, low)
    BY <1>5, <1>8 DEF WithStack
  <2> HIDE DEF old
  <2>2. low \in Seq(EntrySet) /\ Len(low) = n /\ \A k \in 1 .. n : low[k] = old[k]
    BY <1>1, <1>3, SubSeqProperties
  <2> HIDE DEF low, w
  <2>3. Restacked(old, low, n)
    BY <1>1, <1>3, <2>2 DEF Restacked
  <2>4. Good(w, c) /\ w.pages = s.pages /\ w.stack = [r.stack EXCEPT ![t] = low]
    <3>1. Restacked(s.stack[t], low, c[t])
      BY <1>4, <1>5, <2>3 DEF old
    <3> HIDE DEF c
    <3>2. Good(s, c)
      BY <1>5
    <3>3. /\ Good(w, c) /\ w.pages = s.pages
          /\ w.stack = [s.stack EXCEPT ![t] = low]
      BY <1>4, <2>1, <3>1, <3>2, StackGood
    <3> QED
      BY <1>5, <3>3
  <2>5. w.stack[t] = low
    BY <1>1, <2>4 DEF Stacks
  <2>6. OpenDepth(t, w.stack) = c
    BY <1>1, <2>2, <2>4, <2>5 DEF OpenDepth, Stacks
  <2>7. low # <<>>
    BY <1>3, <2>2
  <2> QED
    BY <1>5, <2>4, <2>5, <2>6, <2>7 DEF w, s
<1> QED
  BY <1>7, <1>8

\* An event that is not set.
LEMMA UnsetGood ==
  ASSUME NEW r, NEW d, Good(r, d), NEW op \in UnsetOps
  PROVE  LET w == Unset(r, op)
         IN  Good(w, d) /\ w.stack = r.stack /\ Extends(Flat(r.pages), Flat(w.pages))
<1> DEFINE unit == [time |-> -1, ov |-> 0]
           e == NewEvent(op, NoThread, unit, Root)
<1>1. unit \in Units /\ op \in Ops /\ NoThread \in Tids /\ Root \in Fns
  BY DEF Units, UnsetOps, Ops, Tids, Fns
<1> HIDE DEF unit
<1>2. e \in EventSet /\ Aside(e)
  BY <1>1, NewEventType DEF Begun, Aside, UnsetOps
<1>3. Unset(r, op) = Want(r, e)
  BY DEF Unset, unit
<1> HIDE DEF e
<1> QED
  BY <1>2, <1>3, WantGood

\* A sample.
LEMMA MarkGood ==
  ASSUME NEW r, NEW d, Good(r, d), NEW t \in Threads, NEW unit \in Units
  PROVE  LET w == Sample(r, t, unit)
         IN  Good(w, d) /\ w.stack = r.stack /\ Extends(Flat(r.pages), Flat(w.pages))
<1> DEFINE e == NewEvent("sample_event", Tid(t), unit, Root)
<1>1. "sample_event" \in Ops /\ Tid(t) \in Tids /\ Root \in Fns
  BY TidType DEF Ops, Fns
<1>2. e \in EventSet /\ Aside(e)
  BY <1>1, NewEventType DEF Begun, Aside
<1>3. Sample(r, t, unit) = Want(r, e)
  BY DEF Sample
<1> HIDE DEF e
<1> QED
  BY <1>2, <1>3, WantGood

\* traceevent_sample with a line, in the lines of the scope it is in.
LEMMA LineGood ==
  ASSUME NEW r, NEW d, Good(r, d), ~r.err, NEW t \in Threads, r.stack[t] # <<>>,
         d[t] = Len(r.stack[t]), r.stack[t][Len(r.stack[t])].begin # 0, NEW unit \in Units
  PROVE  LET w == Line(r, t, unit)
         IN  Good(w, d) /\ w.stack = r.stack /\ Extends(Flat(r.pages), Flat(w.pages))
<1> DEFINE es == Flat(r.pages)
           k == Len(r.stack[t])
           entry == r.stack[t][k]
           b == entry.begin
           begin == At(r.pages, b)
           e == [NewEvent("line_scope", Tid(t), unit, entry.fn) EXCEPT !.lines = begin.lines]
           s == Want(r, e)
           q == Put(r.pages, e)
<1>1. Line(r, t, unit) =
        IF r.err \/ Full(r) THEN r
        ELSE [s EXCEPT !.pages = Write(@, b, [begin EXCEPT !.lines = Count(s.pages)])]
  BY DEF Line
<1>2. /\ FilledWith(EventSet, r.pages) /\ es \in Seq(EventSet) /\ Len(es) \in Nat
      /\ Count(r.pages) = Len(es) /\ Extends(es, es)
  BY GoodType, ExtendsSelf
<1>3. k \in 1 .. k /\ k = d[t]
  <2>1. r.stack[t] \in Seq(EntrySet)
    BY GoodType DEF Stacks
  <2>2. k \in Nat /\ k # 0
    BY <2>1
  <2> QED
    BY <2>2
<1>4. entry.fn \in Fns /\ b \in 1 .. Len(es)
  BY <1>3, EntryType
<1> HIDE DEF k, entry
<1>5. begin = es[b] /\ begin \in EventSet
  BY <1>2, <1>4, FlatType
<1>6. begin.lines \in Nat
  BY <1>5 DEF EventSet
<1>7. /\ e \in EventSet /\ e.op = "line_scope" /\ e.sib = 0 /\ e.lines = es[b].lines
      /\ e.tid = Tid(t)
  <2>1. "line_scope" \in Ops /\ Tid(t) \in Tids
    BY TidType DEF Ops
  <2> HIDE DEF es, begin, b
  <2> QED
    BY <1>4, <1>5, <1>6, <2>1, NewEventType
<1>8. CASE Full(r)
  BY <1>1, <1>2, <1>8
<1>9. CASE ~Full(r)
  <2> DEFINE f == Append(es, e)
             p == [es[b] EXCEPT !.lines = Len(es) + 1]
             g == [f EXCEPT ![b] = p]
             x == Write(q, b, p)
  <2>1. s = [r EXCEPT !.pages = q]
    BY <1>9 DEF Want
  <2>2. r = [pages |-> r.pages, stack |-> r.stack, err |-> r.err]
        /\ Sound(es, r.stack) /\ Tracks(es, r.stack, d) /\ r.err \in BOOLEAN
    BY DEF Good
  <2>3. /\ FilledWith(EventSet, q) /\ Flat(q) = f /\ Count(q) = Len(es) + 1
        /\ Extends(es, f) /\ Len(f) = Len(es) + 1
    <3> HIDE DEF e
    <3> QED
      BY <1>2, <1>7, <1>9, PutFlat
  <2>4. Sound(g, r.stack) /\ Tracks(g, r.stack, d)
    <3> HIDE DEF e, es
    <3>1. d[t] \in 1 .. Len(r.stack[t]) /\ b = r.stack[t][d[t]].begin /\ b # 0
      BY <1>3 DEF entry, k
    <3> HIDE DEF b
    <3> QED
      BY <1>7, <2>2, <3>1, LineSound
  <2>5. s = [pages |-> q, stack |-> r.stack, err |-> r.err]
    <3> HIDE DEF s, q
    <3> QED
      BY <2>1, <2>2
  <2>6. s.pages = q /\ s.stack = r.stack /\ s.err = r.err
    <3> HIDE DEF s
    <3> QED
      BY <2>5
  <2>7. b \in 1 .. Count(q) /\ At(q, b) = es[b] /\ es[b] \in EventSet
    <3> HIDE DEF e, es, b, q
    <3>1. b \in 1 .. Count(q)
      BY <1>2, <1>4, <2>3
    <3>2. At(q, b) = Flat(q)[b]
      BY <2>3, <3>1, FlatType
    <3>3. f[b] = es[b]
      BY <1>2, <1>4, <1>7, AppendProperties
    <3> QED
      BY <1>2, <1>4, <2>3, <3>1, <3>2, <3>3
  <2>8. p \in EventSet /\ Key(p) = Key(es[b])
    <3>1. Len(es) + 1 \in Nat
      BY <1>2
    <3> HIDE DEF es, b
    <3> QED
      BY <2>7, <3>1 DEF EventSet, Key
  <2>9. FilledWith(EventSet, x) /\ Flat(x) = g
    <3> HIDE DEF p, q, f, b
    <3> QED
      BY <2>3, <2>7, <2>8, FlatWrite
  <2>10. Extends(es, g)
    <3> HIDE DEF p, e
    <3>1. /\ f \in Seq(EventSet) /\ Len(f) = Len(es) + 1
          /\ \A j \in 1 .. Len(es) : f[j] = es[j]
      BY <1>2, <1>7, AppendProperties
    <3> HIDE DEF f, es, b
    <3>2. Len(g) = Len(es) + 1 /\ \A j \in 1 .. Len(es) : g[j] = IF j = b THEN p ELSE es[j]
      BY <1>2, <1>4, <2>8, <3>1
    <3> HIDE DEF g
    <3>3. \A j \in 1 .. Len(es) : Key(g[j]) = Key(es[j])
      BY <2>8, <3>2
    <3>4. Len(es) <= Len(g)
      BY <1>2, <3>2
    <3> QED
      BY <3>3, <3>4 DEF Extends
  <2> DEFINE w == [s EXCEPT !.pages = Write(@, b, [begin EXCEPT !.lines = Count(s.pages)])]
  <2>11. w = [pages |-> x, stack |-> r.stack, err |-> r.err]
    <3>1. w = [s EXCEPT !.pages = Write(s.pages, b, [begin EXCEPT !.lines = Count(s.pages)])]
      BY DEF w
    <3> HIDE DEF s, w, b, begin
    <3>2. w = [s EXCEPT !.pages = x]
      BY <1>5, <2>3, <2>6, <3>1
    <3> HIDE DEF x
    <3> QED
      BY <2>5, <3>2
  <2>12. Line(r, t, unit) = w
    BY <1>1, <1>9
  <2> HIDE DEF w, g, x, es, e
  <2>13. w.pages = x /\ w.stack = r.stack /\ w.err = r.err
         /\ w = [pages |-> w.pages, stack |-> w.stack, err |-> w.err]
    BY <2>11
  <2>14. Good(w, d)
    BY <2>2, <2>4, <2>9, <2>13 DEF Good
  <2> QED
    BY <2>9, <2>10, <2>12, <2>13, <2>14 DEF es
<1> QED
  BY <1>8, <1>9
-----------------------------------------------------------------------------
(* The invariant *)

Kinds ==
  /\ conf \in Confs /\ now \in Nat /\ hooks \in Nat /\ marks \in Nat
  /\ current \in conf.threads \cup {NoThread}
  /\ current # NoThread => stack[current] # <<>>
  /\ status \in {"running", "stopping", "closed", "error"} /\ altered \in BOOLEAN
  /\ outs \in conf.outputs \cup {<<>>}

\* What hooks have changed so far, all of them together.
Recorded == [pages |-> pages, stack |-> stack, err |-> status = "error"]

OnThread == IF Running THEN current ELSE NoThread

ScopesKept == Good(Recorded, OpenDepth(OnThread, stack))

\* A report that was written is one of the events as they are now.
FilesKept ==
  /\ files \in Seq(Range(files)) /\ Len(files) <= Len(outs)
  /\ Running => files = <<>>
  /\ \A i \in 1 .. Len(files) :
       files[i].opened => altered /\ files[i].report = Report(files[i].format, Flat(pages))

\* What CompressedScopes says of the events.
LeftOut(es, threshold) ==
  \A i \in 1 .. Len(es) :
    /\ es[i].op = "enter_scope" /\ es[i].sib # 0 => Duration(es, i) >= threshold
    /\ es[i].op = "ignore_scope" /\ es[i].sib > i => Duration(es, i) < threshold
    /\ es[i].op = "line_scope" /\ Around(es, i) # {} =>
         es[Max(Around(es, i))].op = "enter_scope"
    /\ es[i].op = "ignore_scope" /\ es[i].sib = 0 =>
         es[Max(Around(es, i))].op = "ignore_scope"

\* Reports change events only when no hook fires any more, and then leave out
\* what is short.
CompressKept ==
  /\ Running => ~altered
  /\ altered /\ conf.threshold # 0 => LeftOut(Flat(pages), conf.threshold)

IInv == Kinds /\ ScopesKept /\ FilesKept /\ CompressKept

\* The kinds of the options.
LEMMA ConfType ==
  ASSUME Kinds
  PROVE  /\ conf \in AllConfs /\ conf.threads \subseteq Threads /\ conf.elapses \subseteq Nat
         /\ conf.cal \in Nat /\ conf.threshold \in Nat
         /\ conf.outputs \subseteq Seq(Formats \cup {NotString})
         /\ current \in Threads \cup {NoThread}
<1>1. conf \in AllConfs /\ current \in conf.threads \cup {NoThread}
  BY RecordingAssumption DEF Kinds
<1>2. /\ conf.threads \in SUBSET Threads /\ conf.elapses \in SUBSET Nat
      /\ conf.cal \in Nat /\ conf.threshold \in Nat
      /\ conf.outputs \in SUBSET Seq(Formats \cup {NotString})
  BY <1>1 DEF AllConfs
<1> QED
  BY <1>1, <1>2

\* The times of a hook and of a frame call.
LEMMA UnitType ==
  ASSUME Kinds, NEW elapsed \in conf.elapses
  PROVE  /\ HookUnit(elapsed) \in Units /\ ClientUnit(elapsed) \in Units
         /\ now + elapsed \in Nat /\ hooks + 1 \in Nat
<1>1. elapsed \in Nat /\ conf.cal \in Nat
  BY ConfType
<1>2. now \in Nat /\ hooks \in Nat
  BY DEF Kinds
<1>3. (hooks + 1) * conf.cal \in Nat /\ hooks * conf.cal \in Nat
  <2> DEFINE a == hooks + 1
             b == conf.cal
  <2>1. a \in Nat /\ b \in Nat
    BY <1>1, <1>2
  <2>2. \A x \in Nat, y \in Nat : x * y \in Nat
    OBVIOUS
  <2> HIDE DEF a, b
  <2>3. a * b \in Nat /\ hooks * b \in Nat
    BY <1>2, <2>1, <2>2
  <2> QED
    BY <2>3 DEF a, b
<1>4. now + elapsed \in Nat /\ now + elapsed \in Int /\ hooks + 1 \in Nat
  BY <1>1, <1>2
<1> QED
  BY <1>3, <1>4 DEF HookUnit, ClientUnit, Units

\* What has been recorded, in parts.
LEMMA RecordedParts ==
  /\ Recorded.pages = pages /\ Recorded.stack = stack /\ Recorded.err = (status = "error")
  /\ AtHook.pages = pages /\ AtHook.stack = stack /\ AtHook.err = FALSE
  /\ Recorded = [pages |-> Recorded.pages, stack |-> Recorded.stack, err |-> Recorded.err]
  /\ AtHook = [pages |-> AtHook.pages, stack |-> AtHook.stack, err |-> AtHook.err]
BY Zenon DEF Recorded, AtHook

\* Hooks find what the one before has left.
LEMMA RunningHooked ==
  ASSUME IInv, Running
  PROVE  Hooked
<1>1. OnThread = current /\ status # "error"
  BY DEF OnThread, Running
<1>2. Good(Recorded, OpenDepth(current, stack))
  BY <1>1 DEF IInv, ScopesKept
<1>3. Good(AtHook, OpenDepth(current, stack))
  BY <1>1, <1>2, RecordedParts DEF Good
<1> QED
  BY <1>3, ConfType DEF IInv, Kinds, Hooked

\* What is good stays so while nothing more is recorded.
LEMMA ScopesNext ==
  ASSUME NEW r, NEW c, Good(r, OpenDepth(c, r.stack)), UNCHANGED <<conf, altered>>,
         pages' = r.pages, stack' = r.stack, r.err = (status' = "error"),
         r.err \/ c = OnThread'
  PROVE  ScopesKept'
<1>1. (Recorded.pages = pages /\ Recorded.stack = stack /\ Recorded.err = (status = "error"))'
      /\ (Recorded = [pages |-> Recorded.pages, stack |-> Recorded.stack, err |-> Recorded.err])'
  BY RecordedParts, PTL
<1> DEFINE es == Flat(r.pages)
           stk == r.stack
           d == OpenDepth(c, r.stack)
<1>2. /\ (Flat(Recorded.pages))' = es /\ (Recorded.stack)' = stk
      /\ ~r.err => (OpenDepth(OnThread, stack))' = d
  BY <1>1 DEF OpenDepth
<1>3. Sound(es, stk) /\ (~r.err => Tracks(es, stk, d))
  BY DEF Good
<1> HIDE DEF es, stk, d
<1>4. (Sound(Flat(Recorded.pages), Recorded.stack))'
  BY <1>2, <1>3 DEF Sound, Refers, Tid
<1>5. ~r.err => (Tracks(Flat(Recorded.pages), Recorded.stack, OpenDepth(OnThread, stack)))'
  BY <1>2, <1>3 DEF Tracks, Placed, Ordered, Tid
<1> QED
  BY <1>1, <1>4, <1>5 DEF ScopesKept, Good
-----------------------------------------------------------------------------
(* What compressed reports leave out *)

\* to[i] has the i-th event and the lines before it, as Short follows them.
LinesFrom(es, to) ==
  to[0] = {} /\ \A i \in 1 .. Len(es) : to[i] = {i} \cup to[es[i].lines]

ShortBegins(es, threshold) ==
  {i \in 1 .. Len(es) : /\ es[i].op = "enter_scope" /\ es[i].sib # 0
                        /\ threshold # 0 /\ Duration(es, i) < threshold}

\* There is such a function, whatever the lines are.
LEMMA LinesExist ==
  ASSUME NEW es, NEW n \in Nat, \A i \in 1 .. n : es[i].lines \in 0 .. n
  PROVE  \E to : to = [i \in 0 .. n |-> IF i = 0 THEN {} ELSE {i} \cup to[es[i].lines]]
<1> DEFINE Closed(S) == \A k \in S : es[k].lines # 0 => es[k].lines \in S
           Reach(i) == {j \in 1 .. n : \A S \in SUBSET (1 .. n) : i \in S /\ Closed(S) => j \in S}
           r == [i \in 0 .. n |-> IF i = 0 THEN {} ELSE Reach(i)]
<1>1. ASSUME NEW i \in 1 .. n
      PROVE  i \in Reach(i) /\ Closed(Reach(i))
  <2>1. i \in Reach(i)
    OBVIOUS
  <2>2. ASSUME NEW k \in Reach(i), es[k].lines # 0 PROVE es[k].lines \in Reach(i)
    <3>1. k \in 1 .. n /\ \A S \in SUBSET (1 .. n) : i \in S /\ Closed(S) => k \in S
      OBVIOUS
    <3>2. es[k].lines \in 1 .. n
      BY <2>2, <3>1, IndexNonzero
    <3>3. \A S \in SUBSET (1 .. n) : i \in S /\ Closed(S) => es[k].lines \in S
      BY <2>2, <3>1
    <3> QED
      BY <3>2, <3>3
  <2> QED
    BY <2>1, <2>2
<1>2. ASSUME NEW i \in 1 .. n
      PROVE  Reach(i) = {i} \cup (IF es[i].lines = 0 THEN {} ELSE Reach(es[i].lines))
  <2> DEFINE l == es[i].lines
             R == {i} \cup (IF l = 0 THEN {} ELSE Reach(l))
  <2>1. l # 0 => l \in 1 .. n
    BY IndexNonzero
  <2>2. R \in SUBSET (1 .. n) /\ i \in R
    OBVIOUS
  <2>3. Closed(R)
    <3>1. l # 0 => l \in Reach(l) /\ Closed(Reach(l))
      BY <1>1, <2>1
    <3> HIDE DEF Reach
    <3> QED
      BY <3>1
  <2>4. Reach(i) \subseteq R
    <3> HIDE DEF R, Closed
    <3> QED
      BY <2>2, <2>3
  <2>5. l # 0 => Reach(l) \subseteq Reach(i)
    OBVIOUS
  <2>6. R \subseteq Reach(i)
    <3>1. i \in Reach(i)
      BY <1>1
    <3> HIDE DEF Reach
    <3> QED
      BY <2>5, <3>1
  <2> QED
    BY <2>4, <2>6
<1>3. \A i \in 0 .. n : r[i] = IF i = 0 THEN {} ELSE {i} \cup r[es[i].lines]
  <2> SUFFICES ASSUME NEW i \in 0 .. n, i # 0 PROVE r[i] = {i} \cup r[es[i].lines]
    OBVIOUS
  <2>1. i \in 1 .. n /\ es[i].lines \in 0 .. n
    BY IndexNonzero
  <2>2. Reach(i) = {i} \cup (IF es[i].lines = 0 THEN {} ELSE Reach(es[i].lines))
    BY <1>2, <2>1
  <2> HIDE DEF Reach
  <2> QED
    BY <2>1, <2>2
<1>4. r = [i \in 0 .. n |-> IF i = 0 THEN {} ELSE {i} \cup r[es[i].lines]]
  <2>1. r = [i \in 0 .. n |-> r[i]]
    OBVIOUS
  <2> HIDE DEF r
  <2> QED
    BY <1>3, <2>1
<1> HIDE DEF r
<1> QED
  BY <1>4

\* What timeline_compress finds.
LEMMA ShortLines ==
  ASSUME NEW es, NEW n \in Nat, Len(es) = n, DOMAIN es = 1 .. n, Linked(es), NEW threshold
  PROVE  \E to : /\ LinesFrom(es, to)
                 /\ Short(es, threshold) = UNION {{i, es[i].sib} \cup to[es[i].lines] :
                                                  i \in ShortBegins(es, threshold)}
<1> DEFINE w == CHOOSE u : u = [i \in 0 .. n |-> IF i = 0 THEN {} ELSE {i} \cup u[es[i].lines]]
<1>1. \A i \in 1 .. n : es[i].lines \in 0 .. n
  BY DEF Linked
<1>2. w = [i \in 0 .. n |-> IF i = 0 THEN {} ELSE {i} \cup w[es[i].lines]]
  BY <1>1, LinesExist
<1>3. Short(es, threshold) = UNION {{i, es[i].sib} \cup w[es[i].lines] :
                                    i \in ShortBegins(es, threshold)}
  <2>1. ShortBegins(es, threshold) =
          {i \in DOMAIN es : /\ es[i].op = "enter_scope" /\ es[i].sib # 0
                             /\ threshold # 0
                             /\ (es[es[i].sib].time - es[i].time) % TimeModulus < threshold}
    BY DEF ShortBegins, Duration
  <2> QED
    BY <2>1, Zenon DEF Short
<1> HIDE DEF w
<1>4. \A i \in 0 .. n : w[i] = IF i = 0 THEN {} ELSE {i} \cup w[es[i].lines]
  BY <1>2
<1>5. 0 \in 0 .. n /\ \A i \in 1 .. n : i \in 0 .. n /\ i # 0
  OBVIOUS
<1>6. LinesFrom(es, w)
  BY <1>4, <1>5 DEF LinesFrom
<1> QED
  BY <1>3, <1>6

\* The lines found from a line are those of its owner up to it.
LEMMA LinesOfOwner ==
  ASSUME NEW es, NEW n \in Nat, Len(es) = n, NEW own, Owns(es, own),
         NEW to, LinesFrom(es, to)
  PROVE  \A i \in 1 .. n : es[i].op = "line_scope" =>
           to[i] = {j \in 1 .. i : LineOf(es, own, own[i], j)}
<1> DEFINE Found(i) == to[i] = {j \in 1 .. i : LineOf(es, own, own[i], j)}
           A == {k \in Nat : \A i \in 1 .. n : i <= k /\ es[i].op = "line_scope" => Found(i)}
<1>1. 0 \in A
  OBVIOUS
<1>2. ASSUME NEW k \in Nat, k \in A PROVE k + 1 \in A
  <2> SUFFICES ASSUME NEW i \in 1 .. n, i = k + 1, es[i].op = "line_scope" PROVE Found(i)
    <3>1. \A i \in 1 .. n : i <= k + 1 => i <= k \/ i = k + 1
      OBVIOUS
    <3> HIDE DEF Found
    <3> QED
      BY <1>2, <3>1
  <2> DEFINE l == es[i].lines
             b == own[i]
  <2>1. /\ l # 0 => l \in 1 .. i - 1 /\ LineOf(es, own, b, l)
        /\ \A j \in 1 .. i - 1 : LineOf(es, own, b, j) => j <= l
    BY DEF Owns, EachLine
  <2>2. to[i] = {i} \cup to[l]
    BY DEF LinesFrom
  <2>3. LineOf(es, own, b, i)
    BY DEF LineOf
  <2> HIDE DEF b, l
  <2>4. \A j \in 1 .. i : j \in 1 .. i - 1 \/ j = i
    OBVIOUS
  <2>5. i \in 1 .. i
    OBVIOUS
  <2>6. CASE l = 0
    <3>1. to[l] = {}
      BY <2>6 DEF LinesFrom
    <3>2. \A j \in 1 .. i - 1 : ~LineOf(es, own, b, j)
      <4>1. \A j \in 1 .. i - 1 : ~(j <= 0)
        OBVIOUS
      <4> QED
        BY <2>1, <2>6, <4>1
    <3>3. {j \in 1 .. i : LineOf(es, own, b, j)} = {i}
      BY <2>3, <2>4, <2>5, <3>2
    <3> QED
      BY <2>2, <3>1, <3>3 DEF b
  <2>7. CASE l # 0
    <3>1. l \in 1 .. i - 1 /\ l \in 1 .. n /\ l <= k /\ LineOf(es, own, b, l)
      BY <2>1, <2>7
    <3>2. es[l].op = "line_scope" /\ own[l] = b
      BY <3>1 DEF LineOf
    <3>3. to[l] = {j \in 1 .. l : LineOf(es, own, b, j)}
      BY <1>2, <3>1, <3>2
    <3>4. \A j \in 1 .. i - 1 : j <= l => j \in 1 .. l
      BY <3>1
    <3>5. \A j \in 1 .. l : j \in 1 .. i
      BY <3>1
    <3>6. {j \in 1 .. i : LineOf(es, own, b, j)} = {i} \cup {j \in 1 .. l : LineOf(es, own, b, j)}
      BY <2>1, <2>3, <2>4, <2>5, <3>4, <3>5
    <3> QED
      BY <2>2, <3>3, <3>6 DEF b
  <2> QED
    BY <2>6, <2>7
<1>3. n \in A
  <2> HIDE DEF A
  <2> QED
    BY <1>1, <1>2, InductionOnNat
<1>4. \A i \in 1 .. n : i <= n
  OBVIOUS
<1> QED
  BY <1>3, <1>4

\* What is left out: scopes that are short, their ends and the lines they own.
LEMMA ShortMembers ==
  ASSUME NEW es, NEW n \in Nat, Len(es) = n, DOMAIN es = 1 .. n, Linked(es),
         NEW own, Owns(es, own), NEW threshold
  PROVE  \A i \in 1 .. n : i \in Short(es, threshold) <=>
           \E b \in ShortBegins(es, threshold) :
             i = b \/ i = es[b].sib \/ LineOf(es, own, b, i)
<1>1. PICK to : /\ LinesFrom(es, to)
                /\ Short(es, threshold) = UNION {{i, es[i].sib} \cup to[es[i].lines] :
                                                 i \in ShortBegins(es, threshold)}
  BY ShortLines
<1>2. ASSUME NEW b \in 1 .. n, es[b].op = "enter_scope"
      PROVE  to[es[b].lines] = {j \in 1 .. n : LineOf(es, own, b, j)}
  <2> DEFINE l == es[b].lines
  <2>1. /\ l # 0 => l \in 1 .. n /\ LineOf(es, own, b, l)
        /\ \A j \in 1 .. n : LineOf(es, own, b, j) => j <= l
    BY <1>2 DEF Owns, LastLines
  <2> HIDE DEF l
  <2>2. CASE l = 0
    <3>1. to[l] = {}
      BY <1>1, <2>2 DEF LinesFrom
    <3>2. \A j \in 1 .. n : ~(j <= 0)
      OBVIOUS
    <3> QED
      BY <2>1, <2>2, <3>1, <3>2 DEF l
  <2>3. CASE l # 0
    <3>1. l \in 1 .. n /\ es[l].op = "line_scope" /\ own[l] = b
      BY <2>1, <2>3 DEF LineOf
    <3>2. to[l] = {j \in 1 .. l : LineOf(es, own, b, j)}
      BY <1>1, <3>1, LinesOfOwner
    <3>3. \A j \in 1 .. l : j \in 1 .. n
      BY <3>1
    <3>4. \A j \in 1 .. n : j <= l => j \in 1 .. l
      BY <3>1
    <3>5. {j \in 1 .. l : LineOf(es, own, b, j)} = {j \in 1 .. n : LineOf(es, own, b, j)}
      BY <2>1, <3>3, <3>4
    <3> QED
      BY <3>2, <3>5 DEF l
  <2> QED
    BY <2>2, <2>3
<1>3. \A b \in ShortBegins(es, threshold) :
        /\ b \in 1 .. n /\ es[b].op = "enter_scope"
        /\ to[es[b].lines] = {j \in 1 .. n : LineOf(es, own, b, j)}
  BY <1>2 DEF ShortBegins
<1> QED
  BY <1>1, <1>3

\* The innermost scope around a line that ends is the owner's, if that ends.
LEMMA InnermostOwner ==
  ASSUME NEW es, NEW n \in Nat, Len(es) = n, Linked(es), NEW own, Owns(es, own),
         NEW i \in 1 .. n, es[i].op = "line_scope"
  PROVE  /\ own[i] \in 1 .. n /\ es[own[i]].op = "enter_scope"
         /\ Around(es, i) # {} => es[own[i]].sib # 0
         /\ es[own[i]].sib # 0 => Max(Around(es, i)) = own[i]
<1> DEFINE b == own[i]
           S == Around(es, i)
<1>1. /\ StillOpen(es, b, i)
      /\ \A c \in 1 .. i - 1 : StillOpen(es, c, i) => c <= b /\ (es[c].sib # 0 => es[b].sib # 0)
  BY DEF Owns, EachLine
<1> HIDE DEF b
<1>2. /\ b \in 1 .. i - 1 /\ es[b].op = "enter_scope" /\ es[b].tid = es[i].tid
      /\ es[b].sib = 0 \/ es[b].sib > i
  BY <1>1 DEF StillOpen
<1>3. b \in 1 .. n /\ b \in Int
  BY <1>2
<1>4. ASSUME NEW j \in S
      PROVE  j \in 1 .. i - 1 /\ j \in Int /\ StillOpen(es, j, i) /\ es[j].sib # 0
  <2>1. j \in 1 .. i - 1 /\ es[j].sib > i /\ es[j].tid = es[i].tid
    BY DEF Around
  <2>2. j \in 1 .. n /\ j \in Int
    BY <2>1
  <2>3. es[j].sib \in 0 .. n
    BY <2>2 DEF Linked
  <2>4. es[j].sib > j /\ es[j].sib # 0
    BY <2>1, <2>3
  <2>5. es[j].op = "enter_scope"
    BY <2>2, <2>4 DEF Owns, Forward
  <2> QED
    BY <2>1, <2>2, <2>4, <2>5 DEF StillOpen
<1>5. S # {} => es[b].sib # 0
  BY <1>1, <1>4
<1>6. ASSUME es[b].sib # 0 PROVE Max(S) = b
  <2>1. b \in S
    BY <1>2, <1>6 DEF Around
  <2>2. \A j \in S : j \in Int /\ j <= b
    BY <1>1, <1>4
  <2> HIDE DEF S
  <2>3. \A j \in S : b >= j
    BY <1>3, <2>2
  <2>4. \A x \in S : (\A y \in S : x >= y) => x = b
    BY <1>3, <2>1, <2>2
  <2> QED
    BY <2>1, <2>3, <2>4 DEF Max
<1> QED
  BY <1>2, <1>3, <1>5, <1>6 DEF b

OwnersAround(es, own, n) ==
  \A i \in 1 .. n : es[i].op = "line_scope" =>
    /\ own[i] \in 1 .. n /\ es[own[i]].op = "enter_scope"
    /\ Around(es, i) # {} => es[own[i]].sib # 0
    /\ es[own[i]].sib # 0 => Max(Around(es, i)) = own[i]

LEMMA InnermostOwners ==
  ASSUME NEW es, NEW n \in Nat, Len(es) = n, Linked(es), NEW own, Owns(es, own)
  PROVE  OwnersAround(es, own, n)
BY InnermostOwner DEF OwnersAround

\* timeline_compress, field by field.
LEMMA CompressedParts ==
  ASSUME NEW es \in Seq(EventSet), NEW threshold
  PROVE  LET h == Compressed(es, threshold)
         IN  /\ Len(h) = Len(es)
             /\ \A i \in 1 .. Len(es) :
                  /\ h[i].sib = es[i].sib /\ h[i].tid = es[i].tid /\ h[i].time = es[i].time
                  /\ h[i].op = IF i \in Short(es, threshold) THEN "ignore_scope" ELSE es[i].op
<1> DEFINE n == Len(es)
           short == Short(es, threshold)
           one(i) == IF i \in short THEN [es[i] EXCEPT !.op = "ignore_scope"] ELSE es[i]
           h == Compressed(es, threshold)
<1>1. n \in Nat /\ DOMAIN es = 1 .. n /\ \A i \in 1 .. n : es[i] \in EventSet
  OBVIOUS
<1>2. h = [i \in 1 .. n |-> one(i)]
  BY <1>1 DEF Compressed
<1> HIDE DEF short
<1>3. ASSUME NEW i \in 1 .. n
      PROVE  /\ one(i).sib = es[i].sib /\ one(i).tid = es[i].tid /\ one(i).time = es[i].time
             /\ one(i).op = IF i \in short THEN "ignore_scope" ELSE es[i].op
  BY <1>1 DEF EventSet
<1> HIDE DEF one, h
<1>4. Len(h) = n /\ \A i \in 1 .. n : h[i] = one(i)
  BY <1>1, <1>2
<1> QED
  BY <1>3, <1>4 DEF h, short

\* Durations are what is left in their width.
LEMMA DurationType ==
  ASSUME NEW es \in Seq(EventSet), NEW i \in 1 .. Len(es), es[i].sib \in 1 .. Len(es)
  PROVE  Duration(es, i) \in Int
<1> DEFINE a == es[es[i].sib].time
           b == es[i].time
           c == a - b
<1>1. es[es[i].sib] \in EventSet /\ es[i] \in EventSet
  OBVIOUS
<1>2. a \in Int /\ b \in Int
  BY <1>1 DEF EventSet
<1> HIDE DEF a, b
<1>3. c \in Int /\ TimeModulus \in Nat /\ TimeModulus > 0
  BY <1>2, Constants
<1> HIDE DEF c
<1>4. c % TimeModulus \in 0 .. TimeModulus - 1
  BY <1>3
<1>5. c % TimeModulus \in Int
  BY <1>3, <1>4
<1> QED
  BY <1>5 DEF Duration, a, b, c

\* Of events that are as hooks record them, compressing leaves what it should.
LEMMA CompressedLeftOut ==
  ASSUME NEW es \in Seq(EventSet), Linked(es), Owned(es), NEW threshold \in Nat, threshold # 0
  PROVE  LeftOut(Compressed(es, threshold), threshold)
<1> DEFINE n == Len(es)
           h == Compressed(es, threshold)
           short == Short(es, threshold)
           begins == ShortBegins(es, threshold)
<1>1. PICK own \in [Nat -> Nat] : Owns(es, own)
  BY DEF Owned
<1>2. n \in Nat /\ DOMAIN es = 1 .. n /\ Len(es) = n
  OBVIOUS
<1>3. /\ Len(h) = n
      /\ \A i \in 1 .. n :
           /\ h[i].sib = es[i].sib /\ h[i].tid = es[i].tid /\ h[i].time = es[i].time
           /\ h[i].op = IF i \in short THEN "ignore_scope" ELSE es[i].op
  BY CompressedParts
<1>4. \A i \in 1 .. n : i \in short <=>
        \E b \in begins : i = b \/ i = es[b].sib \/ LineOf(es, own, b, i)
  <2> HIDE DEF n
  <2> QED
    BY <1>1, <1>2, ShortMembers
<1>5. \A i \in 1 .. n :
        /\ es[i].sib \in 0 .. n
        /\ es[i].sib # 0 => es[i].sib \in 1 .. n /\ es[es[i].sib].sib = i
  <2>1. \A i \in 1 .. n : es[i].sib \in 0 .. n /\ (es[i].sib # 0 => es[es[i].sib].sib = i)
    BY DEF Linked
  <2> HIDE DEF n
  <2> QED
    BY <1>2, <2>1, IndexNonzero
<1>6. \A i \in 1 .. n : es[i].sib # 0 => Duration(es, i) \in Int /\ Duration(h, i) = Duration(es, i)
  <2> TAKE i \in 1 .. n
  <2> HAVE es[i].sib # 0
  <2>1. es[i].sib \in 1 .. n
    BY <1>5
  <2>2. Duration(es, i) \in Int
    BY <2>1, DurationType
  <2>3. Duration(h, i) = Duration(es, i)
    <3> HIDE DEF n, h
    <3> QED
      BY <1>3, <2>1 DEF Duration
  <2> QED
    BY <2>2, <2>3
<1>7. /\ \A b \in begins : /\ b \in 1 .. n /\ es[b].op = "enter_scope" /\ es[b].sib # 0
                           /\ Duration(es, b) < threshold
      /\ \A b \in 1 .. n : es[b].op = "enter_scope" /\ es[b].sib # 0 /\ Duration(es, b) < threshold
                           => b \in begins
  BY DEF ShortBegins
<1>8. \A i \in 1 .. n : /\ es[i].op # "ignore_scope"
                        /\ es[i].op = "enter_scope" /\ es[i].sib # 0 => es[i].sib > i
                        /\ es[i].op = "line_scope" => es[i].sib = 0
  BY <1>1 DEF Owns, Forward, EachLine
<1>16. \A i \in 1 .. n : es[i].op = "line_scope" =>
         /\ own[i] \in 1 .. n /\ es[own[i]].op = "enter_scope"
         /\ Around(es, i) # {} => es[own[i]].sib # 0
         /\ es[own[i]].sib # 0 => Max(Around(es, i)) = own[i]
  <2>1. Len(es) = n /\ Linked(es) /\ n \in Nat
    BY <1>2
  <2> HIDE DEF n, h, short, begins
  <2>2. OwnersAround(es, own, n)
    BY <1>1, <2>1, InnermostOwners
  <2> QED
    BY <2>2 DEF OwnersAround
<1> HIDE DEF n, h, short, begins
<1>9. \A i \in 1 .. n : Around(h, i) = Around(es, i)
  <2>1. \A i \in 1 .. n : \A j \in 1 .. i - 1 : j \in 1 .. n
    BY <1>2
  <2> QED
    BY <1>3, <2>1 DEF Around
<1>10. \A b \in begins : es[b].sib \in 1 .. n /\ es[es[b].sib].sib = b /\ b < es[b].sib
  <2> TAKE b \in begins
  <2>1. b \in 1 .. n /\ es[b].sib \in 1 .. n /\ es[es[b].sib].sib = b /\ es[b].sib > b
    BY <1>5, <1>7, <1>8
  <2> QED
    BY <1>2, <2>1
<1>11. ASSUME NEW b \in 1 .. n, es[b].op = "enter_scope", b \in short PROVE b \in begins
  <2>1. PICK a \in begins : b = a \/ b = es[a].sib \/ LineOf(es, own, a, b)
    BY <1>4, <1>11
  <2>2. ~LineOf(es, own, a, b)
    BY <1>11 DEF LineOf
  <2>3. ASSUME b = es[a].sib PROVE FALSE
    <3>1. es[b].sib = a /\ a < b /\ a \in 1 .. n
      BY <1>7, <1>10, <2>3
    <3>2. a > b
      <4>1. a # 0
        BY <3>1
      <4> QED
        BY <1>8, <1>11, <3>1, <4>1
    <3>3. \A x \in Nat, y \in Nat : ~(x < y /\ x > y)
      OBVIOUS
    <3> QED
      BY <1>2, <3>1, <3>2, <3>3, IndexNat
  <2> QED
    BY <2>1, <2>2, <2>3
<1>12. ASSUME NEW i \in 1 .. n, h[i].op = "enter_scope", h[i].sib # 0
       PROVE  Duration(h, i) >= threshold
  <2>1. i \notin short /\ es[i].op = "enter_scope" /\ es[i].sib # 0
    BY <1>3, <1>12
  <2>2. i \notin begins
    BY <1>4, <2>1
  <2>3. ~(Duration(es, i) < threshold) /\ Duration(es, i) \in Int /\ Duration(h, i) = Duration(es, i)
    BY <1>6, <1>7, <2>1, <2>2
  <2> QED
    BY <2>3
<1>13. ASSUME NEW i \in 1 .. n, h[i].op = "ignore_scope"
       PROVE  /\ h[i].sib > i => Duration(h, i) < threshold
              /\ h[i].sib = 0 => h[Max(Around(h, i))].op = "ignore_scope"
  <2>1. i \in short /\ h[i].sib = es[i].sib
    BY <1>3, <1>8, <1>13
  <2>2. PICK b \in begins : i = b \/ i = es[b].sib \/ LineOf(es, own, b, i)
    BY <1>4, <2>1
  <2>3. CASE i = b
    BY <1>6, <1>7, <2>1, <2>3
  <2>4. CASE i = es[b].sib
    <3>1. es[i].sib = b /\ b < i /\ b \in Nat \ {0} /\ i \in Nat
      BY <1>2, <1>7, <1>10, <2>4, IndexNat
    <3>2. ~(b > i) /\ b # 0
      BY <3>1
    <3> QED
      BY <2>1, <3>1, <3>2
  <2>5. CASE LineOf(es, own, b, i)
    <3>1. es[i].op = "line_scope" /\ own[i] = b
      BY <2>5 DEF LineOf
    <3>2. es[i].sib = 0 /\ es[b].sib # 0 /\ ~(0 > i)
      <4>1. es[i].sib = 0 /\ es[b].sib # 0
        BY <1>7, <1>8, <3>1
      <4>2. i \in Nat
        BY <1>2, IndexNat
      <4> QED
        BY <4>1, <4>2
    <3>3. Max(Around(h, i)) = b
      BY <1>9, <1>16, <3>1, <3>2
    <3>4. b \in 1 .. n /\ b \in short
      BY <1>4, <1>7
    <3> QED
      BY <1>3, <2>1, <3>2, <3>3, <3>4
  <2> QED
    BY <2>2, <2>3, <2>4, <2>5
<1>14. ASSUME NEW i \in 1 .. n, h[i].op = "line_scope", Around(h, i) # {}
       PROVE  h[Max(Around(h, i))].op = "enter_scope"
  <2> DEFINE b == own[i]
  <2>1. i \notin short /\ es[i].op = "line_scope" /\ Around(es, i) # {}
    BY <1>3, <1>9, <1>14
  <2>2. b \in 1 .. n /\ es[b].op = "enter_scope" /\ Max(Around(h, i)) = b
    BY <1>9, <1>16, <2>1
  <2>3. LineOf(es, own, b, i)
    BY <2>1 DEF LineOf
  <2> HIDE DEF b
  <2>4. b \notin short
    BY <1>4, <1>11, <2>1, <2>2, <2>3
  <2> QED
    BY <1>3, <2>2, <2>4
<1>15. LeftOut(h, threshold)
  BY <1>3, <1>12, <1>13, <1>14 DEF LeftOut
<1> QED
  BY <1>15 DEF h
-----------------------------------------------------------------------------
(* The steps *)

\* A step keeps the invariant, and the events that there were.
Kept == IInv' /\ Extends(Flat(pages), Flat(pages'))

\* The pages that a running session has, and no outputs yet.
LEMMA NoFiles ==
  ASSUME IInv, Running
  PROVE  files = <<>> /\ \A o \in conf.outputs \cup {<<>>} : Len(files) <= Len(o)
<1>1. files = <<>> /\ conf.outputs \subseteq Seq(Formats \cup {NotString})
  BY ConfType DEF IInv, FilesKept
<1>2. \A o \in conf.outputs \cup {<<>>} : Len(o) \in Nat
  BY <1>1
<1> QED
  BY <1>1, <1>2

\* What no report has changed, and what nothing changes.
LEMMA CompressNext ==
  ASSUME IInv, UNCHANGED <<conf, altered>>, Running \/ (~Running' /\ UNCHANGED pages)
  PROVE  CompressKept'
<1>1. CASE Running
  <2>1. ~altered'
    BY <1>1 DEF IInv, CompressKept
  <2> QED
    BY <2>1 DEF CompressKept
<1>2. CASE ~Running' /\ UNCHANGED pages
  BY <1>2 DEF IInv, CompressKept
<1> QED
  BY <1>1, <1>2

LEMMA AfterKept ==
  ASSUME IInv, Running, NEW r, NEW t \in conf.threads, NEW elapsed \in conf.elapses,
         Good(r, OpenDepth(t, r.stack)), r.stack[t] # <<>>,
         Extends(Flat(pages), Flat(r.pages)), After(r, t, elapsed)
  PROVE  Kept
<1>1. /\ pages' = r.pages /\ stack' = r.stack /\ current' = t /\ hooks' = hooks + 1
      /\ now' = now + elapsed /\ status' = IF r.err THEN "error" ELSE status
      /\ UNCHANGED <<conf, marks, altered, outs, files>>
  BY DEF After
<1>2. Kinds'
  <2>1. now + elapsed \in Nat /\ hooks + 1 \in Nat
    BY UnitType DEF IInv
  <2> QED
    BY <1>1, <2>1 DEF IInv, Kinds
<1>3. ScopesKept'
  <2>1. status = "running" /\ r.err \in BOOLEAN
    BY GoodType DEF Running
  <2>2. r.err = (status' = "error")
    BY <1>1, <2>1
  <2>3. r.err \/ t = OnThread'
    BY <1>1, <2>1 DEF OnThread, Running
  <2> QED
    BY <1>1, <2>2, <2>3, ScopesNext
<1>4. FilesKept'
  <2>1. files = <<>> /\ Len(files) <= Len(outs) /\ files \in Seq(Range(files))
    BY NoFiles DEF IInv, FilesKept
  <2>2. files' = <<>> /\ Len(files') <= Len(outs') /\ files' \in Seq(Range(files'))
    BY <1>1, <2>1
  <2> QED
    BY <2>2 DEF FilesKept
<1>5. CompressKept'
  BY <1>1, CompressNext
<1> QED
  BY <1>1, <1>2, <1>3, <1>4, <1>5 DEF Kept, IInv

LEMMA CallKept ==
  ASSUME IInv, NEW t \in Threads, NEW f \in Funcs, NEW elapsed \in conf.elapses,
         Call(t, f, elapsed)
  PROVE  Kept
<1> DEFINE unit == HookUnit(elapsed)
           r == Prehook(t, unit)
           pushed == [r EXCEPT !.stack[t] = Append(@, Entry(f))]
           w == EnterScope(pushed, t, Len(pushed.stack[t]), unit)
<1>1. Running /\ t \in conf.threads /\ After(w, t, elapsed)
  BY DEF Call
<1>2. unit \in Units /\ Hooked
  BY <1>1, UnitType, RunningHooked DEF IInv
<1> HIDE DEF unit
<1>3. /\ Good(r, OpenDepth(t, r.stack)) /\ r.stack[t] # <<>>
      /\ Extends(Flat(pages), Flat(r.pages))
  BY <1>2, PrehookGood
<1> HIDE DEF r
<1>4. /\ Good(w, OpenDepth(t, w.stack)) /\ w.stack[t] # <<>>
      /\ Extends(Flat(r.pages), Flat(w.pages))
  BY <1>2, <1>3, PushGood
<1> HIDE DEF w
<1>5. Len(Flat(pages)) \in Nat
  BY <1>2, RecordedParts, GoodType DEF Hooked
<1>6. Extends(Flat(pages), Flat(w.pages))
  BY <1>3, <1>4, <1>5, GoodType, ExtendsOn
<1> QED
  BY <1>1, <1>4, <1>6, AfterKept

LEMMA ReturnKept ==
  ASSUME IInv, NEW t \in Threads, NEW n, NEW elapsed \in conf.elapses,
         Return(t, n, elapsed)
  PROVE  Kept
<1> DEFINE unit == HookUnit(elapsed)
           r == Prehook(t, unit)
           s == ExitAbove(r, t, n, unit)
           w == [s EXCEPT !.stack[t] = IF r.err THEN @ ELSE SubSeq(@, 1, n)]
<1>1. Running /\ t \in conf.threads /\ n \in 1 .. Len(r.stack[t]) - 1 /\ After(w, t, elapsed)
  BY DEF Return
<1>2. unit \in Units /\ Hooked
  BY <1>1, UnitType, RunningHooked DEF IInv
<1> HIDE DEF unit
<1>3. /\ Good(r, OpenDepth(t, r.stack)) /\ r.stack[t] # <<>>
      /\ Extends(Flat(pages), Flat(r.pages))
  BY <1>2, PrehookGood
<1> HIDE DEF r
<1>4. /\ Good(w, OpenDepth(t, w.stack)) /\ w.stack[t] # <<>>
      /\ Extends(Flat(r.pages), Flat(w.pages))
  BY <1>1, <1>2, <1>3, PopGood
<1> HIDE DEF w
<1>5. Len(Flat(pages)) \in Nat
  BY <1>2, RecordedParts, GoodType DEF Hooked
<1>6. Extends(Flat(pages), Flat(w.pages))
  BY <1>3, <1>4, <1>5, GoodType, ExtendsOn
<1> QED
  BY <1>1, <1>4, <1>6, AfterKept

LEMMA SampleHookKept ==
  ASSUME IInv, NEW t \in Threads, NEW line \in BOOLEAN, NEW unset \in UnsetOps,
         NEW elapsed \in conf.elapses, SampleHook(t, line, unset, elapsed)
  PROVE  Kept
<1> DEFINE unit == HookUnit(elapsed)
           r == Prehook(t, unit)
           entry == r.stack[t][Len(r.stack[t])]
           w == IF r.err THEN r
                ELSE IF entry.begin = 0 THEN Unset(r, unset)
                ELSE IF line THEN Line(r, t, unit) ELSE Sample(r, t, unit)
<1>1. Running /\ t \in conf.threads /\ After(w, t, elapsed)
  BY DEF SampleHook
<1>2. unit \in Units /\ Hooked
  BY <1>1, UnitType, RunningHooked DEF IInv
<1> HIDE DEF unit
<1>3. /\ Good(r, OpenDepth(t, r.stack)) /\ r.stack[t] # <<>>
      /\ Extends(Flat(pages), Flat(r.pages))
  BY <1>2, PrehookGood
<1> DEFINE d == OpenDepth(t, r.stack)
<1> HIDE DEF r, d
<1>4. Good(r, d) /\ d[t] = Len(r.stack[t])
  BY <1>3 DEF d, OpenDepth
<1>5. Good(w, d) /\ w.stack = r.stack /\ Extends(Flat(r.pages), Flat(w.pages))
  <2>1. CASE r.err
    BY <1>4, <2>1, GoodType, ExtendsSelf
  <2>2. CASE ~r.err /\ entry.begin = 0
    BY <1>4, <2>2, UnsetGood
  <2>3. CASE ~r.err /\ entry.begin # 0 /\ line
    BY <1>2, <1>3, <1>4, <2>3, LineGood
  <2>4. CASE ~r.err /\ entry.begin # 0 /\ ~line
    BY <1>2, <1>4, <2>4, MarkGood
  <2> QED
    BY <2>1, <2>2, <2>3, <2>4
<1> HIDE DEF w
<1>6. Good(w, OpenDepth(t, w.stack)) /\ w.stack[t] # <<>>
  BY <1>3, <1>5 DEF d
<1>7. Len(Flat(pages)) \in Nat
  BY <1>2, RecordedParts, GoodType DEF Hooked
<1>8. Extends(Flat(pages), Flat(w.pages))
  BY <1>3, <1>5, <1>6, <1>7, GoodType, ExtendsOn
<1> QED
  BY <1>1, <1>6, <1>8, AfterKept

LEMMA MarkFrameKept ==
  ASSUME IInv, NEW op \in FrameOps, NEW elapsed \in conf.elapses, MarkFrame(op, elapsed)
  PROVE  Kept
<1> DEFINE unit == ClientUnit(elapsed)
           r == AtHook
           e == FrameEvent(op, unit)
           w == Want(r, e)
<1>1. /\ Running /\ pages' = w.pages /\ now' = now + elapsed /\ marks' = marks + 1
      /\ UNCHANGED <<conf, hooks, current, stack, status, altered, outs, files>>
  BY DEF MarkFrame, AtHook
<1>2. unit \in Units /\ Hooked /\ now + elapsed \in Nat
  BY <1>1, UnitType, RunningHooked DEF IInv
<1>3. r.pages = pages /\ r.stack = stack /\ r.err = FALSE
  BY RecordedParts
<1>4. e \in EventSet /\ Aside(e)
  <2>1. op \in Ops /\ Browser \in Tids /\ Root \in Fns
    BY DEF FrameOps, Ops, Tids, Fns
  <2> HIDE DEF unit
  <2>2. /\ e \in EventSet /\ e.op = op /\ e.sib = 0 /\ e.lines = 0
    BY <1>2, <2>1, NewEventType DEF FrameEvent
  <2> HIDE DEF e
  <2> QED
    BY <2>2 DEF Begun, FrameOps, Aside
<1> HIDE DEF e, r
<1>5. /\ Good(w, OpenDepth(current, stack)) /\ w.stack = r.stack /\ w.err = r.err
      /\ Extends(Flat(r.pages), Flat(w.pages))
  <2> DEFINE d == OpenDepth(current, stack)
  <2>1. Good(r, d)
    BY <1>2 DEF Hooked, r
  <2> HIDE DEF d
  <2>2. /\ Good(w, d) /\ w.stack = r.stack /\ w.err = r.err
        /\ Extends(Flat(r.pages), Flat(w.pages))
    BY <1>4, <2>1, WantGood
  <2> QED
    BY <2>2 DEF d
<1> HIDE DEF w
<1>6. Kinds'
  <2>1. marks + 1 \in Nat
    BY DEF IInv, Kinds
  <2> QED
    BY <1>1, <1>2, <2>1 DEF IInv, Kinds
<1>7. ScopesKept'
  <2>1. w.err = (status' = "error") /\ current = OnThread' /\ stack' = w.stack
    BY <1>1, <1>3, <1>5 DEF Running, OnThread
  <2>2. Good(w, OpenDepth(current, w.stack))
    BY <1>3, <1>5
  <2> QED
    BY <1>1, <2>1, <2>2, ScopesNext
<1>8. FilesKept'
  <2>1. files = <<>> /\ Len(files) <= Len(outs) /\ files \in Seq(Range(files))
    BY <1>1, NoFiles DEF IInv, FilesKept
  <2>2. files' = <<>> /\ Len(files') <= Len(outs') /\ files' \in Seq(Range(files'))
    BY <1>1, <2>1
  <2> QED
    BY <2>2 DEF FilesKept
<1>9. CompressKept'
  BY <1>1, CompressNext
<1> QED
  BY <1>1, <1>3, <1>5, <1>6, <1>7, <1>8, <1>9 DEF Kept, IInv

LEMMA StopKept ==
  ASSUME IInv, NEW t \in Threads, NEW o \in conf.outputs, NEW elapsed \in conf.elapses,
         Stop(t, o, elapsed)
  PROVE  Kept
<1> DEFINE unit == HookUnit(elapsed)
           r == Prehook(t, unit)
           w == ClearStack(r, t, unit)
<1>1. /\ Running /\ t \in conf.threads /\ pages' = w.pages /\ stack' = w.stack /\ current' = t
      /\ hooks' = hooks + 1 /\ now' = now + elapsed
      /\ status' = IF w.err THEN "error" ELSE "stopping"
      /\ outs' = o /\ UNCHANGED <<conf, marks, altered, files>>
  BY DEF Stop
<1>2. unit \in Units /\ Hooked /\ now + elapsed \in Nat /\ hooks + 1 \in Nat
  BY <1>1, UnitType, RunningHooked DEF IInv
<1> HIDE DEF unit
<1>3. /\ Good(r, OpenDepth(t, r.stack)) /\ r.stack[t] # <<>>
      /\ Extends(Flat(pages), Flat(r.pages))
  BY <1>2, PrehookGood
<1> HIDE DEF r
<1>4. /\ Good(w, OpenDepth(NoThread, r.stack)) /\ w.stack = r.stack
      /\ Extends(Flat(r.pages), Flat(w.pages))
  BY <1>2, <1>3, ClearGood
<1> HIDE DEF w
<1>5. Len(Flat(pages)) \in Nat
  BY <1>2, RecordedParts, GoodType DEF Hooked
<1>6. Extends(Flat(pages), Flat(w.pages))
  BY <1>3, <1>4, <1>5, GoodType, ExtendsOn
<1>7. Kinds'
  <2>1. stack'[current'] # <<>>
    BY <1>1, <1>3, <1>4
  <2> QED
    BY <1>1, <1>2, <2>1 DEF IInv, Kinds
<1>8. ScopesKept'
  <2>1. w.err \in BOOLEAN
    BY <1>4, GoodType
  <2>2. w.err = (status' = "error")
    BY <1>1, <2>1
  <2>3. NoThread = OnThread'
    BY <1>1, <2>1 DEF OnThread, Running
  <2>4. Good(w, OpenDepth(NoThread, w.stack))
    BY <1>4
  <2> QED
    BY <1>1, <2>2, <2>3, <2>4, ScopesNext
<1>9. FilesKept'
  <2>1. files = <<>> /\ Len(files) <= Len(o) /\ files \in Seq(Range(files))
    BY <1>1, NoFiles DEF IInv, FilesKept
  <2>2. files' = <<>> /\ Len(files') <= Len(outs') /\ files' \in Seq(Range(files'))
    BY <1>1, <2>1
  <2> QED
    BY <2>2 DEF FilesKept
<1>10. CompressKept'
  BY <1>1, CompressNext
<1> QED
  BY <1>1, <1>6, <1>7, <1>8, <1>9, <1>10 DEF Kept, IInv

\* A sequence with one more value.
LEMMA OneMore ==
  ASSUME NEW s, s \in Seq(Range(s)), NEW x
  PROVE  LET a == Append(s, x)
         IN  /\ a \in Seq(Range(a)) /\ Len(a) = Len(s) + 1 /\ Len(s) \in Nat
             /\ a[Len(s) + 1] = x /\ \A i \in 1 .. Len(s) : a[i] = s[i]
<1> DEFINE S == Range(s) \cup {x}
           a == Append(s, x)
<1>1. s \in Seq(S) /\ x \in S /\ Len(s) \in Nat
  <2> HIDE DEF S
  <2>1. Range(s) \subseteq S /\ x \in S
    BY DEF S
  <2> QED
    BY <2>1
<1>2. /\ a \in Seq(S) /\ Len(a) = Len(s) + 1 /\ a[Len(s) + 1] = x
      /\ \A i \in 1 .. Len(s) : a[i] = s[i]
  BY <1>1, AppendProperties
<1> HIDE DEF a
<1>3. a \in Seq(Range(a))
  <2>1. DOMAIN a = 1 .. Len(a) /\ a = [i \in 1 .. Len(a) |-> a[i]] /\ Len(a) \in Nat
    BY <1>1, <1>2
  <2>2. \A i \in 1 .. Len(a) : a[i] \in Range(a)
    BY <2>1 DEF Range
  <2> QED
    BY <2>1, <2>2, SeqDef
<1> QED
  BY <1>1, <1>2, <1>3 DEF a

\* A report has been made of each file, and the events have stayed.
LEMMA SkipFileKept ==
  ASSUME IInv, SkipFile
  PROVE  Kept
<1> DEFINE x == NoFile(Output)
<1>1. /\ status = "stopping" /\ Len(files) < Len(outs) /\ files' = Append(files, x)
      /\ UNCHANGED <<pages, conf, trace, status, altered, outs>>
  BY DEF SkipFile, Writing
<1>2. x.opened = FALSE
  BY DEF NoFile, File
<1> HIDE DEF x
<1>3. UNCHANGED <<pages, conf, now, hooks, marks, current, stack, status, altered, outs>>
  BY <1>1 DEF trace
<1>4. Kinds'
  BY <1>3 DEF IInv, Kinds
<1>5. ScopesKept'
  BY <1>3 DEF IInv, ScopesKept, Recorded, Good, Sound, Refers, Tracks, Placed, Ordered, Tid,
              OpenDepth, OnThread, Running
<1>6. /\ files' \in Seq(Range(files')) /\ Len(files') = Len(files) + 1 /\ Len(files) \in Nat
      /\ files'[Len(files) + 1] = x /\ \A i \in 1 .. Len(files) : files'[i] = files[i]
  BY <1>1, OneMore DEF IInv, FilesKept
<1>7. Len(outs) \in Nat
  <2>1. outs \in conf.outputs \/ outs = <<>>
    BY DEF IInv, Kinds
  <2>2. conf.outputs \subseteq Seq(Formats \cup {NotString})
    BY ConfType DEF IInv
  <2> QED
    BY <2>1, <2>2
<1>8. FilesKept'
  <2>1. Len(files') <= Len(outs')
    BY <1>1, <1>3, <1>6, <1>7
  <2>2. ASSUME NEW i \in 1 .. Len(files'), files'[i].opened
        PROVE  altered' /\ (files[i].report = Report(files[i].format, Flat(pages)))'
    <3>1. i \in 1 .. Len(files) /\ files'[i] = files[i]
      BY <1>2, <1>6, <2>2
    <3>2. altered /\ files[i].report = Report(files[i].format, Flat(pages))
      BY <2>2, <3>1 DEF IInv, FilesKept
    <3> QED
      BY <1>3, <3>1, <3>2 DEF Report
  <2>3. ~Running'
    BY <1>1, <1>3 DEF Running
  <2> QED
    BY <1>6, <2>1, <2>2, <2>3 DEF FilesKept
<1>9. Extends(Flat(pages), Flat(pages'))
  <2>1. Len(Flat(pages)) \in Nat
    BY RecordedParts, GoodType DEF IInv, ScopesKept
  <2> QED
    BY <1>3, <2>1, ExtendsSelf
<1>10. CompressKept'
  <2>1. ~Running'
    BY <1>1, <1>3 DEF Running
  <2> QED
    BY <1>3, <2>1, CompressNext
<1> QED
  BY <1>4, <1>5, <1>8, <1>9, <1>10 DEF Kept, IInv

LEMMA CloseKept ==
  ASSUME IInv, Close
  PROVE  Kept
<1>1. /\ status = "stopping" /\ status' = "closed"
      /\ UNCHANGED <<pages, conf, now, hooks, marks, current, stack, altered, outs, files>>
  BY DEF Close, trace
<1>2. Kinds'
  BY <1>1 DEF IInv, Kinds
<1>3. ScopesKept'
  <2>1. Recorded.err = (status' = "error") /\ NoThread = OnThread'
    BY <1>1, RecordedParts DEF OnThread, Running
  <2>2. Good(Recorded, OpenDepth(NoThread, Recorded.stack))
    BY <1>1, RecordedParts DEF IInv, ScopesKept, OnThread, Running
  <2> QED
    BY <1>1, <2>1, <2>2, RecordedParts, ScopesNext
<1>4. FilesKept'
  BY <1>1 DEF IInv, FilesKept, Running, Report
<1>5. Extends(Flat(pages), Flat(pages'))
  <2>1. Len(Flat(pages)) \in Nat
    BY RecordedParts, GoodType DEF IInv, ScopesKept
  <2> QED
    BY <1>1, <2>1, ExtendsSelf
<1>6. CompressKept'
  <2>1. ~Running'
    BY <1>1 DEF Running
  <2> QED
    BY <1>1, <2>1, CompressNext
<1> QED
  BY <1>2, <1>3, <1>4, <1>5, <1>6 DEF Kept, IInv

\* g is es with the times and some of the operations written again: a scope
\* may become one that reports leave out.
Rewording(es, g) ==
  /\ g \in Seq(EventSet) /\ Len(g) = Len(es)
  /\ \A i \in 1 .. Len(es) :
       /\ g[i].sib = es[i].sib /\ g[i].lines = es[i].lines
       /\ g[i].fn = es[i].fn /\ g[i].tid = es[i].tid
       /\ g[i].op = es[i].op \/ g[i].op = "ignore_scope"

\* Times are what is left of them in their width.
LEMMA TimeType ==
  ASSUME NEW a \in Int, NEW b \in Nat
  PROVE  (a - b) % TimeModulus \in Int
<1> DEFINE c == a - b
<1>1. c \in Int /\ TimeModulus \in Nat /\ TimeModulus > 0
  BY Constants
<1> HIDE DEF c
<1>2. c % TimeModulus \in 0 .. TimeModulus - 1
  BY <1>1
<1> QED
  BY <1>1, <1>2 DEF c

\* timeline_adjust
LEMMA AdjustedType ==
  ASSUME NEW es \in Seq(EventSet)
  PROVE  Rewording(es, Adjusted(es)) /\ \A i \in 1 .. Len(es) : Adjusted(es)[i].op = es[i].op
<1> DEFINE n == Len(es)
           time(i) == (es[i].time - es[i].ov) % TimeModulus
           one(i) == IF Timed(es[i].op) THEN [es[i] EXCEPT !.time = time(i)] ELSE es[i]
           g == Adjusted(es)
<1>1. n \in Nat /\ DOMAIN es = 1 .. n /\ \A i \in 1 .. n : es[i] \in EventSet
  OBVIOUS
<1>2. g = [i \in 1 .. n |-> one(i)]
  BY <1>1 DEF Adjusted
<1>3. ASSUME NEW i \in 1 .. n
      PROVE  /\ one(i) \in EventSet /\ one(i).sib = es[i].sib /\ one(i).lines = es[i].lines
             /\ one(i).fn = es[i].fn /\ one(i).tid = es[i].tid /\ one(i).op = es[i].op
  <2>1. es[i] \in EventSet
    BY <1>1
  <2>2. time(i) \in Int
    <3>1. es[i].time \in Int /\ es[i].ov \in Nat
      BY <2>1 DEF EventSet
    <3> QED
      BY <3>1, TimeType
  <2> HIDE DEF time
  <2> QED
    BY <2>1, <2>2 DEF EventSet
<1> HIDE DEF one, g
<1>4. g \in Seq(EventSet) /\ Len(g) = n /\ \A i \in 1 .. n : g[i] = one(i)
  BY <1>1, <1>2, <1>3
<1> QED
  BY <1>1, <1>3, <1>4 DEF Rewording, g

\* Events that differ in their times alone.
SameButTimes(es, g, n) ==
  /\ Len(es) = n /\ Len(g) = n
  /\ \A i \in 1 .. n : /\ g[i].sib = es[i].sib /\ g[i].lines = es[i].lines
                        /\ g[i].op = es[i].op /\ g[i].tid = es[i].tid /\ g[i].fn = es[i].fn

\* Who owns a line is a matter of everything but times, and so is what an event
\* refers to.
LEMMA OwnedSame ==
  ASSUME NEW es, NEW g, NEW n \in Nat, SameButTimes(es, g, n), Owned(es)
  PROVE  Owned(g)
<1> USE DEF SameButTimes
<1>1. PICK own \in [Nat -> Nat] : Owns(es, own)
  BY DEF Owned
<1>2. \A i \in 1 .. n : \A c \in 1 .. i - 1 : c \in 1 .. n
  OBVIOUS
<1>3. \A i \in 1 .. n : \A c : StillOpen(g, c, i) <=> StillOpen(es, c, i)
  BY <1>2 DEF StillOpen
<1>4. \A b, j \in 1 .. n : LineOf(g, own, b, j) <=> LineOf(es, own, b, j)
  BY DEF LineOf
<1>5. Forward(g)
  BY <1>1 DEF Owns, Forward
<1>6. LastLines(g, own)
  BY <1>1, <1>4 DEF Owns, LastLines
<1>7. EachLine(g, own)
  <2> SUFFICES ASSUME NEW i \in 1 .. n, g[i].op = "line_scope"
               PROVE  /\ g[i].sib = 0 /\ StillOpen(g, own[i], i) /\ g[i].tid # NoThread
                      /\ g[i].lines # 0 => g[i].lines \in 1 .. i - 1
                                            /\ LineOf(g, own, own[i], g[i].lines)
                      /\ \A j \in 1 .. i - 1 : LineOf(g, own, own[i], j) => j <= g[i].lines
                      /\ \A c \in 1 .. i - 1 : StillOpen(g, c, i) =>
                           c <= own[i] /\ (g[c].sib # 0 => g[own[i]].sib # 0)
    BY DEF EachLine
  <2>1. es[i].op = "line_scope"
    OBVIOUS
  <2>2. /\ es[i].sib = 0 /\ StillOpen(es, own[i], i) /\ es[i].tid # NoThread
        /\ es[i].lines # 0 => es[i].lines \in 1 .. i - 1
                               /\ LineOf(es, own, own[i], es[i].lines)
        /\ \A j \in 1 .. i - 1 : LineOf(es, own, own[i], j) => j <= es[i].lines
        /\ \A c \in 1 .. i - 1 : StillOpen(es, c, i) =>
             c <= own[i] /\ (es[c].sib # 0 => es[own[i]].sib # 0)
    BY <1>1, <2>1 DEF Owns, EachLine
  <2>3. own[i] \in 1 .. n
    BY <1>2, <2>2 DEF StillOpen
  <2>4. g[i].sib = 0 /\ StillOpen(g, own[i], i) /\ g[i].tid # NoThread
    BY <1>3, <2>2
  <2>5. g[i].lines # 0 => g[i].lines \in 1 .. i - 1 /\ LineOf(g, own, own[i], g[i].lines)
    BY <1>2, <1>4, <2>2, <2>3
  <2>6. \A j \in 1 .. i - 1 : LineOf(g, own, own[i], j) => j <= g[i].lines
    BY <1>2, <1>4, <2>2, <2>3
  <2>7. \A c \in 1 .. i - 1 : StillOpen(g, c, i) =>
          c <= own[i] /\ (g[c].sib # 0 => g[own[i]].sib # 0)
    <3> TAKE c \in 1 .. i - 1
    <3> HAVE StillOpen(g, c, i)
    <3>1. c \in 1 .. n /\ StillOpen(es, c, i)
      BY <1>2, <1>3
    <3>2. c <= own[i] /\ (es[c].sib # 0 => es[own[i]].sib # 0)
      BY <2>2, <3>1
    <3> QED
      BY <2>3, <3>1, <3>2
  <2> QED
    BY <2>4, <2>5, <2>6, <2>7
<1>8. Owns(g, own)
  BY <1>5, <1>6, <1>7 DEF Owns
<1> QED
  BY <1>8 DEF Owned

LEMMA LinkedSame ==
  ASSUME NEW es, NEW g, NEW n \in Nat, SameButTimes(es, g, n), Linked(es)
  PROVE  Linked(g)
<1> USE DEF SameButTimes
<1>1. \A i \in 1 .. n :
        /\ es[i].sib \in 0 .. n /\ es[i].lines \in 0 .. n
        /\ es[i].sib # 0 => /\ es[i].sib \in 1 .. n
                            /\ es[es[i].sib].sib = i /\ es[i].fn = es[es[i].sib].fn
                            /\ es[i].tid = es[es[i].sib].tid
  BY IndexNonzero DEF Linked
<1>2. ASSUME NEW i \in 1 .. n
      PROVE  /\ g[i].sib \in 0 .. n /\ g[i].lines \in 0 .. n
             /\ g[i].sib # 0 => /\ g[g[i].sib].sib = i
                                /\ g[i].fn = g[g[i].sib].fn /\ g[i].tid = g[g[i].sib].tid
  BY <1>1
<1> QED
  BY <1>2 DEF Linked

\* timeline_compress
LEMMA CompressedType ==
  ASSUME NEW es \in Seq(EventSet), NEW threshold
  PROVE  Rewording(es, Compressed(es, threshold))
<1> DEFINE n == Len(es)
           short == Short(es, threshold)
           one(i) == IF i \in short THEN [es[i] EXCEPT !.op = "ignore_scope"] ELSE es[i]
           g == Compressed(es, threshold)
<1>1. n \in Nat /\ DOMAIN es = 1 .. n /\ \A i \in 1 .. n : es[i] \in EventSet
  OBVIOUS
<1>2. g = [i \in 1 .. n |-> one(i)]
  BY <1>1 DEF Compressed
<1> HIDE DEF short
<1>3. ASSUME NEW i \in 1 .. n
      PROVE  /\ one(i) \in EventSet /\ one(i).sib = es[i].sib /\ one(i).lines = es[i].lines
             /\ one(i).fn = es[i].fn /\ one(i).tid = es[i].tid
             /\ one(i).op = es[i].op \/ one(i).op = "ignore_scope"
  <2>1. es[i] \in EventSet /\ "ignore_scope" \in Ops
    BY <1>1 DEF Ops
  <2> QED
    BY <2>1 DEF EventSet
<1> HIDE DEF one, g
<1>4. g \in Seq(EventSet) /\ Len(g) = n /\ \A i \in 1 .. n : g[i] = one(i)
  BY <1>1, <1>2, <1>3
<1> QED
  BY <1>1, <1>3, <1>4 DEF Rewording, g

LEMMA RewordingOn ==
  ASSUME NEW es, NEW g, NEW h, Rewording(es, g), Rewording(g, h)
  PROVE  Rewording(es, h)
BY DEF Rewording

LEMMA PreparedType ==
  ASSUME Flat(pages) \in Seq(EventSet)
  PROVE  Rewording(Flat(pages), Prepared) /\ (altered => Prepared = Flat(pages))
<1> DEFINE es == Flat(pages)
           g == Adjusted(es)
           h == Compressed(g, conf.threshold)
<1>1. Rewording(es, g) /\ g \in Seq(EventSet)
  BY AdjustedType DEF Rewording
<1>2. Rewording(es, h)
  <2> HIDE DEF g, es
  <2>1. Rewording(g, h)
    BY <1>1, CompressedType
  <2> HIDE DEF h
  <2> QED
    BY <1>1, <2>1, RewordingOn
<1>3. Rewording(es, es)
  <2> HIDE DEF es
  <2> QED
    BY DEF Rewording, es
<1>4. Prepared = IF altered THEN es ELSE IF conf.threshold # 0 THEN h ELSE g
  BY DEF Prepared
<1> HIDE DEF h, g, es
<1> QED
  BY <1>1, <1>2, <1>3, <1>4 DEF es

\* The first report leaves out what is short.
LEMMA PreparedLeftOut ==
  ASSUME Flat(pages) \in Seq(EventSet), Linked(Flat(pages)), Owned(Flat(pages)),
         ~altered, conf.threshold \in Nat, conf.threshold # 0
  PROVE  LeftOut(Prepared, conf.threshold)
<1> DEFINE es == Flat(pages)
           g == Adjusted(es)
           n == Len(es)
           threshold == conf.threshold
<1>1. Rewording(es, g) /\ \A i \in 1 .. n : g[i].op = es[i].op
  BY AdjustedType
<1>2. n \in Nat /\ Len(es) = n /\ Len(g) = n /\ g \in Seq(EventSet)
      /\ Linked(es) /\ Owned(es) /\ threshold \in Nat /\ threshold # 0
  BY <1>1 DEF Rewording
<1>3. Prepared = Compressed(g, threshold)
  BY DEF Prepared
<1> HIDE DEF es, g, n, threshold
<1>4. SameButTimes(es, g, n)
  BY <1>1, <1>2 DEF Rewording, SameButTimes
<1>5. Owned(g)
  BY <1>2, <1>4, OwnedSame
<1>6. Linked(g)
  BY <1>2, <1>4, LinkedSame
<1>7. LeftOut(Compressed(g, threshold), threshold)
  BY <1>2, <1>5, <1>6, CompressedLeftOut
<1> QED
  BY <1>3, <1>7 DEF threshold

LEMMA WriteFileKept ==
  ASSUME IInv, NEW closed \in BOOLEAN, WriteFile(closed)
  PROVE  Kept
<1> DEFINE es == Flat(pages)
           g == Prepared
           x == File(Output, TRUE, closed, Report(Output, g))
<1>1. /\ status = "stopping" /\ Len(files) < Len(outs) /\ files' = Append(files, x)
      /\ pages' = Refilled(pages, g) /\ altered' = TRUE
      /\ UNCHANGED <<conf, now, hooks, marks, current, stack, status, outs>>
  BY DEF WriteFile, Writing, trace, Refilled
<1>2. /\ Good(Recorded, OpenDepth(NoThread, stack)) /\ FilledWith(EventSet, pages)
      /\ es \in Seq(EventSet) /\ Len(es) \in Nat /\ Count(pages) = Len(es)
  BY <1>1, RecordedParts, GoodType DEF IInv, ScopesKept, OnThread, Running
<1>3. Rewording(es, g) /\ (altered => g = es)
  BY <1>2, PreparedType
<1>4. x.opened = TRUE /\ x.report = Report(x.format, g) /\ x.format = Output
  BY DEF File
<1> HIDE DEF es, g, x
<1>5. Flat(pages') = g /\ FilledWith(EventSet, pages')
  <2>1. g \in Seq(EventSet) /\ Len(g) = Count(pages)
    BY <1>2, <1>3 DEF Rewording
  <2> QED
    BY <1>1, <1>2, <2>1, FlatRefilled
<1>6. Kinds'
  BY <1>1 DEF IInv, Kinds
<1>7. Sound(es, stack) /\ Tracks(es, stack, OpenDepth(NoThread, stack))
  BY <1>1, <1>2, RecordedParts DEF Good, es
<1>8. ScopesKept'
  <2> DEFINE d == OpenDepth(NoThread, stack)
  <2>1. \A i \in 1 .. Len(es) : es[i].lines \in 0 .. Len(es)
    BY <1>7 DEF Sound, Linked
  <2>2. /\ g \in Seq(EventSet) /\ Len(g) = Len(es)
        /\ \A i \in 1 .. Len(es) :
             /\ g[i].sib = es[i].sib /\ g[i].fn = es[i].fn /\ g[i].tid = es[i].tid
             /\ g[i].lines \in 0 .. Len(es)
             /\ g[i].op = es[i].op \/ g[i].op # "enter_scope"
    BY <1>3, <2>1 DEF Rewording
  <2>3. /\ (Recorded.pages = pages /\ Recorded.stack = stack
             /\ Recorded.err = (status = "error"))'
        /\ (Recorded = [pages |-> Recorded.pages, stack |-> Recorded.stack,
                         err |-> Recorded.err])'
    BY RecordedParts, PTL
  <2>4. (OpenDepth(OnThread, stack))' = d /\ (Recorded.stack)' = stack
        /\ (Flat(Recorded.pages))' = g
    BY <1>1, <1>5, <2>3 DEF OpenDepth, OnThread, Running
  <2> HIDE DEF d
  <2>5. Sound(es, stack) /\ Placed(es, stack, d)
    BY <1>7 DEF d, Tracks
  <2>6. Sound(g, stack) /\ Placed(g, stack, d)
    BY <2>2, <2>5, Reworded
  <2>7. (Sound(Flat(Recorded.pages), Recorded.stack))'
    BY <1>1, <2>4, <2>6 DEF Sound, Refers, Tid
  <2>8. (Tracks(Flat(Recorded.pages), Recorded.stack, OpenDepth(OnThread, stack)))'
    BY <1>1, <2>4, <2>6 DEF Tracks, Placed, Ordered, Tid
  <2>9. (FilledWith(EventSet, Recorded.pages))' /\ (Recorded.err)' \in BOOLEAN
    BY <1>5, <2>3
  <2> QED
    BY <2>3, <2>7, <2>8, <2>9 DEF ScopesKept, Good
<1>9. FilesKept'
  <2>1. /\ files' \in Seq(Range(files')) /\ Len(files') = Len(files) + 1 /\ Len(files) \in Nat
        /\ files'[Len(files) + 1] = x /\ \A i \in 1 .. Len(files) : files'[i] = files[i]
    BY <1>1, OneMore DEF IInv, FilesKept
  <2>2. Len(files') <= Len(outs')
    <3>1. outs \in conf.outputs \/ outs = <<>>
      BY DEF IInv, Kinds
    <3>2. Len(outs) \in Nat
      BY <3>1, ConfType DEF IInv
    <3> QED
      BY <1>1, <2>1, <3>2
  <2>3. ASSUME NEW i \in 1 .. Len(files'), files'[i].opened
        PROVE  files'[i].report = Report(files'[i].format, g)
    <3>1. CASE i = Len(files) + 1
      BY <1>4, <2>1, <3>1
    <3>2. CASE i # Len(files) + 1
      <4>1. i \in 1 .. Len(files) /\ files'[i] = files[i]
        BY <2>1, <3>2
      <4>2. altered /\ files[i].report = Report(files[i].format, es)
        BY <2>3, <4>1 DEF IInv, FilesKept, es
      <4> QED
        BY <1>3, <4>1, <4>2
    <3> QED
      BY <3>1, <3>2
  <2>4. \A i \in 1 .. Len(files') : files'[i].opened =>
           altered' /\ (files[i].report = Report(files[i].format, Flat(pages)))'
    BY <1>1, <1>5, <2>3 DEF Report
  <2>5. ~Running'
    BY <1>1 DEF Running
  <2> QED
    BY <2>1, <2>2, <2>4, <2>5 DEF FilesKept
<1>10. Extends(es, Flat(pages'))
  BY <1>2, <1>3, <1>5 DEF Extends, Rewording, Key
<1>11. CompressKept'
  <2>1. ~Running'
    BY <1>1 DEF Running
  <2>2. ASSUME conf.threshold # 0 PROVE LeftOut(g, conf.threshold)
    <3>1. CASE altered
      BY <1>3, <2>2, <3>1 DEF IInv, CompressKept, es
    <3>2. CASE ~altered
      <4>1. Linked(Flat(pages)) /\ Owned(Flat(pages)) /\ Flat(pages) \in Seq(EventSet)
        BY <1>7, <3>2 DEF Sound, Tracks, es
      <4>2. conf.threshold \in Nat
        BY ConfType DEF IInv
      <4> QED
        BY <2>2, <3>2, <4>1, <4>2, PreparedLeftOut DEF g
    <3> QED
      BY <3>1, <3>2
  <2> QED
    BY <1>1, <1>5, <2>1, <2>2 DEF CompressKept
<1> QED
  BY <1>6, <1>8, <1>9, <1>10, <1>11 DEF Kept, IInv, es
-----------------------------------------------------------------------------
(* The theorems *)

LEMMA InitKept == Init => IInv
<1> SUFFICES ASSUME Init PROVE IInv
  OBVIOUS
<1>1. /\ pages = << <<>> >> /\ conf \in Confs /\ now = 0 /\ hooks = 0 /\ marks = 0
      /\ current = NoThread /\ status = "running" /\ altered = FALSE
      /\ outs = <<>> /\ files = <<>>
      /\ stack = [t \in Threads |-> IF t = Main THEN NewStack(Main) ELSE <<>>]
  BY DEF Init, TimelineInit
<1>2. Kinds
  BY <1>1 DEF Kinds
<1>3. FilesKept
  BY <1>1 DEF FilesKept, Range
<1>4. FilledWith(EventSet, pages) /\ Count(pages) = 0
  BY <1>1, TimelineAssumption DEF FilledWith, Count
<1>5. Flat(pages) \in Seq(EventSet) /\ Len(Flat(pages)) = 0
  BY <1>4, FlatType
<1>6. /\ stack \in Stacks /\ Rooted(stack)
      /\ \A t \in Threads : \A k \in 1 .. Len(stack[t]) : stack[t][k].begin = 0
  <2>1. /\ NewStack(Main) \in Seq(EntrySet)
        /\ \A k \in 1 .. Len(NewStack(Main)) :
             /\ NewStack(Main)[k].begin = 0
             /\ IF k = 1 THEN NewStack(Main)[k].fn = Root ELSE NewStack(Main)[k].fn \in Funcs
    BY Constants, NewStackType
  <2> QED
    BY <1>1, <2>1 DEF Stacks, Rooted
<1>7. Sound(Flat(pages), stack)
  BY <1>5, <1>6 DEF Sound, Linked, Refers
<1>8. Tracks(Flat(pages), stack, OpenDepth(NoThread, stack))
  <2> DEFINE d == OpenDepth(NoThread, stack)
  <2>1. d \in [Threads -> Nat] /\ \A t \in Threads : d[t] \in Nat /\ d[t] <= Len(stack[t])
    BY <1>6, DepthType
  <2>2. \A t \in Threads : \A k \in 1 .. d[t] : stack[t][k].begin = 0
    <3> TAKE t \in Threads
    <3> TAKE k \in 1 .. d[t]
    <3>1. Len(stack[t]) \in Nat
      BY <1>6 DEF Stacks
    <3>2. k \in 1 .. Len(stack[t])
      BY <2>1, <3>1
    <3> QED
      BY <1>6, <3>2
  <2> HIDE DEF d
  <2>3. Tracks(Flat(pages), stack, d)
    <3>1. Placed(Flat(pages), stack, d)
      BY <1>5, <2>1, <2>2 DEF Placed, Depths, Live, Covered, Ordered
    <3>2. Owned(Flat(pages))
      <4>1. [i \in Nat |-> 0] \in [Nat -> Nat]
        OBVIOUS
      <4>2. \A own : Owns(Flat(pages), own)
        BY <1>5 DEF Owns, Forward, LastLines, EachLine
      <4> QED
        BY <4>1, <4>2 DEF Owned
    <3>3. Opens(Flat(pages), stack, d)
      BY <2>2 DEF Opens
    <3> QED
      BY <3>1, <3>2, <3>3 DEF Tracks
  <2> QED
    BY <2>3 DEF d
<1>9. ScopesKept
  <2>1. OnThread = NoThread /\ Recorded.err = FALSE
    BY <1>1, RecordedParts DEF OnThread, Running
  <2> QED
    BY <1>4, <1>7, <1>8, <2>1, RecordedParts DEF ScopesKept, Good
<1>10. CompressKept
  BY <1>1 DEF CompressKept
<1> QED
  BY <1>2, <1>3, <1>9, <1>10 DEF IInv

\* Every step, and a stutter.
LEMMA NextKept == ASSUME IInv, [Next]_vars PROVE Kept
<1>1. ASSUME NEW t \in Threads, NEW elapsed \in conf.elapses,
             \/ \E f \in Funcs : Call(t, f, elapsed)
             \/ \E n \in 1 .. MaxStack : Return(t, n, elapsed)
             \/ \E line \in BOOLEAN, unset \in UnsetOps : SampleHook(t, line, unset, elapsed)
             \/ \E o \in conf.outputs : Stop(t, o, elapsed)
      PROVE  Kept
  <2>1. CASE \E f \in Funcs : Call(t, f, elapsed)
    BY <2>1, CallKept
  <2>2. CASE \E n \in 1 .. MaxStack : Return(t, n, elapsed)
    BY <2>2, ReturnKept
  <2>3. CASE \E line \in BOOLEAN, unset \in UnsetOps : SampleHook(t, line, unset, elapsed)
    BY <2>3, SampleHookKept
  <2>4. CASE \E o \in conf.outputs : Stop(t, o, elapsed)
    BY <2>4, StopKept
  <2> QED
    BY <1>1, <2>1, <2>2, <2>3, <2>4
<1>2. ASSUME NEW op \in FrameOps, NEW elapsed \in conf.elapses, MarkFrame(op, elapsed)
      PROVE  Kept
  BY <1>2, MarkFrameKept
<1>3. ASSUME NEW closed \in BOOLEAN, WriteFile(closed) PROVE Kept
  BY <1>3, WriteFileKept
<1>4. CASE SkipFile
  BY <1>4, SkipFileKept
<1>5. CASE Close
  BY <1>5, CloseKept
<1>6. CASE UNCHANGED vars
  <2>1. UNCHANGED <<pages, conf, now, hooks, marks, current, stack, status, altered, outs, files>>
    BY <1>6 DEF vars, trace
  <2>2. Kinds'
    BY <2>1 DEF IInv, Kinds
  <2>3. ScopesKept'
    BY <2>1 DEF IInv, ScopesKept, Recorded, Good, Sound, Refers, Tracks, Placed, Ordered, Tid,
                OpenDepth, OnThread, Running
  <2>4. FilesKept'
    BY <2>1 DEF IInv, FilesKept, Running, Report
  <2>6. CompressKept'
    BY <2>1 DEF IInv, CompressKept, Running
  <2>5. Extends(Flat(pages), Flat(pages'))
    <3>1. Len(Flat(pages)) \in Nat
      BY RecordedParts, GoodType DEF IInv, ScopesKept
    <3> QED
      BY <2>1, <3>1, ExtendsSelf
  <2> QED
    BY <2>2, <2>3, <2>4, <2>5, <2>6 DEF Kept, IInv
<1> QED
  BY <1>1, <1>2, <1>3, <1>4, <1>5, <1>6 DEF Next

\* Whatever threads, functions, options and limits there are, what a session
\* has recorded is sound: its pages are filled in order, the scopes that are
\* open are those of the calls in progress that the layout shows, and what was
\* written shows the events as they are.
THEOREM RecordingKeepsIInv == Spec => []IInv
<1>1. IInv /\ [Next]_vars => IInv'
  BY NextKept DEF Kept
<1> QED
  BY <1>1, InitKept, PTL DEF Spec

\* Every variable of a session holds a value of its kind, stacks begin with
\* their root, and what an event or an entry refers to is an event.
THEOREM RecordingAlwaysTypeOK == Spec => []TypeOK
<1>1. ASSUME IInv PROVE TypeOK
  <2> DEFINE es == Flat(pages)
  <2>1. /\ Sound(es, stack) /\ Count(pages) = Len(es) /\ es \in Seq(EventSet)
    BY <1>1, RecordedParts, GoodType DEF IInv, ScopesKept, Good
  <2> HIDE DEF es
  <2>2. \A t \in Threads : stack[t] # <<>> =>
          /\ stack[t][1].fn = Root
          /\ \A i \in DOMAIN stack[t] : /\ i > 1 => stack[t][i].fn \in Funcs
                                        /\ stack[t][i].begin \in 0 .. Count(pages)
    <3> TAKE t \in Threads
    <3> HAVE stack[t] # <<>>
    <3>1. stack[t] \in Seq(EntrySet)
      BY <2>1 DEF Sound, Stacks
    <3>2. DOMAIN stack[t] = 1 .. Len(stack[t]) /\ 1 \in 1 .. Len(stack[t])
      BY <3>1
    <3>3. \A k \in 1 .. Len(stack[t]) :
            /\ IF k = 1 THEN stack[t][k].fn = Root ELSE stack[t][k].fn \in Funcs
            /\ stack[t][k].begin \in 0 .. Len(es)
      BY <2>1 DEF Sound, Rooted, Refers
    <3>4. \A k \in 1 .. Len(stack[t]) : k > 1 => k # 1
      OBVIOUS
    <3> QED
      BY <2>1, <3>2, <3>3, <3>4
  <2>3. \A e \in Range(es) : e.sib \in 0 .. Count(pages) /\ e.lines \in 0 .. Count(pages)
    BY <2>1 DEF Range, Sound, Linked
  <2>4. Kinds /\ Len(files) <= Len(outs)
    BY <1>1 DEF IInv, FilesKept
  <2> QED
    BY <2>2, <2>3, <2>4 DEF TypeOK, Kinds, Events, es
<1> QED
  BY <1>1, RecordingKeepsIInv, PTL

\* The two ends of every scope refer to each other, whatever order hooks fire
\* in on whatever threads, and whichever events are refused; in the merged
\* layout scopes without an end are those of the running thread's calls in
\* progress, and a stop leaves none.
THEOREM EndsAlwaysMeet == Spec => []EndsMeet
<1>1. ASSUME IInv PROVE EndsMeet
  <2> DEFINE es == Flat(pages)
             d == OpenDepth(OnThread, stack)
  <2>1. /\ Linked(es) /\ es \in Seq(EventSet) /\ stack \in Stacks
        /\ status # "error" => Tracks(es, stack, d)
    BY <1>1, RecordedParts, GoodType DEF IInv, ScopesKept, Good, Sound
  <2>2. OnThread \in Threads \cup {NoThread} /\ (OnThread # NoThread => Running /\ OnThread = current)
    BY <1>1, ConfType DEF IInv, OnThread
  <2> HIDE DEF es
  <2>3. \A i \in DOMAIN es : es[i].sib # 0 =>
          /\ es[es[i].sib].sib = i
          /\ es[i].fn = es[es[i].sib].fn /\ es[i].tid = es[es[i].sib].tid
    BY <2>1 DEF Linked
  <2>4. ASSUME ~conf.split, status # "error", NEW i \in DOMAIN es, Scope(es, i), es[i].sib = 0
        PROVE  Running /\ \E k \in DOMAIN stack[current] : stack[current][k].begin = i
    <3>1. i \in 1 .. Len(es) /\ Begun(es[i])
      BY <2>1, <2>4 DEF Scope, Begun
    <3>2. PICK t \in Threads : \E k \in 1 .. d[t] : stack[t][k].begin = i
      <4> HIDE DEF d
      <4> QED
        BY <2>1, <2>4, <3>1 DEF Tracks, Placed, Covered
    <3>3. PICK k \in 1 .. d[t] : stack[t][k].begin = i
      BY <3>2
    <3>4. d[t] = IF t = OnThread THEN Len(stack[t]) ELSE 0
      BY <2>4 DEF OpenDepth
    <3>5. t = OnThread /\ k \in 1 .. Len(stack[t])
      BY <3>3, <3>4
    <3>6. DOMAIN stack[t] = 1 .. Len(stack[t])
      BY <2>1 DEF Stacks
    <3>7. t # NoThread
      BY Constants
    <3> QED
      BY <2>2, <3>3, <3>5, <3>6, <3>7
  <2> QED
    BY <2>3, <2>4, Zenon DEF EndsMeet, Events, es
<1> QED
  BY <1>1, RecordingKeepsIInv, PTL

\* Outputs of one format show the same, however many there are and whichever of
\* them fail: the events are adjusted and compressed once.
THEOREM OutputsAlwaysAlike == Spec => []OutputsAlike
<1>1. ASSUME IInv PROVE OutputsAlike
  <2> SUFFICES ASSUME NEW format \in Formats PROVE Cardinality(Reports(format)) <= 1
    BY DEF OutputsAlike
  <2> DEFINE one == Report(format, Flat(pages))
  <2>1. \A r \in Reports(format) : r = one
    BY <1>1 DEF Reports, IInv, FilesKept
  <2>2. Reports(format) = {} \/ Reports(format) = {one}
    BY <2>1
  <2> HIDE DEF one
  <2>3. Cardinality({}) = 0 /\ Cardinality({one}) = 1
    BY FS_EmptySet, FS_Singleton
  <2> QED
    BY <2>2, <2>3
<1> QED
  BY <1>1, RecordingKeepsIInv, PTL

\* With a threshold, whatever scopes and lines were recorded and in whatever
\* order: reports leave out the scopes that are shorter and the lines whose
\* innermost scope is one of them, and keep all other scopes and lines.
THEOREM ShortScopesLeftOut == Spec => []CompressedScopes
<1>1. ASSUME IInv PROVE CompressedScopes
  <2> DEFINE es == Flat(pages)
  <2>1. es \in Seq(EventSet)
    BY <1>1, RecordedParts, GoodType DEF IInv, ScopesKept
  <2>2. DOMAIN es = 1 .. Len(es)
    BY <2>1
  <2>3. altered /\ conf.threshold # 0 => LeftOut(es, conf.threshold)
    BY <1>1 DEF IInv, CompressKept
  <2> HIDE DEF es
  <2> QED
    BY <2>2, <2>3 DEF CompressedScopes, LeftOut, Events, es
<1> QED
  BY <1>1, RecordingKeepsIInv, PTL

\* The event list of a session has its pages filled in order, up to the limit.
THEOREM RecordingPagesFilled == Spec => []PagesFilled
<1>1. IInv => PagesFilled
  BY RecordedParts DEF IInv, ScopesKept, Good, FilledWith, PagesFilled
<1> QED
  BY <1>1, RecordingKeepsIInv, PTL

\* Whatever hooks, frame calls, stops and reports do to it, the event list of a
\* session is a list that grows at its end up to its capacity, and an event
\* keeps its place, thread and function.
THEOREM RecordingActsAsList == Spec => ActsAsList
<1> DEFINE list(pgs) == [i \in 1 .. Count(pgs) |-> Key(At(pgs, i))]
<1>1. Init => FlatList!EInit
  <2> SUFFICES ASSUME Init PROVE FlatList!EInit
    OBVIOUS
  <2>1. Count(pages) = 0
    BY TimelineAssumption DEF Init, TimelineInit, Count
  <2> QED BY <2>1 DEF FlatList!EInit
<1>2. IInv => FilledWith(EventSet, pages)
  BY RecordedParts DEF IInv, ScopesKept, Good
<1>3. (IInv => FilledWith(EventSet, pages))'
  BY <1>2, PTL
<1>4. ASSUME IInv, [Next]_vars
      PROVE  [FlatList!EGrow]_(list(pages))
  <2>1. Kept
    BY <1>4, NextKept
  <2>2. FilledWith(EventSet, pages)
    BY <1>2, <1>4
  <2>3. FilledWith(EventSet, pages')
    BY <1>3, <2>1 DEF Kept
  <2>4. ASSUME NEW pgs, FilledWith(EventSet, pgs)
        PROVE  /\ Count(pgs) \in Nat /\ Len(list(pgs)) = Count(pgs) /\ Len(Flat(pgs)) = Count(pgs)
               /\ \A i \in 1 .. Count(pgs) : list(pgs)[i] = Key(Flat(pgs)[i])
               /\ Capacity # 0 => Count(pgs) <= Capacity
    <3>1. /\ Count(pgs) \in Nat /\ Len(Flat(pgs)) = Count(pgs)
          /\ \A i \in 1 .. Count(pgs) : At(pgs, i) = Flat(pgs)[i]
      BY <2>4, FlatType
    <3>2. Capacity # 0 => Count(pgs) <= Capacity
      BY <2>4, Bounded
    <3> QED
      BY <3>1, <3>2
  <2>5. Extends(Flat(pages), Flat(pages'))
    BY <2>1 DEF Kept
  <2>6. /\ Count(pages) \in Nat /\ Len(list(pages)) = Count(pages)
        /\ Len(Flat(pages)) = Count(pages)
        /\ \A i \in 1 .. Count(pages) : list(pages)[i] = Key(Flat(pages)[i])
    BY <2>2, <2>4
  <2>7. /\ Count(pages') \in Nat /\ Len(list(pages')) = Count(pages')
        /\ Len(Flat(pages')) = Count(pages')
        /\ \A i \in 1 .. Count(pages') : list(pages')[i] = Key(Flat(pages')[i])
        /\ Capacity # 0 => Count(pages') <= Capacity
    BY <2>3, <2>4
  <2> HIDE DEF list
  <2>8. /\ Len(list(pages)) <= Len(list(pages'))
        /\ Capacity # 0 => Len(list(pages')) <= Capacity
        /\ \A i \in 1 .. Len(list(pages)) : list(pages')[i] = list(pages)[i]
    BY <2>5, <2>6, <2>7 DEF Extends
  <2> QED BY <2>8 DEF FlatList!EGrow, list
<1> QED BY <1>1, <1>4, RecordingKeepsIInv, PTL DEF Spec, ActsAsList, FlatList!ESpec
=============================================================================
