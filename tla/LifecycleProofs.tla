-------------------------- MODULE LifecycleProofs --------------------------
(***************************************************************************)
(* Proofs about Lifecycle, for every set of profiler objects and threads,  *)
(* every set of modes and any depth of nested profiled calls.              *)
(***************************************************************************)
EXTENDS Lifecycle, SequenceTheorems, TLAPS

\* Clients that never create a profiler while allocations are counted, never
\* change the mode of the one that runs and never restart a finished one.
Careful == Habits \subseteq {"outlive_session", "trace_without_calls"}

\* The session is that of the one profiler that may be running.
OneSession ==
  /\ \A p \in Prof : Running(p) => singleton = p
  /\ \A p \in Prof : singleton = p => obj[p] = "live"

\* debug.sethook is overridden for as long as the session exists, and Lua's
\* own is the one kept.
OverrideInv ==
  IF singleton = None
  THEN sethook = "sethook" /\ saved = "nil" /\ stacks = {}
  ELSE sethook = "override" /\ saved = "sethook"

\* Every object has saved the original allocator, or was reset.
PrevInv ==
  /\ \A p \in Prof : prev[p] \in {Base, Null}
  /\ \A p \in Prof : ~({"time", "memory"} \subseteq mode[p])

\* The collector is stopped only by a running profiler that knows it did.
GCInv ==
  /\ ~gcOn => \E p \in Prof : Running(p) /\ "GC_WAS_RUNNING" \in flags[p]
  /\ \A p \in Prof : "GC_WAS_RUNNING" \in flags[p] => Running(p)

\* Objects of lmprof.create can be used again.
KeptInv ==
  \A p \in Prof : obj[p] = "live" /\ Kept(p) => "ERROR" \notin flags[p] /\ prev[p] = Base

\* The session's report finds its structures.
DataInv == \A p \in Prof : singleton = p => ReportSafe(p)

\* LuaJIT has one hook.
OneHook == vm = "luajit" => \A t, u \in Threads : hooks[t] = hooks[u]

IInv ==
  /\ TypeOK
  /\ OneSession
  /\ OverrideInv
  /\ AllocatorOwned
  /\ PrevInv
  /\ GCInv
  /\ KeptInv
  /\ DataInv
  /\ StacksReachable
  /\ OneHook
-----------------------------------------------------------------------------
\* Collecting dead threads' entries leaves a set of threads.
LEMMA CollectedType ==
  ASSUME NEW T \in SUBSET Threads, NEW t \in Threads
  PROVE  Collected(T, t) \in SUBSET Threads
BY DEF Collected

\* lua_sethook with a hook of a known kind leaves one on every thread.
LEMMA SetHookType ==
  ASSUME TypeOK, NEW T \in SUBSET Threads,
         NEW kind \in Kinds \cup {"none", "user"}
  PROVE  SetHook(T, kind) \in [Threads -> Kinds \cup {"none", "user"}]
BY DEF SetHook, TypeOK

\* LuaJIT's one hook stays one.
LEMMA SetHookOne ==
  ASSUME TypeOK, OneHook, NEW T \in SUBSET Threads, NEW kind,
         vm = "luajit", NEW t \in Threads, NEW u \in Threads
  PROVE  SetHook(T, kind)[t] = SetHook(T, kind)[u]
BY DEF SetHook, OneHook, TypeOK

\* The initial state satisfies the inductive invariant.
LEMMA InitIInv == Init => IInv
<1> SUFFICES ASSUME Init PROVE IInv
  OBVIOUS
<1> USE LifecycleAssumption DEF Init
<1>1. TypeOK
  <2>1. flags \in [Prof -> SUBSET {"PERSISTENT", "RUNNING", "ERROR", "GC_WAS_RUNNING"}]
    OBVIOUS
  <2>2. /\ mode \in [Prof -> SUBSET Modes]
        /\ data \in [Prof -> SUBSET {"hash", "list"}]
    OBVIOUS
  <2>3. frames \in Seq([prof : Prof, thread : Threads])
    OBVIOUS
  <2> QED
    BY <2>1, <2>2, <2>3 DEF TypeOK
<1>2. OneSession /\ OverrideInv /\ AllocatorOwned
  BY DEF OneSession, OverrideInv, AllocatorOwned, Running
<1>3. PrevInv /\ GCInv /\ KeptInv
  BY DEF PrevInv, GCInv, KeptInv, Kept
<1>4. DataInv /\ StacksReachable /\ OneHook
  BY DEF DataInv, StacksReachable, OneHook
<1> QED
  BY <1>1, <1>2, <1>3, <1>4 DEF IInv

\* Every call that ends a session does it through Finalize and Shutdown.
\* The calls differ in what they keep, in the flags they leave, in whether
\* the object can be used afterwards and in the calls they return from.
LEMMA EndIInv ==
  ASSUME IInv, NEW p \in Prof, NEW t \in Threads, NEW kept \in BOOLEAN,
         NEW left \in SUBSET {"ERROR"}, End(p, t, kept, left),
         kept => Kept(p),
         obj' = obj \/ obj' = [obj EXCEPT ![p] = "gone"],
         frames' \in Seq([prof : Prof, thread : Threads]), fault' \in BOOLEAN
  PROVE  IInv'
<1> USE DEF End, Finalize, Shutdown
<1> USE LifecycleAssumption
<1>0. TypeOK
  BY DEF IInv
<1>1. flags' = [flags EXCEPT ![p] =
                  IF kept THEN @ \ {"RUNNING", "GC_WAS_RUNNING"} ELSE left]
  OBVIOUS
<1>2. ~Running(p)' /\ "GC_WAS_RUNNING" \notin flags'[p]
  BY <1>0, <1>1 DEF Running, TypeOK
<1>3. \A q \in Prof \ {p} : flags'[q] = flags[q] /\ mode'[q] = mode[q]
                            /\ prev'[q] = prev[q] /\ data'[q] = data[q]
                            /\ obj'[q] = obj[q]
  BY <1>0, <1>1 DEF TypeOK
<1>4. allocf' # p /\ (allocf' = allocf \/ allocf' = Base)
  BY <1>0 DEF IInv, AllocatorOwned, TypeOK, PrevInv
<1>5. singleton' = (IF singleton = p THEN None ELSE singleton)
  OBVIOUS
<1>6. TypeOK'
  <2>1. obj' \in [Prof -> {"free", "live", "gone"}]
    BY <1>0 DEF TypeOK
  <2>2. mode' \in [Prof -> SUBSET Modes] /\ lhook' \in [Prof -> Kinds \cup {"none"}]
    BY <1>0 DEF TypeOK
  <2>3. flags' \in [Prof -> SUBSET {"PERSISTENT", "RUNNING", "ERROR", "GC_WAS_RUNNING"}]
    BY <1>0, <1>1 DEF TypeOK
  <2>4. prev' \in [Prof -> Prof \cup {Base, Null}]
    BY <1>0 DEF TypeOK
  <2>5. data' \in [Prof -> SUBSET {"hash", "list"}]
    BY <1>0 DEF TypeOK
  <2>6. hooks' \in [Threads -> Kinds \cup {"none", "user"}]
    <3>1. Unhooked(p, t) \in SUBSET Threads
      BY <1>0 DEF Unhooked, TypeOK
    <3> QED
      BY <1>0, <3>1, SetHookType DEF TypeOK
  <2>7. ids' \in SUBSET Threads /\ stacks' \in SUBSET Threads
    BY <1>0, CollectedType DEF TypeOK
  <2>8. /\ singleton' \in Prof \cup {None} /\ owner' \in Threads \cup {None}
        /\ sethook' \in {"sethook", "override"}
        /\ saved' \in {"sethook", "override", "nil"}
        /\ allocf' \in Prof \cup {Base} /\ gcOn' \in BOOLEAN
    BY <1>0, <1>4 DEF TypeOK
  <2> QED
    BY <1>0, <2>1, <2>2, <2>3, <2>4, <2>5, <2>6, <2>7, <2>8 DEF TypeOK
<1>7. OneSession'
  BY <1>2, <1>3, <1>5 DEF IInv, OneSession, Running
<1>8. OverrideInv'
  BY <1>5 DEF IInv, OverrideInv
<1>9. AllocatorOwned'
  BY <1>3, <1>4, <1>6 DEF IInv, AllocatorOwned, Running, TypeOK
<1>10. PrevInv'
  BY <1>0, <1>3 DEF IInv, PrevInv, TypeOK
<1>11. GCInv'
  <2>1. ASSUME ~gcOn' PROVE \E q \in Prof : Running(q)' /\ "GC_WAS_RUNNING" \in flags'[q]
    <3>1. PICK q \in Prof : Running(q) /\ "GC_WAS_RUNNING" \in flags[q]
      BY <1>0, <2>1 DEF IInv, GCInv, TypeOK
    <3>2. q # p
      BY <3>1, <2>1
    <3> QED
      BY <3>1, <3>2, <1>3 DEF Running
  <2>2. \A q \in Prof : "GC_WAS_RUNNING" \in flags'[q] => Running(q)'
    BY <1>2, <1>3 DEF IInv, GCInv, Running
  <2> QED
    BY <2>1, <2>2 DEF GCInv
<1>12. KeptInv'
  <2>1. ASSUME obj'[p] = "live", Kept(p)' PROVE "ERROR" \notin flags'[p] /\ prev'[p] = Base
    <3>1. kept /\ obj[p] = "live" /\ Kept(p)
      BY <2>1, <1>0, <1>1 DEF Kept, TypeOK
    <3> QED
      BY <3>1, <1>0, <1>1 DEF IInv, KeptInv, TypeOK
  <2> QED
    BY <2>1, <1>3 DEF IInv, KeptInv, Kept
<1>13. DataInv'
  BY <1>3, <1>5 DEF IInv, DataInv, ReportSafe
<1>14. StacksReachable'
  BY DEF IInv, StacksReachable
<1>15. OneHook'
  <2>1. Unhooked(p, t) \in SUBSET Threads
    BY <1>0 DEF Unhooked, TypeOK
  <2> QED
    BY <1>0, <2>1, SetHookOne DEF IInv, OneHook
<1> QED
  BY <1>6, <1>7, <1>8, <1>9, <1>10, <1>11, <1>12, <1>13, <1>14, <1>15 DEF IInv

\* A session begins in an orderly state: no object runs, and the allocator is
\* the original one.
LEMMA BeginIInv ==
  ASSUME IInv, NEW p \in Prof, NEW t \in Threads, NEW m \in SUBSET Modes,
         ~({"time", "memory"} \subseteq m),
         NEW pv \in {Base, Null}, "memory" \in m => pv = Base,
         NEW fl \in SUBSET {"PERSISTENT"}, "PERSISTENT" \in fl => pv = Base,
         NEW gcOff \in BOOLEAN,
         singleton = None, Begin(p, t, m, pv, fl, gcOff),
         frames' \in Seq([prof : Prof, thread : Threads]), fault' \in BOOLEAN
  PROVE  IInv'
<1> USE LifecycleAssumption DEF Begin
<1>0. TypeOK
  BY DEF IInv
<1>1. \A q \in Prof : ~Running(q) /\ "GC_WAS_RUNNING" \notin flags[q]
  BY <1>0 DEF IInv, OneSession, GCInv, TypeOK
<1>2. allocf = Base /\ gcOn /\ sethook = "sethook"
  BY <1>0, <1>1 DEF IInv, AllocatorOwned, GCInv, OverrideInv, TypeOK
<1>3. \A q \in Prof \ {p} : flags'[q] = flags[q] /\ mode'[q] = mode[q]
                            /\ prev'[q] = prev[q] /\ data'[q] = data[q]
                            /\ obj'[q] = obj[q]
  BY <1>0 DEF TypeOK
<1>4. /\ obj'[p] = "live" /\ mode'[p] = m /\ prev'[p] = pv
      /\ flags'[p] = fl \cup {"RUNNING"} \cup (IF gcOff THEN {"GC_WAS_RUNNING"} ELSE {})
      /\ data'[p] = data[p] \cup Structures(m)
  BY <1>0 DEF TypeOK
<1>5. HookKind(m) \in Kinds \cup {"none"} /\ Installed(m) \in Kinds \cup {"none"}
  BY DEF HookKind, Installed, Kinds
<1>6. Hooked(t, m) \in SUBSET Threads
  BY <1>0 DEF Hooked, TypeOK
<1>7. TypeOK'
  <2>1. obj' \in [Prof -> {"free", "live", "gone"}] /\ mode' \in [Prof -> SUBSET Modes]
    BY <1>0 DEF TypeOK
  <2>2. flags' \in [Prof -> SUBSET {"PERSISTENT", "RUNNING", "ERROR", "GC_WAS_RUNNING"}]
    BY <1>0 DEF TypeOK
  <2>3. lhook' \in [Prof -> Kinds \cup {"none"}]
    BY <1>0, <1>5 DEF TypeOK
  <2>4. prev' \in [Prof -> Prof \cup {Base, Null}]
    BY <1>0 DEF TypeOK
  <2>5. data' \in [Prof -> SUBSET {"hash", "list"}]
    <3>1. Structures(m) \in SUBSET {"hash", "list"}
      BY DEF Structures
    <3> QED
      BY <1>0, <3>1 DEF TypeOK
  <2>6. hooks' \in [Threads -> Kinds \cup {"none", "user"}]
    BY <1>0, <1>5, <1>6, SetHookType DEF TypeOK
  <2>7. ids' \in SUBSET Threads /\ stacks' \in SUBSET Threads
    BY <1>0, <1>6, CollectedType DEF TypeOK
  <2>8. /\ singleton' \in Prof \cup {None} /\ owner' \in Threads \cup {None}
        /\ sethook' \in {"sethook", "override"}
        /\ saved' \in {"sethook", "override", "nil"}
        /\ allocf' \in Prof \cup {Base} /\ gcOn' \in BOOLEAN
    BY <1>0, <1>2 DEF TypeOK
  <2> QED
    BY <1>0, <2>1, <2>2, <2>3, <2>4, <2>5, <2>6, <2>7, <2>8 DEF TypeOK
<1>8. OneSession'
  BY <1>1, <1>3, <1>4 DEF OneSession, Running
<1>9. OverrideInv'
  BY <1>2 DEF OverrideInv
<1>10. AllocatorOwned'
  BY <1>2, <1>4 DEF AllocatorOwned, Running
<1>11. PrevInv'
  BY <1>3, <1>4 DEF IInv, PrevInv
<1>12. GCInv'
  BY <1>1, <1>2, <1>3, <1>4 DEF GCInv, Running
<1>13. KeptInv'
  BY <1>3, <1>4 DEF IInv, KeptInv, Kept
<1>14. DataInv'
  <2>1. ReportSafe(p)'
    BY <1>4 DEF ReportSafe, Structures, HookKind
  <2> QED
    BY <2>1 DEF DataInv
<1>15. StacksReachable'
  BY DEF StacksReachable
<1>16. OneHook'
  <2> SUFFICES ASSUME vm = "luajit", NEW u \in Threads, NEW v \in Threads
               PROVE  hooks'[u] = hooks'[v]
    BY DEF OneHook
  <2>1. OneHook
    BY DEF IInv
  <2>2. SetHook(Hooked(t, m), Installed(m))[u] = SetHook(Hooked(t, m), Installed(m))[v]
    BY <1>0, <1>6, <2>1 DEF SetHook, OneHook, TypeOK
  <2> QED
    BY <2>2
<1> QED
  BY <1>7, <1>8, <1>9, <1>10, <1>11, <1>12, <1>13, <1>14, <1>15, <1>16 DEF IInv

\* A session that is only halted keeps its registration and its data.
LEMMA HaltIInv ==
  ASSUME IInv, NEW p \in Prof, NEW t \in Threads, Halt(p, t),
         UNCHANGED <<frames, fault>>
  PROVE  IInv'
<1> USE LifecycleAssumption DEF Halt, Finalize
<1>0. TypeOK
  BY DEF IInv
<1>1. ~Running(p)' /\ "GC_WAS_RUNNING" \notin flags'[p]
  BY <1>0 DEF Running, TypeOK
<1>2. \A q \in Prof \ {p} : flags'[q] = flags[q]
  BY <1>0 DEF TypeOK
<1>3. allocf' # p /\ (allocf' = allocf \/ allocf' = Base)
  BY <1>0 DEF IInv, AllocatorOwned, TypeOK, PrevInv
<1>4. Unhooked(p, t) \in SUBSET Threads
  BY <1>0 DEF Unhooked, TypeOK
<1>5. TypeOK'
  <2>1. flags' \in [Prof -> SUBSET {"PERSISTENT", "RUNNING", "ERROR", "GC_WAS_RUNNING"}]
    BY <1>0 DEF TypeOK
  <2>2. hooks' \in [Threads -> Kinds \cup {"none", "user"}]
    BY <1>0, <1>4, SetHookType DEF TypeOK
  <2> QED
    BY <1>0, <1>3, <2>1, <2>2 DEF TypeOK
<1>6. OneSession' /\ OverrideInv'
  BY <1>1, <1>2 DEF IInv, OneSession, OverrideInv, Running
<1>7. AllocatorOwned' /\ PrevInv'
  BY <1>2, <1>3, <1>5 DEF IInv, AllocatorOwned, PrevInv, Running, TypeOK
<1>8. GCInv'
  <2>1. ASSUME ~gcOn' PROVE \E q \in Prof : Running(q)' /\ "GC_WAS_RUNNING" \in flags'[q]
    <3>1. PICK q \in Prof : Running(q) /\ "GC_WAS_RUNNING" \in flags[q]
      BY <1>0, <2>1 DEF IInv, GCInv, TypeOK
    <3>2. q # p
      BY <3>1, <2>1
    <3> QED
      BY <3>1, <3>2, <1>2 DEF Running
  <2>2. \A q \in Prof : "GC_WAS_RUNNING" \in flags'[q] => Running(q)'
    BY <1>1, <1>2 DEF IInv, GCInv, Running
  <2> QED
    BY <2>1, <2>2 DEF GCInv
<1>9. KeptInv'
  <2>1. flags'[p] \subseteq flags[p]
    BY <1>0 DEF TypeOK
  <2> QED
    BY <1>2, <2>1 DEF IInv, KeptInv, Kept
<1>10. DataInv' /\ StacksReachable'
  BY DEF IInv, DataInv, ReportSafe, StacksReachable
<1>11. OneHook'
  BY <1>0, <1>4, SetHookOne DEF IInv, OneHook
<1> QED
  BY <1>5, <1>6, <1>7, <1>8, <1>9, <1>10, <1>11 DEF IInv

\* Steps of threads and hooks that neither begin nor end a session.
LEMMA ThreadIInv ==
  ASSUME IInv, UNCHANGED <<pvars, vm, gvars, frames>>, fault' \in BOOLEAN,
         thread' \in [Threads -> {"new", "alive", "dead"}],
         hooks' \in [Threads -> Kinds \cup {"none", "user"}], OneHook',
         ids' \in SUBSET Threads, stacks' \in SUBSET ids',
         singleton = None => stacks' = {}
  PROVE  IInv'
<1> USE DEF pvars, gvars
<1>1. TypeOK'
  BY DEF IInv, TypeOK
<1>2. OneSession' /\ OverrideInv' /\ AllocatorOwned'
  BY DEF IInv, OneSession, OverrideInv, AllocatorOwned, Running
<1>3. PrevInv' /\ GCInv' /\ KeptInv'
  BY DEF IInv, PrevInv, GCInv, KeptInv, Running, Kept
<1>4. DataInv' /\ StacksReachable'
  BY DEF IInv, DataInv, ReportSafe, StacksReachable
<1> QED
  BY <1>1, <1>2, <1>3, <1>4 DEF IInv

\* Steps of one object that begin and end nothing.
LEMMA ObjectIInv ==
  ASSUME IInv, NEW p \in Prof,
         UNCHANGED <<lhook, data, vm, gvars, tvars, frames>>, fault' \in BOOLEAN,
         TypeOK', singleton = p => obj'[p] = "live" /\ ReportSafe(p)',
         \A q \in Prof \ {p} : /\ flags'[q] = flags[q] /\ mode'[q] = mode[q]
                               /\ prev'[q] = prev[q] /\ obj'[q] = obj[q],
         allocf # p, Running(p)' <=> Running(p),
         prev'[p] \in {Base, Null}, ~({"time", "memory"} \subseteq mode'[p]),
         "GC_WAS_RUNNING" \in flags'[p] <=> "GC_WAS_RUNNING" \in flags[p],
         obj'[p] = "live" /\ Kept(p)' => "ERROR" \notin flags'[p] /\ prev'[p] = Base
  PROVE  IInv'
<1> USE DEF gvars, tvars
<1>1. OneSession' /\ OverrideInv'
  BY DEF IInv, OneSession, OverrideInv, Running
<1>2. AllocatorOwned'
  BY DEF IInv, AllocatorOwned, Running
<1>3. PrevInv'
  BY DEF IInv, PrevInv
<1>4. \A q \in Prof : /\ Running(q)' <=> Running(q)
                      /\ "GC_WAS_RUNNING" \in flags'[q] <=> "GC_WAS_RUNNING" \in flags[q]
  BY DEF Running
<1>5. GCInv'
  BY <1>4 DEF IInv, GCInv
<1>6. KeptInv'
  BY DEF IInv, KeptInv, Kept
<1>7. DataInv' /\ StacksReachable' /\ OneHook'
  BY DEF IInv, DataInv, ReportSafe, StacksReachable, OneHook
<1> QED
  BY <1>1, <1>2, <1>3, <1>5, <1>6, <1>7 DEF IInv

\* The calls in progress after one more, and after the top one returns.
LEMMA FramesType ==
  ASSUME TypeOK
  PROVE  /\ \A p \in Prof, t \in Threads, call \in BOOLEAN :
              Enter(p, t, call) \in Seq([prof : Prof, thread : Threads])
         /\ frames # <<>> =>
              /\ Top.prof \in Prof /\ Top.thread \in Threads
              /\ Pop \in Seq([prof : Prof, thread : Threads])
<1> DEFINE F == [prof : Prof, thread : Threads]
<1>1. frames \in Seq(F)
  BY DEF TypeOK
<1>2. ASSUME NEW p \in Prof, NEW t \in Threads, NEW call \in BOOLEAN
      PROVE  Enter(p, t, call) \in Seq(F)
  <2>1. [prof |-> p, thread |-> t] \in F
    OBVIOUS
  <2>2. Append(frames, [prof |-> p, thread |-> t]) \in Seq(F)
    BY <1>1, <2>1, AppendProperties
  <2> QED
    BY <1>1, <2>2 DEF Enter
<1>3. ASSUME frames # <<>>
      PROVE  Top \in F /\ Pop \in Seq(F)
  <2> HIDE DEF F
  <2>1. Len(frames) \in Nat \ {0}
    BY <1>1, <1>3, EmptySeq
  <2>2. \A i \in 1 .. Len(frames) : frames[i] \in F
    BY <1>1, ElementOfSeq
  <2>3. Top \in F
    BY <2>1, <2>2 DEF Top
  <2>4. \A i \in 1 .. Len(frames) - 1 : frames[i] \in F
    BY <2>1, <2>2
  <2>5. Pop \in Seq(F)
    BY <2>1, <2>4, SubSeqProperties DEF Pop
  <2> QED
    BY <2>3, <2>5
<1> QED
  BY <1>2, <1>3

\* Every call of a client preserves the invariant.
LEMMA ClientIInv ==
  ASSUME Careful, IInv, NEW p \in Prof, NEW t \in Threads, ClientCall(p, t)
  PROVE  IInv'
<1>0. TypeOK
  BY DEF IInv
<1>1. ASSUME NEW m \in ModeArgs
      PROVE  /\ m \in SUBSET Modes /\ Sanitized(m) \in SUBSET Modes
             /\ ~({"time", "memory"} \subseteq m)
             /\ ~({"time", "memory"} \subseteq Sanitized(m))
  BY LifecycleAssumption DEF ValidMode, Sanitized, Modes
<1>2. ASSUME NEW m \in ModeArgs, Create(p, m) PROVE IInv'
  <2>1. allocf = Base
    BY <1>2 DEF Create, Careful
  <2>2. singleton # p /\ ~Running(p) /\ "GC_WAS_RUNNING" \notin flags[p]
    BY <1>2 DEF Create, IInv, OneSession, GCInv
  <2>3. /\ obj'[p] = "live" /\ mode'[p] = Sanitized(m)
        /\ flags'[p] = {"PERSISTENT"} /\ prev'[p] = Base
    BY <1>0, <1>2, <2>1 DEF Create, TypeOK
  <2>4. TypeOK'
    BY <1>0, <1>1, <1>2, <2>1 DEF Create, TypeOK, gvars, tvars
  <2>5. UNCHANGED <<lhook, data, vm, gvars, tvars, frames>> /\ fault' \in BOOLEAN
    BY <1>0, <1>2 DEF Create, TypeOK
  <2>6. \A q \in Prof \ {p} : /\ flags'[q] = flags[q] /\ mode'[q] = mode[q]
                               /\ prev'[q] = prev[q] /\ obj'[q] = obj[q]
    BY <1>0, <1>2 DEF Create, TypeOK
  <2>7. allocf # p /\ (Running(p)' <=> Running(p))
    BY <2>1, <2>2, <2>3, LifecycleAssumption DEF Running
  <2> QED
    BY <1>1, <1>2, <2>2, <2>3, <2>4, <2>5, <2>6, <2>7, ObjectIInv DEF Kept
<1>3. ASSUME NEW m \in ModeArgs, SetMode(p, m) PROVE IInv'
  <2>1. singleton # p
    BY <1>3 DEF SetMode, Careful
  <2>2. ~Running(p) /\ allocf # p
    BY <2>1, LifecycleAssumption DEF IInv, OneSession, AllocatorOwned
  <2>3. mode'[p] = m
    BY <1>0, <1>3 DEF SetMode, TypeOK
  <2>4. TypeOK'
    BY <1>0, <1>1, <1>3 DEF SetMode, TypeOK, gvars, tvars
  <2>5. UNCHANGED <<obj, flags, lhook, prev, data, vm, gvars, tvars, frames>>
        /\ fault' \in BOOLEAN
    BY <1>0, <1>3 DEF SetMode, TypeOK
  <2>6. \A q \in Prof \ {p} : mode'[q] = mode[q]
    BY <1>0, <1>3 DEF SetMode, TypeOK
  <2>7. prev[p] \in {Base, Null}
        /\ (obj[p] = "live" /\ Kept(p) => "ERROR" \notin flags[p] /\ prev[p] = Base)
    BY DEF IInv, PrevInv, KeptInv
  <2> QED
    BY <1>1, <1>3, <2>1, <2>2, <2>3, <2>4, <2>5, <2>6, <2>7, ObjectIInv
       DEF Running, Kept
<1>4. ASSUME NEW gcOff \in BOOLEAN, NEW call \in BOOLEAN, NEW m \in ModeArgs,
             StartNew(p, t, m, gcOff, call)
      PROVE  IInv'
  <2>1. singleton = None /\ frames' = Enter(p, t, call) /\ fault' = fault
    BY <1>4 DEF StartNew, CanProfile
  <2>2. Begin(p, t, Sanitized(m), allocf, {}, gcOff)
    BY <1>4 DEF StartNew
  <2>3. allocf = Base
    BY <1>0, <2>1, LifecycleAssumption DEF IInv, AllocatorOwned, OneSession, TypeOK
  <2>4. frames' \in Seq([prof : Prof, thread : Threads])
    BY <1>0, <2>1, FramesType
  <2>5. fault' \in BOOLEAN
    BY <1>0, <2>1 DEF TypeOK
  <2>6. /\ Sanitized(m) \in SUBSET Modes
        /\ ~({"time", "memory"} \subseteq Sanitized(m))
    BY <1>1
  <2>7. Begin(p, t, Sanitized(m), Base, {}, gcOff)
    BY <2>2, <2>3 DEF Begin
  <2>8. singleton = None
    BY <2>1
  <2> QED
    BY <2>4, <2>5, <2>6, <2>7, <2>8, BeginIInv
<1>5. ASSUME NEW gcOff \in BOOLEAN, NEW call \in BOOLEAN, Start(p, t, gcOff, call)
      PROVE  IInv'
  <2>1. singleton = None /\ frames' = Enter(p, t, call) /\ fault' \in BOOLEAN
    BY <1>5 DEF Start, CanProfile
  <2>2. Begin(p, t, mode[p], prev[p], flags[p], gcOff)
    BY <1>5 DEF Start
  <2>3. flags[p] \in SUBSET {"PERSISTENT"}
    BY <1>0, <1>5, <2>1, LifecycleAssumption DEF IInv, OneSession, GCInv, Running, Start, TypeOK
  <2>4. /\ mode[p] \in SUBSET Modes /\ ~({"time", "memory"} \subseteq mode[p])
        /\ prev[p] \in {Base, Null}
    BY <1>0 DEF IInv, PrevInv, TypeOK
  <2>5. "memory" \in mode[p] => prev[p] = Base
    BY <1>5, <2>4 DEF Start, Careful, CanAllocate, Allocates
  <2>6. "PERSISTENT" \in flags[p] => prev[p] = Base
    BY <1>5 DEF Start, IInv, KeptInv, Kept
  <2>7. frames' \in Seq([prof : Prof, thread : Threads])
    BY <1>0, <2>1, FramesType
  <2>8. PICK mv, pv, fl : mv = mode[p] /\ pv = prev[p] /\ fl = flags[p]
    OBVIOUS
  <2>9. Begin(p, t, mv, pv, fl, gcOff)
    BY <2>2, <2>8 DEF Begin
  <2>10. /\ fl \in SUBSET {"PERSISTENT"} /\ mv \in SUBSET Modes
         /\ ~({"time", "memory"} \subseteq mv) /\ pv \in {Base, Null}
         /\ "memory" \in mv => pv = Base
         /\ "PERSISTENT" \in fl => pv = Base
         /\ gcOff \in BOOLEAN
    BY <2>3, <2>4, <2>5, <2>6, <2>8
  <2>11. singleton = None /\ fault' \in BOOLEAN
    BY <2>1
  <2> QED
    BY <2>7, <2>9, <2>10, <2>11, BeginIInv
<1>6. CASE StartRefused(p, t)
  <2>1. singleton = None /\ ~Running(p) /\ allocf # p
    BY <1>0, <1>6, LifecycleAssumption DEF StartRefused, CanProfile, IInv, OneSession, AllocatorOwned
  <2>2. flags'[p] = IF prev[p] = Null THEN flags[p] \cup {"ERROR"} ELSE flags[p]
    BY <1>0, <1>6 DEF StartRefused, TypeOK
  <2>3. TypeOK'
    BY <1>0, <1>6 DEF StartRefused, TypeOK, gvars, tvars
  <2>4. Kept(p)' => "ERROR" \notin flags'[p] /\ prev'[p] = Base
    BY <1>6, <2>2, LifecycleAssumption DEF StartRefused, Kept, IInv, KeptInv
  <2>5. UNCHANGED <<obj, mode, lhook, prev, data, vm, gvars, tvars, frames>>
        /\ fault' \in BOOLEAN
    BY <1>0, <1>6 DEF StartRefused, TypeOK
  <2>6. \A q \in Prof \ {p} : flags'[q] = flags[q]
    BY <1>0, <1>6 DEF StartRefused, TypeOK
  <2>7. prev[p] \in {Base, Null} /\ ~({"time", "memory"} \subseteq mode[p])
        /\ singleton # p
    BY <2>1, LifecycleAssumption DEF IInv, PrevInv
  <2> QED
    BY <2>1, <2>2, <2>3, <2>4, <2>5, <2>6, <2>7, ObjectIInv DEF Running
<1>7. CASE Close(p, t)
  <2>1. End(p, t, FALSE, {}) /\ obj' = [obj EXCEPT ![p] = "gone"]
    BY <1>7 DEF Close
  <2>2. frames' \in Seq([prof : Prof, thread : Threads]) /\ fault' \in BOOLEAN
    BY <1>0, <1>7 DEF Close, TypeOK
  <2> QED
    BY <2>1, <2>2, EndIInv
<1> QED
  BY <1>2, <1>3, <1>4, <1>5, <1>6, <1>7 DEF ClientCall, BeginCall

\* Every step of a thread preserves the invariant.
LEMMA ThreadStepIInv ==
  ASSUME IInv, NEW t \in Threads, ThreadStep(t)
  PROVE  IInv'
<1>0. TypeOK /\ OneHook
  BY DEF IInv
<1>1. CASE Stop(t)
  <2>1. PICK p \in Prof : p = singleton
    BY <1>0, <1>1 DEF Stop, TypeOK
  <2>k. PICK kept \in BOOLEAN : kept <=> Kept(p)
    OBVIOUS
  <2>2. End(p, t, kept, {}) /\ UNCHANGED <<obj, frames>> /\ fault' \in BOOLEAN
    BY <1>1, <2>1, <2>k DEF Stop, End, Finalize, Shutdown, ReportSafe
  <2>3. frames' \in Seq([prof : Prof, thread : Threads])
    BY <1>0, <2>2 DEF TypeOK
  <2> QED
    BY <2>k, <2>2, <2>3, EndIInv
<1>2. CASE StopThrows(t)
  <2>1. PICK p \in Prof : p = singleton
    BY <1>0, <1>2 DEF StopThrows, TypeOK
  <2>2. Halt(p, t)
    BY <1>2, <2>1 DEF StopThrows, Halt, Finalize
  <2> QED
    BY <1>2, <2>2, HaltIInv DEF StopThrows
<1>3. CASE HookError(t)
  <2>1. PICK p \in Prof : p = singleton
    BY <1>0, <1>3 DEF HookError, Measures, Serves, TypeOK
  <2>k. PICK kept \in BOOLEAN : kept <=> Kept(p)
    OBVIOUS
  <2>2. End(p, t, kept, {}) /\ UNCHANGED <<obj, frames, fault>>
    BY <1>3, <2>1, <2>k DEF HookError, End, Finalize, Shutdown
  <2>3. frames' \in Seq([prof : Prof, thread : Threads]) /\ fault' \in BOOLEAN
    BY <1>0, <2>2 DEF TypeOK
  <2> QED
    BY <2>k, <2>2, <2>3, EndIInv
<1>4. CASE SetName(t)
  BY <1>0, <1>4, ThreadIInv
     DEF SetName, IInv, TypeOK, OneHook, OverrideInv, StacksReachable, pvars, gvars
<1>5. ASSUME NEW kind \in {"none", "user"}, ClientSetHook(t, kind) PROVE IInv'
  <2>1. /\ hooks' \in [Threads -> Kinds \cup {"none", "user"}]
        /\ OneHook'
    BY <1>0, <1>5, SetHookType, SetHookOne DEF ClientSetHook, OneHook
  <2> QED
    BY <1>0, <1>5, <2>1, ThreadIInv
       DEF ClientSetHook, IInv, TypeOK, OverrideInv, StacksReachable
<1>6. ASSUME NEW u \in Threads, Spawn(t, u) PROVE IInv'
  BY <1>0, <1>6, ThreadIInv
     DEF Spawn, IInv, TypeOK, OverrideInv, StacksReachable, OneHook
<1>7. CASE Die(t)
  BY <1>0, <1>7, ThreadIInv
     DEF Die, IInv, TypeOK, OverrideInv, StacksReachable, OneHook
<1>8. CASE StaleHook(t)
  <2>1. /\ hooks' \in [Threads -> Kinds \cup {"none", "user"}]
        /\ OneHook'
    BY <1>0, <1>8, SetHookType, SetHookOne DEF StaleHook, OneHook
  <2> QED
    BY <1>0, <1>8, <2>1, ThreadIInv
       DEF StaleHook, IInv, TypeOK, OverrideInv, StacksReachable
<1>9. ASSUME NEW collect \in BOOLEAN, LiveHook(t, collect) PROVE IInv'
  <2>1. singleton # None
    BY <1>9 DEF LiveHook, Measures, Serves
  <2>2. /\ Collected(ids, t) \in SUBSET Threads
        /\ Collected(stacks, t) \in SUBSET Collected(ids, t)
    BY <1>0 DEF Collected, TypeOK, IInv, StacksReachable
  <2>3. ids' \in SUBSET Threads /\ stacks' \in SUBSET ids'
    BY <1>0, <1>9, <2>2 DEF LiveHook, TypeOK, IInv, StacksReachable
  <2>4. fault' \in BOOLEAN
    BY <1>9 DEF LiveHook, StackReady
  <2> QED
    BY <1>0, <1>9, <2>1, <2>3, <2>4, ThreadIInv DEF LiveHook, TypeOK, OneHook
<1> QED
  BY <1>1, <1>2, <1>3, <1>4, <1>5, <1>6, <1>7, <1>8, <1>9 DEF ThreadStep

\* The end of a profiled call preserves it too.
LEMMA CallEndIInv ==
  ASSUME IInv, CallReturns \/ CallRaises
  PROVE  IInv'
<1>0. TypeOK
  BY DEF IInv
<1>1. frames # <<>> /\ frames' = Pop /\ obj' = obj
  BY DEF CallReturns, CallRaises
<1>2. /\ Top.prof \in Prof /\ Top.thread \in Threads
      /\ frames' \in Seq([prof : Prof, thread : Threads])
  BY <1>0, <1>1, FramesType
<1>3. PICK p \in Prof, t \in Threads : p = Top.prof /\ t = Top.thread
  BY <1>2
<1>k. PICK kept \in BOOLEAN : kept <=> Kept(p)
  OBVIOUS
<1>4. PICK left \in SUBSET {"ERROR"} : End(p, t, kept, left) /\ fault' \in BOOLEAN
  <2>1. CASE CallReturns
    <3>1. End(p, t, kept, {})
      BY <1>3, <1>k, <2>1 DEF CallReturns, End, Finalize, Shutdown
    <3>2. fault' \in BOOLEAN
      BY <2>1 DEF CallReturns, ReportSafe
    <3> QED
      BY <3>1, <3>2
  <2>2. CASE CallRaises
    BY <1>0, <1>3, <1>k, <2>2 DEF CallRaises, End, Finalize, Shutdown, TypeOK
  <2> QED
    BY <2>1, <2>2
<1> QED
  BY <1>1, <1>2, <1>k, <1>4, EndIInv

\* IInv is inductive.
LEMMA NextIInv ==
  ASSUME Careful, IInv, [Next]_vars
  PROVE  IInv'
<1>1. CASE UNCHANGED vars
  <2>1. UNCHANGED <<pvars, vm, gvars, tvars, frames, fault>>
    BY <1>1 DEF vars
  <2> QED
    BY <2>1, ThreadIInv DEF tvars, IInv, TypeOK, OneHook, OverrideInv, StacksReachable
<1>2. CASE Next
  BY <1>2, ClientIInv, ThreadStepIInv, CallEndIInv DEF Next
<1> QED
  BY <1>1, <1>2

\* Every reachable state satisfies the inductive invariant.
THEOREM Invariant == Careful => (Spec => []IInv)
<1> SUFFICES ASSUME Careful PROVE Spec => []IInv
  OBVIOUS
<1>1. Init => IInv
  BY InitIInv
<1>2. IInv /\ [Next]_vars => IInv'
  BY NextIInv
<1> QED
  BY <1>1, <1>2, PTL DEF Spec
-----------------------------------------------------------------------------
(* What the invariant means for the properties of Lifecycle *)

\* With no session no object runs, and nothing of the process is altered.
LEMMA IdleRestored ==
  ASSUME IInv, singleton = None
  PROVE  EnvironmentRestored /\ Restartable /\ ~(allocf # Base \/ ~gcOn)
<1>0. TypeOK
  BY DEF IInv
<1>1. \A p \in Prof : ~Running(p) /\ "GC_WAS_RUNNING" \notin flags[p]
  BY LifecycleAssumption DEF IInv, OneSession, GCInv
<1>2. allocf = Base /\ gcOn
  BY <1>0, <1>1 DEF IInv, AllocatorOwned, GCInv, TypeOK
<1>3. EnvironmentRestored
  BY <1>2 DEF IInv, OverrideInv, EnvironmentRestored
<1>4. ASSUME NEW p \in Prof, obj[p] = "live", Kept(p)
      PROVE  flags[p] = {"PERSISTENT"} /\ prev[p] = Base
  <2>1. "ERROR" \notin flags[p] /\ prev[p] = Base
    BY <1>4 DEF IInv, KeptInv
  <2> QED
    BY <1>0, <1>1, <1>4, <2>1 DEF Kept, Running, TypeOK
<1> QED
  BY <1>2, <1>3, <1>4 DEF Restartable

\* Variables hold values of their kinds.  In particular lua_setallocf is never
\* given a null function.
THEOREM TypeCorrect == Careful => (Spec => []TypeOK)
<1>1. IInv => TypeOK
  BY DEF IInv
<1> QED
  BY <1>1, Invariant, PTL

\* A profiler that measures is the registered one, and usable.
THEOREM OneRunningSession == Careful => (Spec => []SessionOwned)
<1>1. IInv => SessionOwned
  BY DEF IInv, OneSession, SessionOwned
<1> QED
  BY <1>1, Invariant, PTL

\* Once no session exists, debug.sethook, the allocator and the collector are
\* what they were before, whoever ended the last one and however.
THEOREM EnvironmentAlwaysRestored == Careful => (Spec => []EnvironmentRestored)
<1>1. IInv => EnvironmentRestored
  <2> SUFFICES ASSUME IInv PROVE EnvironmentRestored
    OBVIOUS
  <2> QED
    BY IdleRestored DEF EnvironmentRestored
<1> QED
  BY <1>1, Invariant, PTL

\* The allocator hook serves a running profiler that counts memory, and calls
\* the original allocator.
THEOREM AllocatorAlwaysOwned == Careful => (Spec => []AllocatorOwned)
<1>1. IInv => AllocatorOwned
  BY DEF IInv
<1> QED
  BY <1>1, Invariant, PTL

\* Objects of lmprof.create can be started again after any end of a session.
THEOREM AlwaysRestartable == Careful => (Spec => []Restartable)
<1>1. IInv => Restartable
  <2> SUFFICES ASSUME IInv PROVE Restartable
    OBVIOUS
  <2> QED
    BY IdleRestored DEF Restartable
<1> QED
  BY <1>1, Invariant, PTL

\* Finalize finds every thread with a profile stack.
THEOREM StacksAlwaysReachable == Careful => (Spec => []StacksReachable)
<1>1. IInv => StacksReachable
  BY DEF IInv
<1> QED
  BY <1>1, Invariant, PTL

\* No session reads what was freed, allocates through a null function or reads
\* a profile stack it has not made, if besides no profiled function outlives its
\* own session and traces instrument calls.
THEOREM NeverFaults == Habits = {} => (Spec => []NoFault)
<1> SUFFICES ASSUME Habits = {} PROVE Spec => []NoFault
  OBVIOUS
<1> DEFINE Ready == \A p \in Prof : singleton = p => StackReady(mode[p])
<1> DEFINE J == IInv /\ Ready /\ NoFault
<1>0. Careful
  BY DEF Careful
<1>1. Init => J
  BY InitIInv, LifecycleAssumption DEF Init, NoFault
<1>2. J /\ [Next]_vars => J'
  <2> SUFFICES ASSUME J, [Next]_vars PROVE Ready' /\ NoFault'
    BY <1>0, NextIInv
  <2>0. TypeOK
    BY DEF IInv
  <2> USE DEF NoFault
  <2>1. CASE UNCHANGED vars
    BY <2>1 DEF vars, pvars, gvars, StackReady
  <2>2. ASSUME NEW p \in Prof, NEW t \in Threads, NEW kept, NEW left, End(p, t, kept, left)
        PROVE  Ready'
    <3> SUFFICES ASSUME NEW q \in Prof, singleton' = q PROVE StackReady(mode[q])'
      OBVIOUS
    <3>1. singleton = q /\ p # q
      BY <2>2, LifecycleAssumption DEF End, Shutdown
    <3>2. mode'[q] = mode[q]
      BY <2>0, <2>2, <3>1 DEF End, Shutdown, TypeOK
    <3> QED
      BY <3>1, <3>2 DEF StackReady, Installed, HookKind
  <2>3. ASSUME NEW p \in Prof, NEW t \in Threads, ClientCall(p, t) PROVE Ready' /\ ~fault'
    <3>1. ASSUME NEW gcOff \in BOOLEAN, NEW call \in BOOLEAN, Start(p, t, gcOff, call)
          PROVE  Ready' /\ ~fault'
      <4>1. singleton' = p /\ mode'[p] = mode[p] /\ StackReady(mode[p]) /\ ~fault'
        BY <2>0, <3>1 DEF Start, Begin, TypeOK
      <4> QED
        BY <4>1 DEF StackReady, Installed, HookKind
    <3>2. ASSUME NEW gcOff \in BOOLEAN, NEW call \in BOOLEAN, NEW m \in ModeArgs,
                 StartNew(p, t, m, gcOff, call)
          PROVE  Ready' /\ ~fault'
      <4>1. /\ singleton' = p /\ mode'[p] = Sanitized(m)
            /\ StackReady(Sanitized(m)) /\ ~fault'
        BY <2>0, <3>2 DEF StartNew, Begin, TypeOK
      <4> QED
        BY <4>1 DEF StackReady, Installed, HookKind
    <3>3. ASSUME NEW m \in ModeArgs, Create(p, m) \/ SetMode(p, m)
          PROVE  Ready' /\ ~fault'
      <4>1. singleton # p /\ singleton' = singleton /\ ~fault'
        BY <3>3 DEF Create, SetMode, IInv, OneSession, gvars
      <4>2. \A q \in Prof \ {p} : mode'[q] = mode[q]
        BY <2>0, <3>3 DEF Create, SetMode, TypeOK
      <4> QED
        BY <4>1, <4>2 DEF StackReady, Installed, HookKind
    <3>4. CASE StartRefused(p, t)
      BY <3>4 DEF StartRefused, gvars, StackReady
    <3>5. CASE Close(p, t)
      BY <2>2, <3>5 DEF Close
    <3> QED
      BY <2>3, <3>1, <3>2, <3>3, <3>4, <3>5 DEF ClientCall, BeginCall
  <2>4. ASSUME NEW t \in Threads, ThreadStep(t) PROVE Ready' /\ ~fault'
    <3>1. CASE Stop(t) \/ HookError(t)
      <4>1. singleton \in Prof
        BY <2>0, <3>1 DEF Stop, HookError, Measures, Serves, TypeOK
      <4>2. ~fault'
        BY <3>1, <4>1 DEF Stop, HookError, IInv, DataInv
      <4> QED
        BY <2>2, <3>1, <4>1, <4>2 DEF Stop, HookError
    <3>2. CASE \E collect \in BOOLEAN : LiveHook(t, collect)
      <4>1. singleton \in Prof
        BY <2>0, <3>2 DEF LiveHook, Measures, Serves, TypeOK
      <4>2. ~fault' /\ UNCHANGED <<mode, singleton>>
        BY <3>2, <4>1 DEF LiveHook, pvars, gvars
      <4> QED
        BY <4>2 DEF StackReady
    <3>3. CASE ~(Stop(t) \/ HookError(t) \/ \E collect \in BOOLEAN : LiveHook(t, collect))
      <4>1. ~fault' /\ UNCHANGED <<mode, singleton>>
        BY <2>4, <3>3 DEF ThreadStep, StopThrows, Halt, SetName, ClientSetHook, Spawn, Die,
                          StaleHook, pvars, gvars
      <4> QED
        BY <4>1 DEF StackReady
    <3> QED
      BY <3>1, <3>2, <3>3
  <2>5. CASE CallReturns \/ CallRaises
    <3>1. Top.prof \in Prof /\ Top.thread \in Threads
      BY <2>0, <2>5, FramesType DEF CallReturns, CallRaises
    <3>2. ~fault'
      BY <2>5 DEF CallReturns, CallRaises
    <3> QED
      BY <2>2, <2>5, <3>1, <3>2 DEF CallReturns, CallRaises
  <2> QED
    BY <2>1, <2>3, <2>4, <2>5 DEF Next
<1>3. J => NoFault
  OBVIOUS
<1> QED
  BY <1>1, <1>2, <1>3, PTL DEF Spec
-----------------------------------------------------------------------------
(* Ending a session unhooks what it hooked *)

\* Finalize finds the hook of a session of all threads wherever there is a
\* profile stack: through the identifiers, or, under LuaJIT, in any thread.
LEMMA FinalizeUnhooks ==
  ASSUME IInv, NEW p \in Prof, NEW t \in Threads, NEW u \in stacks,
         hooks' = SetHook(Unhooked(p, t), "none"),
         "single_thread" \notin mode[p], lhook[p] # "none"
  PROVE  hooks'[u] # lhook[p]
<1>0. TypeOK /\ u \in Threads /\ u \in ids
  BY DEF IInv, TypeOK, StacksReachable
<1>1. CASE hooks[u] # lhook[p]
  BY <1>0, <1>1 DEF SetHook, TypeOK
<1>2. CASE hooks[u] = lhook[p] /\ vm # "luajit"
  <2>1. u \in Unhooked(p, t)
    BY <1>0, <1>2 DEF Unhooked
  <2> QED
    BY <1>0, <2>1 DEF SetHook
<1>3. CASE hooks[u] = lhook[p] /\ vm = "luajit"
  <2>1. hooks[t] = lhook[p]
    BY <1>0, <1>3 DEF IInv, OneHook
  <2>2. t \in Unhooked(p, t)
    BY <2>1 DEF Unhooked
  <2> QED
    BY <1>0, <1>3, <2>2 DEF SetHook
<1> QED
  BY <1>1, <1>2, <1>3

\* A step that stops profiler p from running finalizes it.
LEMMA StopsByFinalize ==
  ASSUME IInv, [Next]_vars, NEW p \in Prof, Running(p), "RUNNING" \notin flags'[p]
  PROVE  \E t \in Threads : hooks' = SetHook(Unhooked(p, t), "none")
<1>0. TypeOK /\ singleton = p /\ obj[p] = "live" /\ p # None
  BY LifecycleAssumption DEF IInv, OneSession
<1>1. ASSUME NEW q \in Prof, NEW t \in Threads, Finalize(q, t),
             \A r \in Prof \ {q} : flags'[r] = flags[r]
      PROVE  \E u \in Threads : hooks' = SetHook(Unhooked(p, u), "none")
  <2>1. q = p
    BY <1>1 DEF Running
  <2> QED
    BY <1>1, <2>1 DEF Finalize
<1>2. ASSUME NEW q \in Prof, NEW t \in Threads, NEW kept, NEW left, End(q, t, kept, left)
      PROVE  \A r \in Prof \ {q} : flags'[r] = flags[r]
  BY <1>0, <1>2 DEF End, TypeOK
<1>3. ASSUME NEW q \in Prof, NEW t \in Threads, ClientCall(q, t)
      PROVE  \E u \in Threads : hooks' = SetHook(Unhooked(p, u), "none")
  <2>1. ASSUME NEW m \in ModeArgs, Create(q, m) \/ SetMode(q, m) PROVE FALSE
    BY <1>0, <2>1 DEF Create, SetMode, Running, TypeOK
  <2>2. ASSUME NEW gcOff \in BOOLEAN, NEW call \in BOOLEAN, BeginCall(q, t, gcOff, call)
        PROVE  FALSE
    BY <1>0, <2>2 DEF BeginCall, StartNew, Start, CanProfile
  <2>3. CASE StartRefused(q, t)
    BY <1>0, <2>3 DEF StartRefused, CanProfile
  <2>4. CASE Close(q, t)
    <3>1. End(q, t, FALSE, {})
      BY <2>4 DEF Close
    <3> QED
      BY <1>1, <1>2, <3>1 DEF End
  <2> QED
    BY <1>3, <2>1, <2>2, <2>3, <2>4 DEF ClientCall
<1>4. ASSUME NEW t \in Threads, ThreadStep(t)
      PROVE  \E u \in Threads : hooks' = SetHook(Unhooked(p, u), "none")
  <2>1. ASSUME flags' = flags PROVE FALSE
    BY <2>1 DEF Running
  <2>2. CASE Stop(t) \/ StopThrows(t) \/ HookError(t)
    <3>1. Finalize(p, t)
      BY <1>0, <2>2 DEF Stop, StopThrows, HookError, End, Halt, Finalize
    <3> QED
      BY <3>1 DEF Finalize
  <2>3. CASE ~(Stop(t) \/ StopThrows(t) \/ HookError(t))
    BY <1>4, <2>1, <2>3 DEF ThreadStep, SetName, ClientSetHook, Spawn, Die, StaleHook,
                            LiveHook, pvars
  <2> QED
    BY <2>2, <2>3
<1>5. CASE CallReturns \/ CallRaises
  <2>1. frames # <<>>
    BY <1>5 DEF CallReturns, CallRaises
  <2>2. PICK q \in Prof, t \in Threads : q = Top.prof /\ t = Top.thread
    BY <1>0, <2>1, FramesType
  <2>3. Finalize(q, t) /\ \A r \in Prof \ {q} : flags'[r] = flags[r]
    BY <1>0, <1>5, <2>2 DEF CallReturns, CallRaises, End, Finalize, TypeOK
  <2> QED
    BY <1>1, <2>3
<1>6. CASE UNCHANGED vars
  BY <1>6 DEF vars, pvars, Running
<1> QED
  BY <1>3, <1>4, <1>5, <1>6 DEF Next

\* The call that ends a running session of all threads unhooks every thread
\* measured under it.
THEOREM EndAlwaysUnhooks == Careful => (Spec => EndUnhooks)
<1>1. IInv /\ [Next]_vars =>
        [\A p \in Prof :
           Running(p) /\ "RUNNING" \notin flags'[p] /\ "single_thread" \notin mode[p] =>
             \A t \in stacks : lhook[p] # "none" => hooks'[t] # lhook[p]]_vars
  <2> SUFFICES ASSUME IInv, [Next]_vars, NEW p \in Prof, Running(p),
                      "RUNNING" \notin flags'[p], "single_thread" \notin mode[p],
                      NEW u \in stacks, lhook[p] # "none"
               PROVE  hooks'[u] # lhook[p]
    OBVIOUS
  <2>1. PICK t \in Threads : hooks' = SetHook(Unhooked(p, t), "none")
    BY StopsByFinalize
  <2> QED
    BY <2>1, FinalizeUnhooks
<1> QED
  BY <1>1, Invariant, PTL DEF Spec, EndUnhooks
-----------------------------------------------------------------------------
(* Lifecycle implements Session *)

\* Two of the values the refinement mapping gives to Session's variables.
Measuring == singleton # None /\ Running(singleton)
VMOurs == allocf # Base \/ ~gcOn

\* A step that changes none of it is a stutter.
LEMMA Stutter ==
  ASSUME UNCHANGED <<singleton, sethook, allocf, gcOn>>, Measuring' <=> Measuring
  PROVE  UNCHANGED S!svars
BY DEF S!svars, Measuring

\* A session that begins.
LEMMA BeginRefines ==
  ASSUME TypeOK, NEW p \in Prof, singleton = None, singleton' = p,
         sethook' = "override", Running(p)'
  PROVE  S!SBegin(p)
<1>1. p # None
  BY LifecycleAssumption
<1> QED
  BY <1>1 DEF S!SBegin, Running

\* A call that ends the session, or has nothing to end.
LEMMA EndRefines ==
  ASSUME IInv, IInv', NEW p \in Prof, NEW t \in Threads, NEW kept, NEW left,
         End(p, t, kept, left)
  PROVE  S!SEnd \/ UNCHANGED S!svars
<1>0. TypeOK
  BY DEF IInv
<1>1. CASE singleton = p
  <2>1. singleton' = None /\ singleton # None
    BY <1>1, LifecycleAssumption DEF End, Shutdown
  <2>2. sethook' = "sethook" /\ \A q \in Prof : ~Running(q)'
    BY <2>1, LifecycleAssumption DEF IInv, OverrideInv, OneSession
  <2>3. ~VMOurs'
    BY <2>2 DEF IInv, TypeOK, AllocatorOwned, GCInv, VMOurs
  <2> QED
    BY <2>1, <2>2, <2>3 DEF S!SEnd, VMOurs
<1>2. CASE singleton # p
  <2>1. ~Running(p)
    BY <1>2 DEF IInv, OneSession
  <2>2. UNCHANGED <<singleton, sethook, allocf, gcOn>>
    BY <1>0, <1>2, <2>1 DEF End, Finalize, Shutdown, TypeOK
  <2>3. Measuring' <=> Measuring
    BY <1>0, <1>2, <2>2 DEF Measuring, Running, End, TypeOK
  <2> QED
    BY <2>2, <2>3, Stutter
<1> QED
  BY <1>1, <1>2

\* A report that fails halts the session.
LEMMA HaltRefines ==
  ASSUME IInv, IInv', NEW t \in Threads, StopThrows(t)
  PROVE  S!SHalt \/ UNCHANGED S!svars
<1>0. TypeOK
  BY DEF IInv
<1>1. PICK p \in Prof : p = singleton /\ Finalize(p, t) /\ singleton' = p
                       /\ flags' = [flags EXCEPT ![p] = @ \ {"RUNNING", "GC_WAS_RUNNING"}]
                       /\ UNCHANGED <<sethook, saved>>
  BY <1>0 DEF StopThrows, Halt, Finalize, TypeOK
<1>2. p # None /\ ~Running(p)' /\ \A q \in Prof : ~Running(q)'
  <2>1. p # None /\ ~Running(p)'
    BY <1>0, <1>1, LifecycleAssumption DEF Running, TypeOK
  <2>2. \A q \in Prof : Running(q)' => singleton' = q
    BY DEF IInv, OneSession
  <2> QED
    BY <1>1, <2>1, <2>2
<1>3. CASE Running(p)
  <2>1. ~VMOurs'
    BY <1>2 DEF IInv, TypeOK, AllocatorOwned, GCInv, VMOurs
  <2> QED
    BY <1>1, <1>2, <1>3, <2>1 DEF S!SHalt, VMOurs, Running
<1>4. CASE ~Running(p)
  <2>1. UNCHANGED <<singleton, sethook, allocf, gcOn>>
    BY <1>0, <1>1, <1>4 DEF Finalize, TypeOK
  <2>2. Measuring' <=> Measuring
    BY <1>1, <1>2, <1>4 DEF Measuring, Running
  <2> QED
    BY <2>1, <2>2, Stutter
<1> QED
  BY <1>3, <1>4

\* Every step of Lifecycle is one of Session, or leaves Session's state alone.
LEMMA StepRefines ==
  ASSUME IInv, IInv', [Next]_vars
  PROVE  [S!SNext]_(S!svars)
<1> USE LifecycleAssumption
<1>0. TypeOK
  BY DEF IInv
<1>1. CASE UNCHANGED vars
  <2>1. UNCHANGED <<singleton, sethook, allocf, gcOn>> /\ (Measuring' <=> Measuring)
    BY <1>1 DEF vars, pvars, gvars, Measuring, Running
  <2> QED
    BY <2>1, Stutter
<1>2. ASSUME NEW p \in Prof, NEW t \in Threads, ClientCall(p, t)
      PROVE  [S!SNext]_(S!svars)
  <2>1. ASSUME NEW m \in ModeArgs, Create(p, m) \/ SetMode(p, m)
        PROVE  UNCHANGED S!svars
    <3>1. UNCHANGED <<singleton, sethook, allocf, gcOn>>
      BY <2>1 DEF Create, SetMode, gvars
    <3>2. singleton # None => flags'[singleton] = flags[singleton]
      BY <1>0, <2>1 DEF Create, SetMode, IInv, OneSession, TypeOK
    <3> QED
      BY <3>1, <3>2, Stutter DEF Measuring, Running
  <2>2. ASSUME NEW gcOff \in BOOLEAN, NEW call \in BOOLEAN, BeginCall(p, t, gcOff, call)
        PROVE  S!SBegin(p)
    <3>1. singleton = None /\ singleton' = p /\ sethook' = "override"
      BY <2>2 DEF BeginCall, StartNew, Start, Begin, CanProfile
    <3>2. Running(p)'
      BY <1>0, <2>2 DEF BeginCall, StartNew, Start, Begin, Running, TypeOK
    <3> QED
      BY <1>0, <3>1, <3>2, BeginRefines
  <2>3. CASE StartRefused(p, t)
    <3>1. UNCHANGED <<singleton, sethook, allocf, gcOn>> /\ singleton = None
      BY <2>3 DEF StartRefused, CanProfile, gvars
    <3> QED
      BY <3>1, Stutter DEF Measuring
  <2>4. CASE Close(p, t)
    BY <2>4, EndRefines DEF Close, S!SNext
  <2> QED
    BY <1>2, <2>1, <2>2, <2>3, <2>4 DEF ClientCall, S!SNext
<1>3. ASSUME NEW t \in Threads, ThreadStep(t)
      PROVE  [S!SNext]_(S!svars)
  <2>1. ASSUME Stop(t) \/ HookError(t) PROVE S!SEnd \/ UNCHANGED S!svars
    <3>1. PICK p \in Prof : p = singleton
      BY <1>0, <2>1 DEF Stop, HookError, Measures, Serves, TypeOK
    <3>2. PICK kept \in BOOLEAN : kept <=> Kept(p)
      OBVIOUS
    <3>3. End(p, t, kept, {})
      BY <2>1, <3>1, <3>2 DEF Stop, HookError, End, Finalize, Shutdown
    <3> QED
      BY <3>3, EndRefines
  <2>2. CASE StopThrows(t)
    BY <2>2, HaltRefines DEF S!SNext
  <2>3. CASE ~(Stop(t) \/ StopThrows(t) \/ HookError(t))
    <3>1. UNCHANGED <<singleton, sethook, allocf, gcOn, flags>>
      BY <1>3, <2>3 DEF ThreadStep, SetName, ClientSetHook, Spawn, Die, StaleHook,
                        LiveHook, pvars, gvars
    <3> QED
      BY <3>1, Stutter DEF Measuring, Running
  <2> QED
    BY <2>1, <2>2, <2>3 DEF S!SNext
<1>4. CASE CallReturns \/ CallRaises
  <2>1. frames # <<>>
    BY <1>4 DEF CallReturns, CallRaises
  <2>2. PICK p \in Prof, t \in Threads : p = Top.prof /\ t = Top.thread
    BY <1>0, <2>1, FramesType
  <2>3. PICK kept \in BOOLEAN : kept <=> Kept(p)
    OBVIOUS
  <2>4. CASE CallReturns
    <3>1. End(p, t, kept, {})
      BY <2>2, <2>3, <2>4 DEF CallReturns, End, Finalize, Shutdown
    <3> QED
      BY <3>1, EndRefines DEF S!SNext
  <2>5. CASE CallRaises
    <3>1. End(p, t, kept, {"ERROR"})
      BY <2>2, <2>3, <2>5 DEF CallRaises, End, Finalize, Shutdown
    <3> QED
      BY <3>1, EndRefines DEF S!SNext
  <2> QED
    BY <1>4, <2>4, <2>5
<1> QED
  BY <1>1, <1>2, <1>3, <1>4 DEF Next

\* The library keeps the promise of Session.
THEOREM ImplementsSession == Careful => (Spec => Implements)
<1> SUFFICES ASSUME Careful PROVE Spec => S!SSpec
  BY DEF Implements
<1>1. Init => S!SInit
  BY DEF Init, S!SInit
<1>2. IInv /\ IInv' /\ [Next]_vars => [S!SNext]_(S!svars)
  BY StepRefines
<1> QED
  BY <1>1, <1>2, Invariant, PTL DEF Spec, S!SSpec
=============================================================================
