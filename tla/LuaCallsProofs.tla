--------------------------- MODULE LuaCallsProofs ---------------------------
(***************************************************************************)
(* The call stacks of Lua threads are sequences of frames; what is         *)
(* selected from a sequence, by induction over its length; what stacks     *)
(* that follow the calls have in them; and what sums over finite sets are, *)
(* by induction over their size.                                           *)
(***************************************************************************)
EXTENDS LuaCalls, Functions, Folds, SequenceTheorems, FiniteSetTheorems, WellFoundedInduction,
        TLAPS

\* The frames that Lua's call stacks are made of, with functions of F.
CallFrames(F) == [fn : F, seen : BOOLEAN, lost : BOOLEAN]

\* A nonempty set of numbers up to n has a maximum.
LEMMA MaxIn ==
  ASSUME NEW n \in Nat, NEW T \in SUBSET (1 .. n), T # {}
  PROVE  Max(T) \in T /\ \A x \in T : Max(T) >= x
<1> DEFINE D == {n - x : x \in T}
<1>0. \A x \in T : x \in Nat /\ n - x \in Nat
  OBVIOUS
<1>1. D \subseteq Nat /\ D # {}
  BY <1>0
<1>2. PICK d \in D : \A e \in D : ~(<<e, d>> \in OpToRel(<, Nat))
  <2> HIDE DEF D
  <2> QED
    BY <1>1, NatLessThanWellFounded, WFMin
<1>3. ASSUME NEW e \in D PROVE d <= e
  <2>1. e \in Nat /\ d \in Nat
    BY <1>1
  <2>2. e < d => <<e, d>> \in OpToRel(<, Nat)
    BY <2>1 DEF OpToRel
  <2>3. ~(<<e, d>> \in OpToRel(<, Nat))
    BY <1>2
  <2>4. ~(e < d)
    BY <2>2, <2>3
  <2> QED
    BY <2>1, <2>4
<1>4. PICK x \in T : d = n - x
  OBVIOUS
<1>5. ASSUME NEW y \in T PROVE x >= y
  <2>1. d <= n - y
    BY <1>3
  <2> QED
    BY <1>0, <1>4, <2>1
<1> QED
  BY <1>5 DEF Max

\* A proper prefix of a call stack is a call stack.
LEMMA PrefixType ==
  ASSUME NEW S, NEW s \in Seq(S), NEW m \in 0 .. Len(s)
  PROVE  /\ SubSeq(s, 1, m) \in Seq(S)
         /\ Len(SubSeq(s, 1, m)) = m
         /\ \A i \in 1 .. m : SubSeq(s, 1, m)[i] = s[i]
<1>1. Len(s) \in Nat /\ \A i \in 1 .. m : s[i] \in S
  BY LenProperties, ElementOfSeq
<1> QED
  BY <1>1, SubSeqProperties

\* A return leaves a shorter call stack.
LEMMA LeftType ==
  ASSUME NEW F, NEW s \in Seq(CallFrames(F)), s # <<>>
  PROVE  /\ Left(s) \in Seq(CallFrames(F))
         /\ Len(s) \in Nat /\ Len(Left(s)) \in 0 .. Len(s) - 1
<1> DEFINE kept == {i \in 1 .. Len(s) - 1 : ~s[i].lost}
           m == IF kept = {} THEN 0 ELSE Max(kept)
<1>1. Len(s) \in Nat \ {0}
  BY EmptySeq
<1>2. m \in 0 .. Len(s) - 1
  <2>1. CASE kept # {}
    <3>1. Max(kept) \in kept
      <4>1. kept \in SUBSET (1 .. Len(s) - 1) /\ Len(s) - 1 \in Nat
        BY <1>1
      <4> HIDE DEF kept
      <4> QED
        BY <2>1, <4>1, MaxIn
    <3> QED
      BY <1>1, <2>1, <3>1
  <2>2. CASE kept = {}
    BY <1>1, <2>2
  <2> QED
    BY <2>1, <2>2
<1>3. Left(s) = SubSeq(s, 1, m)
  BY DEF Left
<1> HIDE DEF m
<1> QED
  BY <1>1, <1>2, <1>3, PrefixType

\* The calls after one more, after a tail call and after an error.
LEMMA CallsType ==
  ASSUME NEW F, NEW s \in Seq(CallFrames(F))
  PROVE  /\ \A f \in F : Called(s, f) \in Seq(CallFrames(F))
         /\ s # <<>> => \A f \in F : TailCalled(s, f) \in Seq(CallFrames(F))
         /\ \A C : Unwound(s, C) \in Seq(CallFrames(F))
<1>1. \A f \in F : Frame(f, TRUE) \in CallFrames(F)
  BY DEF Frame, CallFrames
<1>2. ASSUME s # <<>>
      PROVE  [s EXCEPT ![Len(s)].lost = TRUE] \in Seq(CallFrames(F))
  <2>1. Len(s) \in Nat \ {0} /\ Len(s) \in 1 .. Len(s) /\ Len(s) \in DOMAIN s
    <3>1. Len(s) \in Nat \ {0}
      BY <1>2, EmptySeq
    <3> QED
      BY <3>1, LenProperties
  <2> DEFINE e == [s[Len(s)] EXCEPT !.lost = TRUE]
  <2>2. e \in CallFrames(F)
    <3>1. s[Len(s)] \in CallFrames(F)
      BY <2>1, ElementOfSeq
    <3> QED
      BY <3>1 DEF CallFrames
  <2>3. [s EXCEPT ![Len(s)].lost = TRUE] = [s EXCEPT ![Len(s)] = e]
    BY <2>1
  <2> HIDE DEF e
  <2> QED
    BY <2>1, <2>2, <2>3, ExceptSeq
<1>3. ASSUME NEW T \in SUBSET DOMAIN s
      PROVE  SubSeq(s, 1, IF T = {} THEN 0 ELSE Max(T)) \in Seq(CallFrames(F))
  <2> DEFINE m == IF T = {} THEN 0 ELSE Max(T)
  <2>1. Len(s) \in Nat /\ T \in SUBSET (1 .. Len(s))
    BY LenProperties
  <2>2. m \in 0 .. Len(s)
    <3>1. CASE T = {}
      BY <2>1, <3>1
    <3>2. CASE T # {}
      <4>1. Max(T) \in T
        BY <2>1, <3>2, MaxIn
      <4> QED
        BY <2>1, <3>2, <4>1
    <3> QED
      BY <3>1, <3>2
  <2> HIDE DEF m
  <2>3. SubSeq(s, 1, m) \in Seq(CallFrames(F))
    BY <2>2, PrefixType
  <2> QED
    BY <2>3 DEF m
<1>4. \A C : Unwound(s, C) \in Seq(CallFrames(F))
  BY <1>3 DEF Unwound
<1> QED
  BY <1>1, <1>2, <1>4, AppendProperties DEF Called, TailCalled
-----------------------------------------------------------------------------
(* Induction *)

\* A set of numbers that has 0 and the successor of each of its numbers has
\* all of them: what a recursive function does is proved with the set of the
\* arguments for which it does it.
LEMMA InductionOnNat ==
  ASSUME NEW A, 0 \in A, \A n \in Nat : n \in A => n + 1 \in A
  PROVE  \A n \in Nat : n \in A
<1> SUFFICES ASSUME NEW m \in Nat, m \notin A PROVE FALSE
  OBVIOUS
<1> DEFINE C == Nat \ A
<1>1. C \subseteq Nat /\ C # {}
  OBVIOUS
<1>2. PICK c \in C : \A e \in C : ~(<<e, c>> \in OpToRel(<, Nat))
  <2> HIDE DEF C
  <2> QED
    BY <1>1, NatLessThanWellFounded, WFMin
<1>3. c \in Nat /\ c # 0
  OBVIOUS
<1>4. c - 1 \in Nat /\ (c - 1) + 1 = c
  BY <1>3
<1>5. c - 1 \in C
  BY <1>4
<1>6. <<c - 1, c>> \in OpToRel(<, Nat)
  BY <1>3, <1>4 DEF OpToRel
<1> QED
  BY <1>2, <1>5, <1>6
-----------------------------------------------------------------------------
(* Selected *)

\* The function that Selected is defined by: what is selected of each prefix.
UpTo(s, T) ==
  CHOOSE u : u = [n \in 0 .. Len(s) |->
                    IF n = 0 THEN <<>>
                    ELSE IF n \in T THEN Append(u[n - 1], s[n]) ELSE u[n - 1]]

\* There is such a function.
LEMMA UpToDef ==
  ASSUME NEW s, NEW T, Len(s) \in Nat
  PROVE  /\ Selected(s, T) = UpTo(s, T)[Len(s)]
         /\ UpTo(s, T)[0] = <<>>
         /\ \A n \in 1 .. Len(s) :
              UpTo(s, T)[n] = IF n \in T THEN Append(UpTo(s, T)[n - 1], s[n])
                              ELSE UpTo(s, T)[n - 1]
<1> DEFINE Step(u, n) == IF n = 0 THEN <<>>
                         ELSE IF n \in T THEN Append(u[n - 1], s[n]) ELSE u[n - 1]
           A == {m \in Nat : \E u : u = [n \in 0 .. m |-> Step(u, n)]}
<1>1. 0 \in A
  <2>1. [n \in 0 .. 0 |-> <<>>] = [n \in 0 .. 0 |-> Step([k \in 0 .. 0 |-> <<>>], n)]
    OBVIOUS
  <2> QED
    BY <2>1
<1>2. ASSUME NEW m \in Nat, m \in A PROVE m + 1 \in A
  <2>1. PICK u : u = [n \in 0 .. m |-> Step(u, n)]
    BY <1>2
  <2> DEFINE v == [n \in 0 .. m + 1 |-> IF n = m + 1 THEN Step(u, n) ELSE u[n]]
  <2>2. \A n \in 0 .. m + 1 : v[n] = Step(v, n)
    <3> TAKE n \in 0 .. m + 1
    <3>1. n # 0 => n - 1 \in 0 .. m /\ v[n - 1] = u[n - 1]
      OBVIOUS
    <3>2. Step(v, n) = Step(u, n)
      BY <3>1
    <3>3. n # m + 1 => n \in 0 .. m
      OBVIOUS
    <3>4. \A k \in 0 .. m : u[k] = Step(u, k)
      <4> HIDE DEF Step
      <4> QED
        BY <2>1
    <3> HIDE DEF Step
    <3> QED
      BY <3>2, <3>3, <3>4
  <2>3. v = [n \in 0 .. m + 1 |-> Step(v, n)]
    <3>1. v = [n \in 0 .. m + 1 |-> v[n]]
      OBVIOUS
    <3> HIDE DEF v, Step
    <3> QED
      BY <2>2, <3>1
  <2> HIDE DEF v, Step
  <2> QED
    BY <2>3
<1>3. Len(s) \in A
  <2> HIDE DEF A
  <2> QED
    BY <1>1, <1>2, InductionOnNat
<1>4. UpTo(s, T) = [n \in 0 .. Len(s) |-> Step(UpTo(s, T), n)]
  BY <1>3 DEF UpTo
<1>5. Selected(s, T) = UpTo(s, T)[Len(s)]
  BY DEF Selected, UpTo
<1>6. \A n \in 0 .. Len(s) : UpTo(s, T)[n] = Step(UpTo(s, T), n)
  <2> HIDE DEF Step
  <2> QED
    BY <1>4
<1> QED
  BY <1>5, <1>6

\* What is selected of a sequence is a sequence of its elements.
LEMMA SelectedType ==
  ASSUME NEW S, NEW s \in Seq(S), NEW T
  PROVE  Selected(s, T) \in Seq(S) /\ \A n \in 0 .. Len(s) : UpTo(s, T)[n] \in Seq(S)
<1> DEFINE u == UpTo(s, T)
           A == {n \in Nat : n <= Len(s) => u[n] \in Seq(S)}
<1>1. Len(s) \in Nat /\ \A n \in 1 .. Len(s) : s[n] \in S
  BY LenProperties, ElementOfSeq
<1>2. /\ Selected(s, T) = u[Len(s)] /\ u[0] = <<>>
      /\ \A n \in 1 .. Len(s) :
           u[n] = IF n \in T THEN Append(u[n - 1], s[n]) ELSE u[n - 1]
  BY <1>1, UpToDef
<1> HIDE DEF u
<1>3. 0 \in A
  <2>1. <<>> \in Seq(S)
    OBVIOUS
  <2> QED
    BY <1>2, <2>1
<1>4. ASSUME NEW n \in Nat, n \in A PROVE n + 1 \in A
  <2> SUFFICES ASSUME n + 1 <= Len(s) PROVE u[n + 1] \in Seq(S)
    OBVIOUS
  <2>1. n + 1 \in 1 .. Len(s) /\ (n + 1) - 1 = n /\ u[n] \in Seq(S) /\ s[n + 1] \in S
    BY <1>1, <1>4
  <2>2. u[n + 1] = IF n + 1 \in T THEN Append(u[n], s[n + 1]) ELSE u[n]
    BY <1>2, <2>1
  <2> QED
    BY <2>1, <2>2, AppendProperties
<1>5. \A n \in Nat : n \in A
  <2> HIDE DEF A
  <2> QED
    BY <1>3, <1>4, InductionOnNat
<1> QED
  BY <1>1, <1>2, <1>5 DEF u

\* What is selected of a prefix depends on it and on its positions only.
LEMMA SelectedAgrees ==
  ASSUME NEW S, NEW s \in Seq(S), NEW r \in Seq(S), NEW T, NEW U,
         NEW m \in Nat, m <= Len(s), m <= Len(r),
         \A i \in 1 .. m : s[i] = r[i] /\ (i \in T <=> i \in U)
  PROVE  UpTo(s, T)[m] = UpTo(r, U)[m]
<1> DEFINE u == UpTo(s, T)
           v == UpTo(r, U)
           A == {n \in Nat : n <= m => u[n] = v[n]}
<1>1. Len(s) \in Nat /\ Len(r) \in Nat /\ m \in Nat
  BY LenProperties
<1>2. /\ u[0] = <<>> /\ v[0] = <<>>
      /\ \A n \in 1 .. Len(s) : u[n] = IF n \in T THEN Append(u[n - 1], s[n]) ELSE u[n - 1]
      /\ \A n \in 1 .. Len(r) : v[n] = IF n \in U THEN Append(v[n - 1], r[n]) ELSE v[n - 1]
  BY <1>1, UpToDef
<1> HIDE DEF u, v
<1>3. 0 \in A
  BY <1>2
<1>4. ASSUME NEW n \in Nat, n \in A PROVE n + 1 \in A
  <2> SUFFICES ASSUME n + 1 <= m PROVE u[n + 1] = v[n + 1]
    OBVIOUS
  <2>1. /\ n + 1 \in 1 .. Len(s) /\ n + 1 \in 1 .. Len(r) /\ n + 1 \in 1 .. m
        /\ (n + 1) - 1 = n /\ u[n] = v[n]
    BY <1>1, <1>4
  <2>2. /\ u[n + 1] = IF n + 1 \in T THEN Append(u[n], s[n + 1]) ELSE u[n]
        /\ v[n + 1] = IF n + 1 \in U THEN Append(v[n], r[n + 1]) ELSE v[n]
    BY <1>2, <2>1
  <2> QED
    BY <2>1, <2>2
<1>5. \A n \in Nat : n \in A
  <2> HIDE DEF A
  <2> QED
    BY <1>3, <1>4, InductionOnNat
<1> QED
  BY <1>1, <1>5 DEF u, v

\* What is selected of a prefix, and then of the rest.
LEMMA SelectedSplit ==
  ASSUME NEW S, NEW s \in Seq(S), NEW T, NEW m \in 0 .. Len(s), NEW U,
         \A i \in 1 .. Len(s) - m : i \in U <=> m + i \in T
  PROVE  /\ Selected(SubSeq(s, 1, m), T) = UpTo(s, T)[m]
         /\ Selected(s, T) = Selected(SubSeq(s, 1, m), T)
                             \o Selected(SubSeq(s, m + 1, Len(s)), U)
<1> DEFINE p == SubSeq(s, 1, m)
           r == SubSeq(s, m + 1, Len(s))
           u == UpTo(s, T)
           v == UpTo(r, U)
           Split(n) == n <= Len(r) => u[m + n] = u[m] \o v[n]
           A == {n \in Nat : Split(n)}
<1>1. Len(s) \in Nat /\ m \in Nat /\ m <= Len(s) /\ \A i \in 1 .. Len(s) : s[i] \in S
  BY LenProperties, ElementOfSeq
<1>2. p \in Seq(S) /\ Len(p) = m /\ \A i \in 1 .. m : p[i] = s[i]
  BY PrefixType
<1>3. r \in Seq(S) /\ Len(r) = Len(s) - m /\ \A i \in 1 .. Len(s) - m : r[i] = s[m + i]
  <2>1. /\ \A i \in m + 1 .. Len(s) : s[i] \in S
        /\ Len(r) = IF m + 1 <= Len(s) THEN Len(s) - (m + 1) + 1 ELSE 0
        /\ r \in Seq(S)
        /\ \A i \in 1 .. Len(s) - (m + 1) + 1 : r[i] = s[(m + 1) + i - 1]
    BY <1>1, SubSeqProperties
  <2>2. \A i \in 1 .. Len(s) - m : i \in 1 .. Len(s) - (m + 1) + 1 /\ (m + 1) + i - 1 = m + i
    BY <1>1
  <2> HIDE DEF r
  <2> QED
    BY <1>1, <2>1, <2>2
<1>4. Len(p) \in Nat /\ Len(r) \in Nat
  BY <1>1, <1>2, <1>3
<1> HIDE DEF p, r
<1>5. Selected(p, T) = UpTo(p, T)[m] /\ Selected(r, U) = v[Len(r)] /\ Selected(s, T) = u[Len(s)]
  BY <1>1, <1>2, <1>4, UpToDef
<1>6. UpTo(p, T)[m] = u[m]
  <2>1. m \in 0 .. Len(p) /\ m <= Len(s)
    BY <1>1, <1>2
  <2>2. \A i \in 1 .. m : p[i] = s[i] /\ (i \in T <=> i \in T)
    BY <1>2
  <2>3. p \in Seq(S)
    BY <1>2
  <2> HIDE DEF u
  <2>4. UpTo(p, T)[m] = UpTo(s, T)[m]
    <3>1. m \in Nat /\ m <= Len(s) /\ m <= Len(p)
      BY <1>1, <1>2
    <3> HIDE DEF A, Split, v
    <3> QED
      BY <2>2, <2>3, <3>1, SelectedAgrees
  <2> QED
    BY <2>4 DEF u
<1>7. /\ v[0] = <<>>
      /\ \A n \in 1 .. Len(s) : u[n] = IF n \in T THEN Append(u[n - 1], s[n]) ELSE u[n - 1]
      /\ \A n \in 1 .. Len(r) : v[n] = IF n \in U THEN Append(v[n - 1], r[n]) ELSE v[n - 1]
  BY <1>1, <1>4, UpToDef
<1>8. \A n \in 0 .. Len(s) : u[n] \in Seq(S)
  BY SelectedType
<1>9. \A n \in 0 .. Len(r) : v[n] \in Seq(S)
  BY <1>3, SelectedType
<1> HIDE DEF u, v
<1>10. 0 \in A
  <2>1. m + 0 = m /\ u[m] \in Seq(S)
    BY <1>1, <1>8
  <2>2. u[m] \o <<>> = u[m]
    BY <2>1, ConcatEmptySeq
  <2>3. Split(0)
    BY <1>7, <2>1, <2>2
  <2> HIDE DEF Split
  <2> QED
    BY <2>3
<1>11. ASSUME NEW n \in Nat, n \in A PROVE n + 1 \in A
  <2> SUFFICES ASSUME n + 1 <= Len(r) PROVE u[m + (n + 1)] = u[m] \o v[n + 1]
    <3>1. Split(n + 1) => n + 1 \in A
      <4> HIDE DEF Split
      <4> QED
        OBVIOUS
    <3> QED
      BY <3>1
  <2>1. /\ n + 1 \in 1 .. Len(r) /\ m + (n + 1) \in 1 .. Len(s) /\ n \in 0 .. Len(r)
        /\ (n + 1) - 1 = n /\ (m + (n + 1)) - 1 = m + n /\ m \in 0 .. Len(s)
    BY <1>1, <1>3, <1>4
  <2>2. u[m + n] = u[m] \o v[n]
    <3>1. Split(n)
      <4> HIDE DEF Split
      <4> QED
        BY <1>11
    <3>2. n <= Len(r)
      BY <1>4
    <3> QED
      BY <3>1, <3>2, Zenon
  <2>3. /\ u[m + (n + 1)] = IF m + (n + 1) \in T THEN Append(u[m + n], s[m + (n + 1)])
                            ELSE u[m + n]
        /\ v[n + 1] = IF n + 1 \in U THEN Append(v[n], r[n + 1]) ELSE v[n]
    BY <1>7, <2>1
  <2>4. r[n + 1] = s[m + (n + 1)] /\ (n + 1 \in U <=> m + (n + 1) \in T) /\ r[n + 1] \in S
    BY <1>1, <1>3, <2>1
  <2>5. PICK a \in Seq(S), b \in Seq(S), e \in S : a = u[m] /\ b = v[n] /\ e = r[n + 1]
    BY <1>8, <1>9, <2>1, <2>4
  <2>6. Append(a \o b, e) = a \o Append(b, e)
    <3>1. <<e>> \in Seq(S) /\ a \o b \in Seq(S)
      BY ConcatProperties
    <3>2. Append(a \o b, e) = (a \o b) \o <<e>> /\ Append(b, e) = b \o <<e>>
      BY <3>1, AppendIsConcat
    <3>3. (a \o b) \o <<e>> = a \o (b \o <<e>>)
      BY <3>1, ConcatAssociative, SMTT(30)
    <3> QED
      BY <3>2, <3>3, Zenon
  <2> QED
    BY <2>2, <2>3, <2>4, <2>5, <2>6
<1>12. \A n \in Nat : n \in A
  <2> HIDE DEF A
  <2> QED
    BY <1>10, <1>11, InductionOnNat
<1>13. u[m + Len(r)] = u[m] \o v[Len(r)] /\ m + Len(r) = Len(s)
  <2>1. Split(Len(r))
    <3> HIDE DEF Split
    <3> QED
      BY <1>4, <1>12
  <2>2. Len(r) <= Len(r)
    BY <1>4
  <2>3. m + Len(r) = Len(s)
    BY <1>1, <1>3
  <2> QED
    BY <2>1, <2>2, <2>3, Zenon
<1> QED
  BY <1>5, <1>6, <1>13 DEF p, r, u

\* Selecting at other positions beyond the end makes no difference.
LEMMA SelectedSame ==
  ASSUME NEW S, NEW s \in Seq(S), NEW T, NEW U, \A i \in 1 .. Len(s) : i \in T <=> i \in U
  PROVE  Selected(s, T) = Selected(s, U)
<1>1. Len(s) \in Nat /\ Len(s) <= Len(s)
  BY LenProperties
<1>2. Selected(s, T) = UpTo(s, T)[Len(s)] /\ Selected(s, U) = UpTo(s, U)[Len(s)]
  BY <1>1, UpToDef
<1>3. UpTo(s, T)[Len(s)] = UpTo(s, U)[Len(s)]
  <2>1. PICK m \in Nat : m = Len(s)
    BY <1>1
  <2>2. m <= Len(s) /\ \A i \in 1 .. m : s[i] = s[i] /\ (i \in T <=> i \in U)
    BY <1>1, <2>1
  <2>3. UpTo(s, T)[m] = UpTo(s, U)[m]
    BY <2>2, SelectedAgrees
  <2> QED
    BY <2>1, <2>3
<1> QED
  BY <1>2, <1>3

\* One more element.
LEMMA SelectedAppend ==
  ASSUME NEW S, NEW s \in Seq(S), NEW e \in S, NEW T
  PROVE  Selected(Append(s, e), T) =
           IF Len(s) + 1 \in T THEN Append(Selected(s, T), e) ELSE Selected(s, T)
<1> DEFINE r == Append(s, e)
           n == Len(s)
<1>1. n \in Nat /\ r \in Seq(S) /\ Len(r) = n + 1 /\ r[n + 1] = e
      /\ \A i \in 1 .. n : r[i] = s[i]
  BY AppendProperties, LenProperties
<1> HIDE DEF r
<1>2. /\ Selected(r, T) = UpTo(r, T)[n + 1] /\ Selected(s, T) = UpTo(s, T)[n]
      /\ UpTo(r, T)[n + 1] = IF n + 1 \in T THEN Append(UpTo(r, T)[(n + 1) - 1], r[n + 1])
                             ELSE UpTo(r, T)[(n + 1) - 1]
  BY <1>1, UpToDef
<1>3. UpTo(r, T)[n] = UpTo(s, T)[n]
  <2>1. PICK m \in Nat : m = n
    BY <1>1
  <2>2. /\ r \in Seq(S) /\ m <= Len(r) /\ m <= Len(s)
        /\ \A i \in 1 .. m : r[i] = s[i] /\ (i \in T <=> i \in T)
    BY <1>1, <2>1
  <2> HIDE DEF n
  <2>3. UpTo(r, T)[m] = UpTo(s, T)[m]
    BY <2>2, SelectedAgrees
  <2> QED
    BY <2>1, <2>3
<1>4. (n + 1) - 1 = n
  BY <1>1
<1> QED
  BY <1>1, <1>2, <1>3, <1>4 DEF r

\* What is selected beyond the first m positions is what follows them.
LEMMA SelectedRest ==
  ASSUME NEW S, NEW s \in Seq(S), NEW T, NEW m \in 0 .. Len(s),
         \A i \in 1 .. Len(s) : i \in T <=> i > m
  PROVE  /\ Len(Selected(s, T)) = Len(s) - m
         /\ \A i \in 1 .. Len(s) - m : Selected(s, T)[i] = s[m + i]
<1> DEFINE u == UpTo(s, T)
           Rest(n) == n <= Len(s) => /\ Len(u[n]) = (IF n <= m THEN 0 ELSE n - m)
                                     /\ \A i \in 1 .. n - m : u[n][i] = s[m + i]
           A == {n \in Nat : Rest(n)}
<1>1. Len(s) \in Nat /\ m \in Nat /\ m <= Len(s) /\ \A i \in 1 .. Len(s) : s[i] \in S
  BY LenProperties, ElementOfSeq
<1>2. /\ Selected(s, T) = u[Len(s)] /\ u[0] = <<>>
      /\ \A n \in 1 .. Len(s) : u[n] = IF n \in T THEN Append(u[n - 1], s[n]) ELSE u[n - 1]
  BY <1>1, UpToDef
<1>3. \A n \in 0 .. Len(s) : u[n] \in Seq(S)
  BY SelectedType
<1> HIDE DEF u
<1>4. 0 \in A
  BY <1>1, <1>2
<1>5. ASSUME NEW n \in Nat, n \in A PROVE n + 1 \in A
  <2> SUFFICES ASSUME n + 1 <= Len(s)
               PROVE  /\ Len(u[n + 1]) = (IF n + 1 <= m THEN 0 ELSE n + 1 - m)
                      /\ \A i \in 1 .. n + 1 - m : u[n + 1][i] = s[m + i]
    OBVIOUS
  <2>1. Rest(n) /\ n <= Len(s)
    BY <1>1, <1>5
  <2>2. n + 1 \in 1 .. Len(s) /\ (n + 1) - 1 = n /\ n \in 0 .. Len(s)
    BY <1>1
  <2>3. u[n + 1] = IF n + 1 > m THEN Append(u[n], s[n + 1]) ELSE u[n]
    BY <1>2, <2>2
  <2>4. PICK a \in Seq(S), e \in S : a = u[n] /\ e = s[n + 1]
    BY <1>1, <1>3, <2>2
  <2>5. CASE n + 1 > m
    <3>1. /\ Len(Append(a, e)) = Len(a) + 1 /\ Append(a, e)[Len(a) + 1] = e
          /\ \A i \in 1 .. Len(a) : Append(a, e)[i] = a[i]
      BY AppendProperties
    <3>2. Len(a) = n - m /\ \A i \in 1 .. n - m : a[i] = s[m + i]
      <4>1. Len(u[n]) = (IF n <= m THEN 0 ELSE n - m) /\ \A i \in 1 .. n - m : u[n][i] = s[m + i]
        BY <2>1
      <4>2. n <= m => n - m = 0
        BY <1>1, <2>5
      <4> QED
        BY <2>4, <4>1, <4>2, Zenon
    <3>3. m + (n + 1 - m) = n + 1 /\ n - m + 1 = n + 1 - m
      BY <1>1
    <3>4. \A i \in 1 .. n + 1 - m : Append(a, e)[i] = s[m + i]
      BY <1>1, <2>4, <2>5, <3>1, <3>2, <3>3, SMTT(30)
    <3> QED
      BY <1>1, <2>3, <2>4, <2>5, <3>1, <3>2, <3>4, SMTT(30)
  <2>6. CASE ~(n + 1 > m)
    BY <1>1, <2>1, <2>3, <2>6
  <2> QED
    BY <2>5, <2>6
<1>6. \A n \in Nat : n \in A
  <2> HIDE DEF A
  <2> QED
    BY <1>4, <1>5, InductionOnNat
<1>7. Rest(Len(s))
  BY <1>1, <1>6
<1> QED
  BY <1>1, <1>2, <1>7
-----------------------------------------------------------------------------
(* Profile stacks that follow the calls *)

\* The calls but the first m are those the profiler had the event of.
SeenFrom(c, m) == m \in 0 .. Len(c) /\ \A i \in 1 .. Len(c) : c[i].seen <=> i > m

\* A stack of n entries of the functions g, the root first, has the calls of c
\* but the first m in order, each once.
Holds(g, n, c, m) ==
  /\ SeenFrom(c, m)
  /\ n - 1 >= Len(c) - m
  /\ \A i \in 1 .. Len(c) - m : g[i + 1] = c[m + i].fn

\* It has nothing above them; or, once a function of P has caught an error,
\* the calls above it, which are not of P.
Follows(g, n, c, P, catching) ==
  \E m \in 0 .. Len(c) :
    /\ Holds(g, n, c, m)
    /\ IF catching
       THEN c # <<>> /\ Top(c).fn \in P /\ \A j \in Len(c) - m + 2 .. n : g[j] \notin P
       ELSE n - 1 = Len(c) - m

\* It has them in order, perhaps among others.
Embeds(g, n, c) ==
  \E m \in 0 .. Len(c), l \in Nat :
    /\ m + l = Len(c) /\ SeenFrom(c, m)
    /\ \E at \in [1 .. l -> 2 .. n] :
         /\ \A i \in 1 .. l : g[at[i]] = c[m + i].fn
         /\ \A i, j \in 1 .. l : i < j => at[i] < at[j]

\* The calls seen are the last ones.
LEMMA SeenCallsAre ==
  ASSUME NEW F, NEW c \in Seq(CallFrames(F)), NEW m, SeenFrom(c, m)
  PROVE  /\ SeenCalls(c) \in Seq(CallFrames(F))
         /\ Len(SeenCalls(c)) = Len(c) - m
         /\ \A i \in 1 .. Len(c) - m : SeenCalls(c)[i] = c[m + i]
<1> DEFINE T == {i \in DOMAIN c : c[i].seen}
<1>1. m \in 0 .. Len(c) /\ DOMAIN c = 1 .. Len(c)
  BY LenProperties DEF SeenFrom
<1>2. \A i \in 1 .. Len(c) : i \in T <=> i > m
  BY <1>1 DEF SeenFrom
<1>3. SeenCalls(c) = Selected(c, T)
  BY DEF SeenCalls
<1> HIDE DEF T
<1>4. Selected(c, T) \in Seq(CallFrames(F))
  BY SelectedType
<1>5. /\ Len(Selected(c, T)) = Len(c) - m
      /\ \A i \in 1 .. Len(c) - m : Selected(c, T)[i] = c[m + i]
  BY <1>1, <1>2, SelectedRest
<1> QED
  BY <1>3, <1>4, <1>5

\* The calls after one more: those before it, whether it replaces the last of
\* them or not, and itself.
LEMMA CalledIs ==
  ASSUME NEW F, NEW c \in Seq(CallFrames(F)), NEW f \in F,
         NEW d, d = Called(c, f) \/ (c # <<>> /\ d = TailCalled(c, f))
  PROVE  /\ d \in Seq(CallFrames(F)) /\ Len(d) = Len(c) + 1
         /\ d[Len(c) + 1].fn = f /\ d[Len(c) + 1].seen
         /\ \A i \in 1 .. Len(c) : d[i].fn = c[i].fn /\ d[i].seen = c[i].seen
<1>1. Len(c) \in Nat /\ DOMAIN c = 1 .. Len(c) /\ \A i \in 1 .. Len(c) : c[i] \in CallFrames(F)
  BY LenProperties, ElementOfSeq
<1>2. Frame(f, TRUE) \in CallFrames(F) /\ Frame(f, TRUE).fn = f /\ Frame(f, TRUE).seen
  BY DEF Frame, CallFrames
<1>3. ASSUME NEW b \in Seq(CallFrames(F)), Len(b) = Len(c),
             \A i \in 1 .. Len(c) : b[i].fn = c[i].fn /\ b[i].seen = c[i].seen, d = Called(b, f)
      PROVE  /\ d \in Seq(CallFrames(F)) /\ Len(d) = Len(c) + 1
             /\ d[Len(c) + 1].fn = f /\ d[Len(c) + 1].seen
             /\ \A i \in 1 .. Len(c) : d[i].fn = c[i].fn /\ d[i].seen = c[i].seen
  <2>1. PICK e \in CallFrames(F) : e = Frame(f, TRUE) /\ d = Append(b, e)
    BY <1>2, <1>3 DEF Called
  <2>2. /\ Append(b, e) \in Seq(CallFrames(F)) /\ Len(Append(b, e)) = Len(b) + 1
        /\ Append(b, e)[Len(b) + 1] = e
        /\ \A i \in 1 .. Len(b) : Append(b, e)[i] = b[i]
    BY AppendProperties
  <2> QED
    BY <1>2, <1>3, <2>1, <2>2
<1>4. CASE d = Called(c, f)
  BY <1>3, <1>4
<1>5. CASE c # <<>> /\ d = TailCalled(c, f)
  <2> DEFINE b == [c EXCEPT ![Len(c)].lost = TRUE]
  <2>1. Len(c) \in 1 .. Len(c)
    BY <1>1, <1>5, EmptySeq
  <2>2. c[Len(c)] \in CallFrames(F)
    BY <1>1, <2>1
  <2>3. /\ DOMAIN b = 1 .. Len(c)
        /\ \A i \in 1 .. Len(c) : /\ b[i] \in CallFrames(F)
                                  /\ b[i].fn = c[i].fn /\ b[i].seen = c[i].seen
    BY <1>1, <2>1, <2>2 DEF CallFrames
  <2>4. b \in [1 .. Len(c) -> CallFrames(F)]
    BY <2>3
  <2>5. d = Called(b, f)
    BY <1>5 DEF TailCalled
  <2> HIDE DEF b
  <2>6. b \in Seq(CallFrames(F)) /\ Len(b) = Len(c)
    BY <1>1, <2>3, <2>4
  <2> QED
    BY <1>3, <2>3, <2>5, <2>6
<1> QED
  BY <1>4, <1>5

\* A beginning of the calls, which is what a return and an error leave.
LEMMA SeenPrefix ==
  ASSUME NEW F, NEW c \in Seq(CallFrames(F)), NEW m, SeenFrom(c, m)
  PROVE  \A k \in 0 .. Len(c) :
           /\ SubSeq(c, 1, k) \in Seq(CallFrames(F)) /\ Len(SubSeq(c, 1, k)) = k
           /\ \A i \in 1 .. k : SubSeq(c, 1, k)[i] = c[i]
           /\ m <= k => SeenFrom(SubSeq(c, 1, k), m)
           /\ ~(m <= k) => SeenFrom(SubSeq(c, 1, k), k)
<1> TAKE k \in 0 .. Len(c)
<1> DEFINE d == SubSeq(c, 1, k)
<1>1. d \in Seq(CallFrames(F)) /\ Len(d) = k /\ \A i \in 1 .. k : d[i] = c[i]
  BY PrefixType
<1>2. Len(c) \in Nat
  BY LenProperties
<1> HIDE DEF d
<1>3. (m <= k => SeenFrom(d, m)) /\ (~(m <= k) => SeenFrom(d, k))
  <2>1. m \in 0 .. Len(c) /\ \A i \in 1 .. Len(c) : c[i].seen <=> i > m
    BY DEF SeenFrom
  <2>2. \A i \in 1 .. k : i \in 1 .. Len(c) /\ (d[i].seen <=> i > m)
    BY <1>1, <1>2, <2>1
  <2>3. k \in 0 .. k /\ (m <= k => m \in 0 .. k) /\ (~(m <= k) => \A i \in 1 .. k : ~(i > m))
    BY <1>2, <2>1
  <2> QED
    BY <1>1, <2>2, <2>3 DEF SeenFrom
<1> QED
  BY <1>1, <1>3 DEF d

\* A return leaves the calls below it, up to one that no tail call replaced.
LEMMA LeftIs ==
  ASSUME NEW F, NEW c \in Seq(CallFrames(F)), c # <<>>
  PROVE  \E k \in 0 .. Len(c) - 1 : Left(c) = SubSeq(c, 1, k)
<1> DEFINE kept == {i \in 1 .. Len(c) - 1 : ~c[i].lost}
           k == IF kept = {} THEN 0 ELSE Max(kept)
<1>1. Len(c) \in Nat \ {0}
  BY EmptySeq
<1>2. k \in 0 .. Len(c) - 1
  <2>1. kept # {} => Max(kept) \in kept
    <3>1. kept \in SUBSET (1 .. Len(c) - 1) /\ Len(c) - 1 \in Nat
      BY <1>1
    <3> HIDE DEF kept
    <3> QED
      BY <3>1, MaxIn
  <2> QED
    BY <1>1, <2>1
<1>3. Left(c) = SubSeq(c, 1, k)
  BY DEF Left
<1> HIDE DEF k
<1> QED
  BY <1>2, <1>3

\* An error leaves the calls up to the last of P.
LEMMA UnwoundIs ==
  ASSUME NEW F, NEW c \in Seq(CallFrames(F)), NEW P
  PROVE  \E k \in 0 .. Len(c) :
           /\ Unwound(c, P) = SubSeq(c, 1, k)
           /\ k # 0 => c[k].fn \in P
           /\ \A i \in k + 1 .. Len(c) : c[i].fn \notin P
<1> DEFINE T == {i \in DOMAIN c : c[i].fn \in P}
           k == IF T = {} THEN 0 ELSE Max(T)
<1>1. Len(c) \in Nat /\ DOMAIN c = 1 .. Len(c)
  BY LenProperties
<1>2. T \in SUBSET (1 .. Len(c))
  BY <1>1
<1>3. /\ k \in 0 .. Len(c) /\ (k # 0 => c[k].fn \in P)
      /\ \A i \in k + 1 .. Len(c) : c[i].fn \notin P
  <2>1. CASE T = {}
    BY <1>1, <2>1
  <2>2. CASE T # {}
    <3>1. Max(T) \in T /\ \A x \in T : Max(T) >= x
      <4> HIDE DEF T
      <4> QED
        BY <1>1, <1>2, <2>2, MaxIn
    <3>2. PICK x \in 1 .. Len(c) : x = k /\ x \in T /\ \A y \in T : x >= y
      BY <1>1, <2>2, <3>1
    <3> HIDE DEF k
    <3> QED
      BY <1>1, <3>2
  <2> QED
    BY <2>1, <2>2
<1>4. Unwound(c, P) = SubSeq(c, 1, k)
  BY DEF Unwound
<1> HIDE DEF k
<1> QED
  BY <1>3, <1>4

\* What a stack that follows the calls has of them.
LEMMA FollowsSeen ==
  ASSUME NEW F, NEW c \in Seq(CallFrames(F)), NEW g, NEW n \in Nat, NEW P, NEW b \in BOOLEAN,
         Follows(g, n, c, P, b)
  PROVE  /\ SeenCalls(c) \in Seq(CallFrames(F)) /\ n - 1 >= Len(SeenCalls(c))
         /\ \A i \in 1 .. Len(SeenCalls(c)) : g[i + 1] = SeenCalls(c)[i].fn
         /\ ~b => n - 1 = Len(SeenCalls(c))
<1>1. PICK m \in 0 .. Len(c) : Holds(g, n, c, m) /\ (~b => n - 1 = Len(c) - m)
  BY DEF Follows
<1>2. SeenFrom(c, m)
  BY <1>1 DEF Holds
<1>3. /\ SeenCalls(c) \in Seq(CallFrames(F)) /\ Len(SeenCalls(c)) = Len(c) - m
      /\ \A i \in 1 .. Len(c) - m : SeenCalls(c)[i] = c[m + i]
  BY <1>2, SeenCallsAre
<1> QED
  BY <1>1, <1>3 DEF Holds

\* A call: one entry more.
LEMMA FollowsCalled ==
  ASSUME NEW F, NEW c \in Seq(CallFrames(F)), NEW f \in F,
         NEW d, d = Called(c, f) \/ (c # <<>> /\ d = TailCalled(c, f)),
         NEW g, NEW n \in Nat \ {0},
         NEW h, h[n + 1] = f, \A i \in 1 .. n : h[i] = g[i]
  PROVE  \A P : Follows(g, n, c, P, FALSE) => Follows(h, n + 1, d, P, FALSE)
<1> SUFFICES ASSUME NEW P, Follows(g, n, c, P, FALSE) PROVE Follows(h, n + 1, d, P, FALSE)
  OBVIOUS
<1>1. PICK m \in 0 .. Len(c) : Holds(g, n, c, m) /\ n - 1 = Len(c) - m
  BY DEF Follows
<1>2. /\ d \in Seq(CallFrames(F)) /\ Len(d) = Len(c) + 1
      /\ d[Len(c) + 1].fn = f /\ d[Len(c) + 1].seen
      /\ \A i \in 1 .. Len(c) : d[i].fn = c[i].fn /\ d[i].seen = c[i].seen
  BY CalledIs
<1>3. Len(c) \in Nat /\ m \in 0 .. Len(d)
  BY <1>2, LenProperties
<1>4. SeenFrom(d, m)
  BY <1>1, <1>2, <1>3 DEF Holds, SeenFrom
<1>5. \A i \in 1 .. Len(d) - m : h[i + 1] = d[m + i].fn
  <2> TAKE i \in 1 .. Len(d) - m
  <2>1. CASE i <= Len(c) - m
    <3>1. i \in 1 .. Len(c) - m /\ m + i \in 1 .. Len(c) /\ i + 1 \in 1 .. n
      BY <1>1, <1>2, <1>3, <2>1
    <3> QED
      BY <1>1, <1>2, <3>1 DEF Holds
  <2>2. CASE ~(i <= Len(c) - m)
    <3>1. i + 1 = n + 1 /\ m + i = Len(c) + 1
      BY <1>1, <1>2, <1>3, <2>2
    <3> QED
      BY <1>2, <3>1
  <2> QED
    BY <2>1, <2>2
<1>6. (n + 1) - 1 = Len(d) - m /\ (n + 1) - 1 >= Len(d) - m
  BY <1>1, <1>2, <1>3
<1> QED
  BY <1>3, <1>4, <1>5, <1>6 DEF Follows, Holds

\* An error that a function of P catches: no entry leaves the stack.
LEMMA FollowsRaised ==
  ASSUME NEW F, NEW c \in Seq(CallFrames(F)), NEW P, Unwound(c, P) # <<>>,
         NEW g, NEW n \in Nat, Follows(g, n, c, P, FALSE)
  PROVE  Follows(g, n, Unwound(c, P), P, TRUE)
<1>1. PICK m \in 0 .. Len(c) : Holds(g, n, c, m) /\ n - 1 = Len(c) - m
  BY DEF Follows
<1>2. PICK k \in 0 .. Len(c) : /\ Unwound(c, P) = SubSeq(c, 1, k)
                               /\ k # 0 => c[k].fn \in P
                               /\ \A i \in k + 1 .. Len(c) : c[i].fn \notin P
  BY UnwoundIs
<1> DEFINE d == Unwound(c, P)
           l == IF m <= k THEN m ELSE k
<1>3. SeenFrom(c, m) /\ Len(c) \in Nat
  BY <1>1, LenProperties DEF Holds
<1>4. /\ d \in Seq(CallFrames(F)) /\ Len(d) = k /\ (\A i \in 1 .. k : d[i] = c[i])
      /\ SeenFrom(d, l)
  BY <1>2, <1>3, SeenPrefix
<1>5. d # <<>>
  OBVIOUS
<1> HIDE DEF d
<1>6. k # 0 /\ Top(d).fn \in P
  <2>1. k # 0
    BY <1>4, <1>5, EmptySeq
  <2> QED
    BY <1>2, <1>4, <2>1 DEF Top
<1>7. l \in 0 .. Len(d) /\ n - 1 >= Len(d) - l
  BY <1>1, <1>3, <1>4
<1>8. ASSUME NEW i \in 1 .. Len(d) - l PROVE g[i + 1] = d[l + i].fn
  <2>1. l = m /\ i \in 1 .. Len(c) - m /\ m + i \in 1 .. k
    BY <1>3, <1>4
  <2> QED
    BY <1>1, <1>4, <2>1 DEF Holds
<1>9. ASSUME NEW j \in Len(d) - l + 2 .. n PROVE g[j] \notin P
  <2>1. PICK i \in 1 .. Len(c) - m : i + 1 = j /\ m + i \in k + 1 .. Len(c)
    <3>1. j - 1 \in 1 .. Len(c) - m /\ m + (j - 1) \in k + 1 .. Len(c)
      BY <1>1, <1>3, <1>4, <1>6
    <3> QED
      BY <3>1
  <2> QED
    BY <1>1, <1>2, <2>1 DEF Holds
<1> QED
  BY <1>4, <1>5, <1>6, <1>7, <1>8, <1>9 DEF Follows, Holds, d

\* A return and the tail returns after it: of the entries, those up to the last
\* one of the function that returns, and of these one for each tail return.
LEMMA FollowsReturned ==
  ASSUME NEW F, NEW c \in Seq(CallFrames(F)), c # <<>>, NEW P, NEW b \in BOOLEAN,
         NEW g, NEW n \in Nat \ {0}, Follows(g, n, c, P, b),
         NEW k \in 0 .. Len(c) - 1, NEW d, d = SubSeq(c, 1, k),
         NEW r \in Nat,
         \/ (\A j \in 2 .. n : g[j] # Top(c).fn) /\ r = 1
         \/ /\ r + 1 \in 2 .. n /\ g[r + 1] = Top(c).fn
            /\ \A j \in r + 2 .. n : g[j] # Top(c).fn,
         NEW q \in Nat, q = IF r - (Len(c) - 1 - k) <= 1 THEN 1 ELSE r - (Len(c) - 1 - k)
  PROVE  Follows(g, q, d, P, FALSE) /\ q <= n
<1>1. PICK m \in 0 .. Len(c) :
        /\ Holds(g, n, c, m)
        /\ IF b THEN Top(c).fn \in P /\ \A j \in Len(c) - m + 2 .. n : g[j] \notin P
           ELSE n - 1 = Len(c) - m
  BY DEF Follows
<1> DEFINE l == IF m <= k THEN m ELSE k
<1>2. Len(c) \in Nat \ {0} /\ SeenFrom(c, m) /\ k \in 0 .. Len(c)
  BY <1>1, EmptySeq DEF Holds
<1>3. /\ d \in Seq(CallFrames(F)) /\ Len(d) = k /\ (\A i \in 1 .. k : d[i] = c[i])
      /\ SeenFrom(d, l)
  BY <1>2, SeenPrefix
<1>4. \A j \in Len(c) - m + 2 .. n : g[j] # Top(c).fn
  BY <1>1, <1>2
<1>5. n >= Len(c) - m + 1 /\ \A i \in 1 .. Len(c) - m : g[i + 1] = c[m + i].fn
  BY <1>1, <1>2 DEF Holds
<1>6. m < Len(c) => r = Len(c) - m
  <2>1. SUFFICES ASSUME m < Len(c) PROVE r = Len(c) - m
    OBVIOUS
  <2>2. PICK i \in 1 .. Len(c) - m : i = Len(c) - m /\ m + i = Len(c) /\ i + 1 \in 2 .. n
    <3>1. Len(c) - m \in 1 .. Len(c) - m /\ m + (Len(c) - m) = Len(c) /\ (Len(c) - m) + 1 \in 2 .. n
      BY <1>2, <1>5, <2>1
    <3> QED
      BY <3>1
  <2>3. g[i + 1] = Top(c).fn
    BY <1>5, <2>2 DEF Top
  <2>4. r + 1 \in 2 .. n /\ g[r + 1] = Top(c).fn /\ \A j \in r + 2 .. n : g[j] # Top(c).fn
    BY <2>2, <2>3
  <2>5. r + 1 <= i + 1
    BY <1>2, <1>4, <2>2, <2>4
  <2>6. i + 1 <= r + 1
    BY <1>2, <2>2, <2>3, <2>4
  <2> QED
    BY <2>2, <2>5, <2>6
<1>7. m = Len(c) => r = 1
  <2>1. SUFFICES ASSUME m = Len(c) PROVE r = 1
    OBVIOUS
  <2>2. \A j \in 2 .. n : g[j] # Top(c).fn
    BY <1>2, <1>4, <2>1
  <2> QED
    BY <2>2
<1>8. q - 1 = Len(d) - l /\ l \in 0 .. Len(d) /\ q <= n
  <2>1. /\ m <= k => q = k - m + 1 /\ m < Len(c)
        /\ ~(m <= k) => q = 1
    <3>1. CASE m < Len(c)
      <4>1. r - (Len(c) - 1 - k) = k - m + 1
        BY <1>2, <1>6, <3>1
      <4> QED
        BY <1>2, <3>1, <4>1
    <3>2. CASE ~(m < Len(c))
      <4>1. m = Len(c) /\ r = 1 /\ ~(m <= k)
        BY <1>2, <1>7, <3>2
      <4>2. r - (Len(c) - 1 - k) <= 1
        BY <1>2, <4>1
      <4> QED
        BY <4>1, <4>2
    <3> QED
      BY <3>1, <3>2
  <2>2. q - 1 = k - l /\ l \in 0 .. k
    <3>1. m \in Nat /\ k \in Nat
      BY <1>2
    <3>2. CASE m <= k
      BY <2>1, <3>1, <3>2
    <3>3. CASE ~(m <= k)
      BY <2>1, <3>1, <3>3
    <3> QED
      BY <3>2, <3>3
  <2>3. q <= n
    BY <1>2, <1>5, <2>1
  <2> HIDE DEF l
  <2> QED
    BY <1>3, <2>2, <2>3
<1>9. ASSUME NEW i \in 1 .. Len(d) - l PROVE g[i + 1] = d[l + i].fn
  <2>1. m <= k
    BY <1>2, <1>3
  <2>2. l = m /\ i \in 1 .. Len(c) - m /\ m + i \in 1 .. k
    BY <1>2, <1>3, <2>1
  <2> QED
    BY <1>3, <1>5, <2>2
<1> HIDE DEF l
<1>10. q - 1 >= Len(d) - l
  BY <1>3, <1>8
<1> QED
  BY <1>3, <1>8, <1>9, <1>10 DEF Follows, Holds

\* One call less and one entry less, in the order of the stack, the root
\* excepted.
LEMMA FollowsLast ==
  ASSUME NEW F, NEW c \in Seq(CallFrames(F)), c # <<>>, NEW P,
         NEW g, NEW n \in Nat \ {0}, Follows(g, n, c, P, FALSE)
  PROVE  /\ n > 1 => Follows(g, n - 1, Pop(c), P, FALSE) /\ g[n] = Top(c).fn
         /\ n = 1 => \A k \in 0 .. Len(c) : Follows(g, 1, SubSeq(c, 1, k), P, FALSE)
<1>1. PICK m \in 0 .. Len(c) : Holds(g, n, c, m) /\ n - 1 = Len(c) - m
  BY DEF Follows
<1>2. /\ Len(c) \in Nat \ {0} /\ SeenFrom(c, m)
      /\ \A i \in 1 .. Len(c) - m : g[i + 1] = c[m + i].fn
  BY <1>1, EmptySeq DEF Holds
<1>3. ASSUME n > 1 PROVE Follows(g, n - 1, Pop(c), P, FALSE) /\ g[n] = Top(c).fn
  <2>1. PICK k \in 0 .. Len(c) : k = Len(c) - 1 /\ m <= k
    <3>1. Len(c) - 1 \in 0 .. Len(c) /\ m <= Len(c) - 1
      BY <1>1, <1>2, <1>3
    <3> QED
      BY <3>1
  <2>2. PICK d : d = SubSeq(c, 1, k) /\ d = Pop(c)
    BY <2>1 DEF Pop
  <2>3. Len(d) = k /\ (\A i \in 1 .. k : d[i] = c[i]) /\ SeenFrom(d, m)
    BY <1>2, <2>1, <2>2, SeenPrefix
  <2>4. m \in 0 .. Len(d) /\ (n - 1) - 1 = Len(d) - m
    BY <1>1, <1>2, <2>1, <2>3
  <2>5. \A i \in 1 .. Len(d) - m : g[i + 1] = d[m + i].fn
    BY <1>2, <2>1, <2>3
  <2>6. Follows(g, n - 1, d, P, FALSE)
    BY <2>3, <2>4, <2>5, SMTT(30) DEF Follows, Holds
  <2>7. g[n] = Top(c).fn
    <3>1. PICK i \in 1 .. Len(c) - m : i + 1 = n /\ m + i = Len(c)
      <4>1. n - 1 \in 1 .. Len(c) - m /\ m + (n - 1) = Len(c)
        BY <1>1, <1>2, <1>3
      <4> QED
        BY <4>1
    <3> QED
      BY <1>2, <3>1 DEF Top
  <2> QED
    BY <2>2, <2>6, <2>7
<1>4. ASSUME n = 1, NEW k \in 0 .. Len(c) PROVE Follows(g, 1, SubSeq(c, 1, k), P, FALSE)
  <2>1. PICK d : d = SubSeq(c, 1, k)
    OBVIOUS
  <2>2. m = Len(c) /\ (m <= k => m = k)
    BY <1>1, <1>2, <1>4
  <2>3. Len(d) = k /\ SeenFrom(d, k)
    BY <1>2, <2>1, <2>2, SeenPrefix
  <2>4. k \in 0 .. Len(d) /\ 1 - 1 = Len(d) - k /\ 1 - 1 >= Len(d) - k
        /\ \A i \in 1 .. Len(d) - k : g[i + 1] = d[k + i].fn
    BY <1>2, <2>3
  <2> QED
    BY <2>1, <2>3, <2>4 DEF Follows, Holds
<1> QED
  BY <1>3, <1>4

\* While a caught error's calls are on the stack, the last entry is one of
\* them, or the stack has the calls that are left.
LEMMA FollowsAbove ==
  ASSUME NEW F, NEW c \in Seq(CallFrames(F)), NEW P, NEW g, NEW n \in Nat \ {0},
         Follows(g, n, c, P, TRUE)
  PROVE  \/ Follows(g, n, c, P, FALSE)
         \/ n > 1 /\ g[n] \notin P /\ Follows(g, n - 1, c, P, TRUE)
<1>1. PICK m \in 0 .. Len(c) :
        /\ Holds(g, n, c, m) /\ c # <<>> /\ Top(c).fn \in P
        /\ \A j \in Len(c) - m + 2 .. n : g[j] \notin P
  BY DEF Follows
<1>2. Len(c) \in Nat /\ n - 1 >= Len(c) - m
  BY <1>1, LenProperties DEF Holds
<1>3. CASE n - 1 = Len(c) - m
  BY <1>1, <1>3 DEF Follows
<1>4. CASE n - 1 # Len(c) - m
  <2>1. n > 1 /\ n \in Len(c) - m + 2 .. n /\ (n - 1) - 1 >= Len(c) - m
        /\ \A j \in Len(c) - m + 2 .. n - 1 : j \in Len(c) - m + 2 .. n
    BY <1>2, <1>4
  <2>2. Follows(g, n - 1, c, P, TRUE)
    BY <1>1, <2>1 DEF Follows, Holds
  <2> QED
    BY <1>1, <2>1, <2>2
<1> QED
  BY <1>3, <1>4

\* A stack with the root alone, for no calls; and that of a call stack of which
\* the profiler saw nothing, or all.
LEMMA FollowsNone ==
  ASSUME NEW F, NEW c \in Seq(CallFrames(F)), NEW g, NEW P, NEW b \in BOOLEAN,
         \A i \in 1 .. Len(c) : c[i].seen = b
  PROVE  /\ ~b => Follows(g, 1, c, P, FALSE)
         /\ b /\ (\A i \in 1 .. Len(c) : g[i + 1] = c[i].fn) => Follows(g, Len(c) + 1, c, P, FALSE)
<1>1. Len(c) \in Nat
  BY LenProperties
<1>2. ~b => Follows(g, 1, c, P, FALSE)
  <2>1. SUFFICES ASSUME ~b PROVE Follows(g, 1, c, P, FALSE)
    OBVIOUS
  <2>2. Holds(g, 1, c, Len(c)) /\ 1 - 1 = Len(c) - Len(c) /\ Len(c) \in 0 .. Len(c)
    BY <1>1, <2>1 DEF Holds, SeenFrom
  <2> QED
    BY <2>2 DEF Follows
<1>3. b /\ (\A i \in 1 .. Len(c) : g[i + 1] = c[i].fn) => Follows(g, Len(c) + 1, c, P, FALSE)
  <2>1. SUFFICES ASSUME b, \A i \in 1 .. Len(c) : g[i + 1] = c[i].fn
                 PROVE  Follows(g, Len(c) + 1, c, P, FALSE)
    OBVIOUS
  <2>2. (Len(c) + 1) - 1 = Len(c) - 0 /\ (Len(c) + 1) - 1 >= Len(c) - 0 /\ 0 \in 0 .. Len(c)
        /\ \A i \in 1 .. Len(c) - 0 : i \in 1 .. Len(c) /\ 0 + i = i
    BY <1>1
  <2>3. SeenFrom(c, 0)
    <3>1. \A i \in 1 .. Len(c) : c[i].seen
      BY <2>1, Zenon
    <3>2. \A i \in 1 .. Len(c) : i > 0
      BY <1>1
    <3> QED
      BY <1>1, <3>1, <3>2 DEF SeenFrom
  <2>4. Holds(g, Len(c) + 1, c, 0)
    BY <2>1, <2>2, <2>3 DEF Holds
  <2> QED
    BY <2>2, <2>4 DEF Follows
<1> QED
  BY <1>2, <1>3

\* Whether a stack follows the calls depends on its entries only.
LEMMA FollowsAgree ==
  ASSUME NEW c, NEW g, NEW h, NEW n \in Nat, \A i \in 1 .. n : h[i] = g[i],
         NEW P, NEW b \in BOOLEAN, Follows(g, n, c, P, b), Len(c) \in Nat
  PROVE  Follows(h, n, c, P, b)
<1>1. PICK m \in 0 .. Len(c) :
        /\ Holds(g, n, c, m)
        /\ IF b THEN c # <<>> /\ Top(c).fn \in P /\ \A j \in Len(c) - m + 2 .. n : g[j] \notin P
           ELSE n - 1 = Len(c) - m
  BY DEF Follows
<1>2. Holds(h, n, c, m)
  <2>1. \A i \in 1 .. Len(c) - m : i + 1 \in 1 .. n
    BY <1>1 DEF Holds
  <2> QED
    BY <1>1, <2>1 DEF Holds
<1>3. \A j \in Len(c) - m + 2 .. n : h[j] = g[j]
  BY <1>1
<1> QED
  BY <1>1, <1>2, <1>3 DEF Follows

\* Without a return event of C functions: what follows embeds.
LEMMA FollowsEmbeds ==
  ASSUME NEW F, NEW c \in Seq(CallFrames(F)), NEW g, NEW n \in Nat, NEW P,
         Follows(g, n, c, P, FALSE)
  PROVE  Embeds(g, n, c)
<1>1. PICK m \in 0 .. Len(c) : Holds(g, n, c, m) /\ n - 1 = Len(c) - m
  BY DEF Follows
<1>2. Len(c) \in Nat
  BY LenProperties
<1>3. PICK l \in Nat : l = Len(c) - m /\ m + l = Len(c) /\ l = n - 1
  BY <1>1, <1>2
<1> DEFINE at == [i \in 1 .. l |-> i + 1]
<1>4. at \in [1 .. l -> 2 .. n] /\ \A i, j \in 1 .. l : i < j => at[i] < at[j]
  BY <1>3
<1>5. \A i \in 1 .. l : g[at[i]] = c[m + i].fn
  BY <1>1, <1>3 DEF Holds
<1>6. SeenFrom(c, m)
  BY <1>1 DEF Holds
<1> HIDE DEF at
<1> QED
  BY <1>3, <1>4, <1>5, <1>6 DEF Embeds

\* What such a stack has of the calls.
LEMMA EmbedsSeen ==
  ASSUME NEW F, NEW c \in Seq(CallFrames(F)), NEW g, NEW n \in Nat, Embeds(g, n, c)
  PROVE  LET k == Len(SeenCalls(c))
         IN  \E at \in [1 .. k -> 1 .. n - 1] :
               /\ \A i \in 1 .. k : g[at[i] + 1] = SeenCalls(c)[i].fn
               /\ \A i, j \in 1 .. k : i < j => at[i] < at[j]
<1>1. PICK m \in 0 .. Len(c), l \in Nat :
        /\ m + l = Len(c) /\ SeenFrom(c, m)
        /\ \E to \in [1 .. l -> 2 .. n] :
             /\ \A i \in 1 .. l : g[to[i]] = c[m + i].fn
             /\ \A i, j \in 1 .. l : i < j => to[i] < to[j]
  BY DEF Embeds
<1>2. PICK to \in [1 .. l -> 2 .. n] :
        /\ \A i \in 1 .. l : g[to[i]] = c[m + i].fn
        /\ \A i, j \in 1 .. l : i < j => to[i] < to[j]
  BY <1>1
<1>3. /\ Len(SeenCalls(c)) = Len(c) - m
      /\ \A i \in 1 .. Len(c) - m : SeenCalls(c)[i] = c[m + i]
  BY <1>1, SeenCallsAre, SMTT(30)
<1>4. Len(SeenCalls(c)) = l /\ \A i \in 1 .. l : SeenCalls(c)[i] = c[m + i]
  <2>1. Len(c) - m = l
    BY <1>1
  <2> QED
    BY <1>3, <2>1
<1> DEFINE at == [i \in 1 .. l |-> to[i] - 1]
<1>5. \A i \in 1 .. l : to[i] \in 2 .. n
  BY <1>2
<1>6. at \in [1 .. l -> 1 .. n - 1]
  BY <1>5
<1>7. \A i \in 1 .. l : at[i] + 1 = to[i]
  BY <1>5
<1>8. \A i, j \in 1 .. l : i < j => at[i] < at[j]
  BY <1>2, <1>5, SMTT(30)
<1> HIDE DEF at
<1>9. \A i \in 1 .. l : g[at[i] + 1] = SeenCalls(c)[i].fn
  BY <1>2, <1>4, <1>7
<1> QED
  BY <1>4, <1>6, <1>8, <1>9

\* A call: one entry more.
LEMMA EmbedsCalled ==
  ASSUME NEW F, NEW c \in Seq(CallFrames(F)), NEW f \in F,
         NEW d, d = Called(c, f) \/ (c # <<>> /\ d = TailCalled(c, f)),
         NEW g, NEW n \in Nat \ {0}, Embeds(g, n, c),
         NEW h, h[n + 1] = f, \A i \in 1 .. n : h[i] = g[i]
  PROVE  Embeds(h, n + 1, d)
<1>1. PICK m \in 0 .. Len(c), l \in Nat :
        /\ m + l = Len(c) /\ SeenFrom(c, m)
        /\ \E to \in [1 .. l -> 2 .. n] :
             /\ \A i \in 1 .. l : g[to[i]] = c[m + i].fn
             /\ \A i, j \in 1 .. l : i < j => to[i] < to[j]
  BY DEF Embeds
<1>2. PICK to \in [1 .. l -> 2 .. n] :
        /\ \A i \in 1 .. l : g[to[i]] = c[m + i].fn
        /\ \A i, j \in 1 .. l : i < j => to[i] < to[j]
  BY <1>1
<1>3. /\ d \in Seq(CallFrames(F)) /\ Len(d) = Len(c) + 1
      /\ d[Len(c) + 1].fn = f /\ d[Len(c) + 1].seen
      /\ \A i \in 1 .. Len(c) : d[i].fn = c[i].fn /\ d[i].seen = c[i].seen
  BY CalledIs
<1>4. PICK z \in Nat : z = Len(c)
  BY LenProperties
<1>5. m \in 0 .. Len(d) /\ m + (l + 1) = Len(d) /\ Len(c) = m + l
  BY <1>1, <1>3, <1>4
<1>6. SeenFrom(d, m)
  <2>1. \A i \in 1 .. z : d[i].seen <=> i > m
    <3>1. \A i \in 1 .. z : c[i].seen <=> i > m
      BY <1>1, <1>4 DEF SeenFrom
    <3>2. \A i \in 1 .. z : d[i].seen = c[i].seen
      BY <1>3, <1>4
    <3> QED
      BY <3>1, <3>2
  <2>2. d[z + 1].seen /\ z + 1 > m /\ Len(d) = z + 1
    BY <1>1, <1>3, <1>4
  <2>3. \A i \in 1 .. z + 1 : i = z + 1 \/ i \in 1 .. z
    OBVIOUS
  <2>4. \A i \in 1 .. z + 1 : d[i].seen <=> i > m
    BY <2>1, <2>2, <2>3, Zenon
  <2> QED
    BY <1>5, <2>2, <2>4 DEF SeenFrom
<1> DEFINE at == [i \in 1 .. l + 1 |-> IF i = l + 1 THEN n + 1 ELSE to[i]]
<1>7. \A i \in 1 .. l + 1 : i = l + 1 \/ (i \in 1 .. l /\ i # l + 1)
  OBVIOUS
<1>8. \A i \in 1 .. l : to[i] \in 2 .. n
  BY <1>2
<1>9. /\ at[l + 1] = n + 1
      /\ \A i \in 1 .. l : at[i] = to[i] /\ at[i] \in 1 .. n /\ at[i] < n + 1
  BY <1>8
<1>10. \A i \in 1 .. l + 1 : at[i] \in 2 .. n + 1
  BY <1>7, <1>8, <1>9
<1>11. at \in [1 .. l + 1 -> 2 .. n + 1]
  <2>1. at = [i \in 1 .. l + 1 |-> at[i]]
    OBVIOUS
  <2> HIDE DEF at
  <2> QED
    BY <1>10, <2>1
<1> HIDE DEF at
<1>12. \A i, j \in 1 .. l + 1 : i < j => at[i] < at[j]
  <2> TAKE i, j \in 1 .. l + 1
  <2> HAVE i < j
  <2>1. i \in 1 .. l
    OBVIOUS
  <2>2. CASE j = l + 1
    BY <1>9, <2>1, <2>2
  <2>3. CASE j \in 1 .. l
    BY <1>2, <1>9, <2>1, <2>3
  <2> QED
    BY <1>7, <2>2, <2>3
<1>13. \A i \in 1 .. l + 1 : h[at[i]] = d[m + i].fn
  <2> TAKE i \in 1 .. l + 1
  <2>1. CASE i = l + 1
    <3>1. m + i = Len(c) + 1
      BY <1>5, <2>1
    <3> QED
      BY <1>3, <1>9, <2>1, <3>1
  <2>2. CASE i \in 1 .. l
    <3>1. PICK a \in 1 .. n : a = to[i] /\ a = at[i]
      BY <1>9, <2>2
    <3>2. PICK b \in 1 .. Len(c) : b = m + i
      BY <1>5, <2>2
    <3>3. h[a] = g[a] /\ d[b].fn = c[b].fn
      BY <1>3
    <3>4. g[to[i]] = c[m + i].fn
      BY <1>2, <2>2
    <3> QED
      BY <3>1, <3>2, <3>3, <3>4, Zenon
  <2> QED
    BY <1>7, <2>1, <2>2
<1>14. l + 1 \in Nat /\ n + 1 \in Nat
  OBVIOUS
<1> QED
  BY <1>5, <1>6, <1>11, <1>12, <1>13, <1>14 DEF Embeds

\* A return and an error: calls are left, with all the entries; or with those
\* below the last one of the function that returns.
LEMMA EmbedsLeft ==
  ASSUME NEW F, NEW c \in Seq(CallFrames(F)), NEW g, NEW n \in Nat, Embeds(g, n, c),
         NEW k \in 0 .. Len(c), NEW q \in Nat,
         \/ q = n
         \/ k < Len(c) /\ \A j \in 2 .. n : g[j] = Top(c).fn => j <= q + 1
  PROVE  Embeds(g, q, SubSeq(c, 1, k))
<1>1. PICK m \in 0 .. Len(c), l \in Nat :
        /\ m + l = Len(c) /\ SeenFrom(c, m)
        /\ \E to \in [1 .. l -> 2 .. n] :
             /\ \A i \in 1 .. l : g[to[i]] = c[m + i].fn
             /\ \A i, j \in 1 .. l : i < j => to[i] < to[j]
  BY DEF Embeds
<1>2. PICK to \in [1 .. l -> 2 .. n] :
        /\ \A i \in 1 .. l : g[to[i]] = c[m + i].fn
        /\ \A i, j \in 1 .. l : i < j => to[i] < to[j]
  BY <1>1
<1>3. PICK d : d = SubSeq(c, 1, k)
  OBVIOUS
<1>4. /\ Len(d) = k /\ \A i \in 1 .. k : d[i] = c[i]
      /\ m <= k => SeenFrom(d, m)
      /\ ~(m <= k) => SeenFrom(d, k)
  BY <1>1, <1>3, SeenPrefix
<1>5. PICK z \in Nat : z = Len(c)
  BY LenProperties
<1>6. CASE ~(m <= k)
  <2>1. 1 .. 0 = {} /\ k \in 0 .. Len(d) /\ k + 0 = Len(d)
    BY <1>4
  <2>2. [i \in 1 .. 0 |-> 2] \in [1 .. 0 -> 2 .. q]
    BY <2>1
  <2>3. /\ \A i \in 1 .. 0 : g[[i2 \in 1 .. 0 |-> 2][i]] = d[k + i].fn
        /\ \A i, j \in 1 .. 0 : i < j => [i2 \in 1 .. 0 |-> 2][i] < [i2 \in 1 .. 0 |-> 2][j]
    BY <2>1
  <2>4. SeenFrom(d, k) /\ 0 \in Nat
    BY <1>4, <1>6
  <2>5. Embeds(g, q, d)
    BY <2>1, <2>2, <2>3, <2>4 DEF Embeds
  <2> QED
    BY <1>3, <2>5
<1>7. CASE m <= k
  <2>1. PICK u \in Nat : u = k - m /\ m + u = k
    BY <1>5, <1>7
  <2> DEFINE at == [i \in 1 .. u |-> to[i]]
  <2>2. \A i \in 1 .. u : i \in 1 .. l /\ m + i \in 1 .. k
    BY <1>1, <1>5, <2>1
  <2>3. \A i \in 1 .. u : to[i] \in 2 .. q
    <3>1. CASE q = n
      BY <1>2, <2>2, <3>1
    <3>2. CASE k < Len(c) /\ \A j \in 2 .. n : g[j] = Top(c).fn => j <= q + 1
      <4>1. l \in 1 .. l /\ m + l = Len(c) /\ \A i \in 1 .. u : i \in 1 .. l /\ i < l
        BY <1>1, <1>5, <2>1, <3>2
      <4>2. to[l] \in 2 .. n /\ g[to[l]] = Top(c).fn
        BY <1>2, <4>1 DEF Top
      <4>3. to[l] <= q + 1
        BY <3>2, <4>2
      <4>4. \A i \in 1 .. u : to[i] \in 2 .. n /\ to[i] < to[l]
        BY <1>2, <4>1
      <4> QED
        BY <4>2, <4>3, <4>4
    <3> QED
      BY <3>1, <3>2
  <2>4. at \in [1 .. u -> 2 .. q]
    BY <2>3
  <2>5. \A i \in 1 .. u : at[i] = to[i]
    OBVIOUS
  <2> HIDE DEF at
  <2>6. \A i, j \in 1 .. u : i < j => at[i] < at[j]
    BY <1>2, <2>2, <2>5
  <2>7. \A i \in 1 .. u : g[at[i]] = d[m + i].fn
    <3> TAKE i \in 1 .. u
    <3>1. g[to[i]] = c[m + i].fn
      BY <1>2, <2>2
    <3>2. d[m + i] = c[m + i]
      BY <1>4, <2>2
    <3> QED
      BY <2>5, <3>1, <3>2
  <2>8. m \in 0 .. Len(d) /\ m + u = Len(d) /\ SeenFrom(d, m)
    BY <1>4, <1>7, <2>1
  <2>9. Embeds(g, q, d)
    BY <2>4, <2>6, <2>7, <2>8 DEF Embeds
  <2> QED
    BY <1>3, <2>9
<1> QED
  BY <1>6, <1>7

\* Whether a stack embeds the calls depends on its entries only.
LEMMA EmbedsAgree ==
  ASSUME NEW c, NEW g, NEW h, NEW n \in Nat, \A i \in 1 .. n : h[i] = g[i], Embeds(g, n, c)
  PROVE  Embeds(h, n, c)
<1>1. PICK m \in 0 .. Len(c), l \in Nat :
        /\ m + l = Len(c) /\ SeenFrom(c, m)
        /\ \E to \in [1 .. l -> 2 .. n] :
             /\ \A i \in 1 .. l : g[to[i]] = c[m + i].fn
             /\ \A i, j \in 1 .. l : i < j => to[i] < to[j]
  BY DEF Embeds
<1>2. PICK to \in [1 .. l -> 2 .. n] :
        /\ \A i \in 1 .. l : g[to[i]] = c[m + i].fn
        /\ \A i, j \in 1 .. l : i < j => to[i] < to[j]
  BY <1>1
<1>3. \A i \in 1 .. l : to[i] \in 1 .. n
  BY <1>2
<1>4. \A i \in 1 .. l : h[to[i]] = c[m + i].fn
  BY <1>2, <1>3
<1> QED
  BY <1>1, <1>2, <1>4 DEF Embeds
-----------------------------------------------------------------------------
(* Sums *)

\* The element of a set that a fold takes first.
Chosen(s) == CHOOSE x \in s : TRUE

\* g sums up f over each of the subsets of S.
SumOf(f, g, s) == IF s = {} THEN 0 ELSE f[Chosen(s)] + g[s \ {Chosen(s)}]
SumsUp(f, S, g) == g = [s \in SUBSET S |-> SumOf(f, g, s)]

\* A set without its first element.
LEMMA WithoutChosen ==
  ASSUME NEW s, s # {}, IsFiniteSet(s)
  PROVE  /\ Chosen(s) \in s /\ IsFiniteSet(s \ {Chosen(s)})
         /\ Cardinality(s) \in Nat \ {0}
         /\ Cardinality(s \ {Chosen(s)}) = Cardinality(s) - 1
<1>1. Chosen(s) \in s
  BY DEF Chosen
<1>2. PICK x \in s : x = Chosen(s)
  BY <1>1
<1>3. Cardinality(s) \in Nat /\ Cardinality(s) # 0
  BY FS_CardinalityType, FS_EmptySet
<1>4. IsFiniteSet(s \ {x}) /\ Cardinality(s \ {x}) = Cardinality(s) - 1
  BY FS_RemoveElement
<1> QED
  BY <1>1, <1>2, <1>3, <1>4

\* The sums up to a size determine those of the next.
LEMMA SumsUpExists ==
  ASSUME NEW f, NEW S, IsFiniteSet(S)
  PROVE  \E g : SumsUp(f, S, g)
<1> DEFINE D(n) == {s \in SUBSET S : Cardinality(s) <= n}
           A == {n \in Nat : \E g : g = [s \in D(n) |-> SumOf(f, g, s)]}
<1>1. \A s \in SUBSET S : /\ IsFiniteSet(s) /\ Cardinality(s) \in Nat
                          /\ Cardinality(s) <= Cardinality(S)
                          /\ Cardinality(s) = 0 => s = {}
  <2> TAKE s \in SUBSET S
  <2>1. IsFiniteSet(s) /\ Cardinality(s) <= Cardinality(S)
    BY FS_Subset
  <2> QED
    BY <2>1, FS_CardinalityType, FS_EmptySet
<1>2. 0 \in A
  <2> DEFINE g == [s \in D(0) |-> 0]
  <2>1. \A s \in D(0) : SumOf(f, g, s) = 0
    <3> TAKE s \in D(0)
    <3>1. s = {}
      BY <1>1
    <3> QED
      BY <3>1 DEF SumOf
  <2>2. g = [s \in D(0) |-> SumOf(f, g, s)]
    BY <2>1
  <2> HIDE DEF g, D
  <2> QED
    BY <2>2
<1>3. ASSUME NEW n \in Nat, n \in A PROVE n + 1 \in A
  <2>1. PICK g : g = [s \in D(n) |-> SumOf(f, g, s)]
    BY <1>3
  <2> DEFINE v == [s \in D(n + 1) |-> IF s \in D(n) THEN g[s] ELSE SumOf(f, g, s)]
  <2>2. D(n) \subseteq D(n + 1)
    BY <1>1
  <2>3. \A s \in D(n + 1) : s # {} => s \ {Chosen(s)} \in D(n)
    <3> TAKE s \in D(n + 1)
    <3>1. s # {} => Cardinality(s \ {Chosen(s)}) = Cardinality(s) - 1 /\ Cardinality(s) \in Nat
      BY <1>1, WithoutChosen
    <3> QED
      BY <3>1
  <2> HIDE DEF D
  <2>4. \A s \in D(n + 1) : SumOf(f, v, s) = SumOf(f, g, s)
    BY <2>2, <2>3 DEF SumOf
  <2>5. \A s \in D(n) : g[s] = SumOf(f, g, s)
    BY <2>1
  <2>6. v = [s \in D(n + 1) |-> SumOf(f, v, s)]
    <3>1. \A s \in D(n + 1) : v[s] = SumOf(f, v, s)
      <4> HIDE DEF v
      <4>1. \A s \in D(n + 1) : v[s] = IF s \in D(n) THEN g[s] ELSE SumOf(f, g, s)
        BY DEF v
      <4> QED
        BY <2>4, <2>5, <4>1
    <3>2. v = [s \in D(n + 1) |-> v[s]]
      OBVIOUS
    <3> HIDE DEF v
    <3> QED
      BY <3>1, <3>2
  <2> HIDE DEF v
  <2> QED
    BY <2>6
<1>4. Cardinality(S) \in A
  <2>1. Cardinality(S) \in Nat
    BY FS_CardinalityType
  <2> HIDE DEF A
  <2> QED
    BY <1>2, <1>3, <2>1, InductionOnNat
<1>5. D(Cardinality(S)) = SUBSET S
  BY <1>1
<1> HIDE DEF D
<1> QED
  BY <1>4, <1>5 DEF SumsUp

\* What SumFunction is defined by.
LEMMA SumFunctionIs ==
  ASSUME NEW f, IsFiniteSet(DOMAIN f)
  PROVE  \E g : SumsUp(f, DOMAIN f, g) /\ SumFunction(f) = g[DOMAIN f]
<1> DEFINE g == CHOOSE g : SumsUp(f, DOMAIN f, g)
<1>1. SumsUp(f, DOMAIN f, g)
  BY SumsUpExists
<1>2. SumFunction(f) = g[DOMAIN f]
  BY DEF SumFunction, SumFunctionOnSet, FoldFunctionOnSet, MapThenFoldSet, SumsUp, SumOf, Chosen
<1> QED
  BY <1>1, <1>2

\* A sum is that of the first element and that of the others.
Unfolds(f, S, g) ==
  \A s \in SUBSET S :
    /\ s = {} => g[s] = 0
    /\ \A c, r : s # {} /\ c = Chosen(s) /\ r = s \ {c} => g[s] = f[c] + g[r]

\* The sums of all subsets unfold so.
LEMMA SumsUpAt == \A f, S, g : SumsUp(f, S, g) => Unfolds(f, S, g)
BY DEF SumsUp, SumOf, Unfolds

\* Sums are of what is summed up only.
LEMMA SumsUpAgree ==
  ASSUME NEW f, NEW S, NEW g, SumsUp(f, S, g), NEW h, NEW T, NEW k, SumsUp(h, T, k)
  PROVE  \A U : /\ U \subseteq S /\ U \subseteq T /\ IsFiniteSet(U)
                /\ \A x \in U : f[x] = h[x]
                => g[U] = k[U]
<1> DEFINE P(U) == /\ U \subseteq S /\ U \subseteq T /\ IsFiniteSet(U)
                   /\ \A x \in U : f[x] = h[x]
           A == {n \in Nat : \A U : P(U) /\ Cardinality(U) = n => g[U] = k[U]}
<1>0. Unfolds(f, S, g) /\ Unfolds(h, T, k)
  BY SumsUpAt
<1>1. 0 \in A
  BY <1>0, FS_EmptySet DEF Unfolds
<1>2. ASSUME NEW n \in Nat, n \in A PROVE n + 1 \in A
  <2> SUFFICES ASSUME NEW U, P(U), Cardinality(U) = n + 1
               PROVE  g[U] = k[U]
    OBVIOUS
  <2>1. U # {}
    BY FS_EmptySet
  <2>2. PICK V : V = U \ {Chosen(U)}
    OBVIOUS
  <2>3. Chosen(U) \in U /\ IsFiniteSet(V) /\ Cardinality(V) = n
    BY <2>1, <2>2, WithoutChosen
  <2>4. P(V)
    BY <2>2, <2>3
  <2>5. g[V] = k[V]
    BY <1>2, <2>3, <2>4
  <2>6. PICK c \in U : c = Chosen(U)
    BY <2>3
  <2>7. g[U] = f[c] + g[V] /\ k[U] = h[c] + k[V]
    <3>1. U \in SUBSET S /\ U \in SUBSET T /\ V = U \ {c}
      BY <2>2, <2>6
    <3>2. g[U] = f[c] + g[V]
      BY <1>0, <2>1, <2>6, <3>1 DEF Unfolds
    <3>3. k[U] = h[c] + k[V]
      BY <1>0, <2>1, <2>6, <3>1 DEF Unfolds
    <3> QED
      BY <3>2, <3>3
  <2>8. f[c] = h[c]
    OBVIOUS
  <2> QED
    BY <2>5, <2>7, <2>8
<1>3. \A n \in Nat : n \in A
  <2> HIDE DEF A
  <2> QED
    BY <1>1, <1>2, InductionOnNat
<1> QED
  <2> SUFFICES ASSUME NEW U, P(U) PROVE g[U] = k[U]
    OBVIOUS
  <2>1. Cardinality(U) \in Nat
    BY FS_CardinalityType
  <2> QED
    BY <1>3, <2>1

\* Sums of integers are integers.
LEMMA SumsUpType ==
  ASSUME NEW f, NEW S, NEW g, SumsUp(f, S, g), \A x \in S : f[x] \in Int, IsFiniteSet(S)
  PROVE  \A U \in SUBSET S : g[U] \in Int
<1> DEFINE A == {n \in Nat : \A U \in SUBSET S : Cardinality(U) = n => g[U] \in Int}
<1>0. Unfolds(f, S, g)
  BY SumsUpAt
<1>00. \A U \in SUBSET S : IsFiniteSet(U)
  BY FS_Subset
<1>1. 0 \in A
  <2>1. \A U \in SUBSET S : Cardinality(U) = 0 => U = {}
    BY <1>00, FS_EmptySet
  <2>2. \A U \in SUBSET S : Cardinality(U) = 0 => g[U] \in Int
    BY <1>0, <2>1 DEF Unfolds
  <2> QED
    BY <2>2
<1>2. ASSUME NEW n \in Nat, n \in A PROVE n + 1 \in A
  <2> SUFFICES ASSUME NEW U \in SUBSET S, Cardinality(U) = n + 1 PROVE g[U] \in Int
    OBVIOUS
  <2>1. U # {}
    BY FS_EmptySet
  <2>2. PICK V : V = U \ {Chosen(U)}
    OBVIOUS
  <2>3. Chosen(U) \in U /\ Cardinality(V) = n
    <3>1. IsFiniteSet(U)
      BY <1>00
    <3> QED
      BY <2>1, <2>2, <3>1, WithoutChosen
  <2>4. g[V] \in Int
    BY <1>2, <2>2, <2>3
  <2>5. PICK c \in U : c = Chosen(U)
    BY <2>3
  <2>6. g[U] = f[c] + g[V]
    BY <1>0, <2>1, <2>2, <2>5 DEF Unfolds
  <2>7. f[c] \in Int
    OBVIOUS
  <2> QED
    BY <2>4, <2>6, <2>7
<1>3. \A n \in Nat : n \in A
  <2> HIDE DEF A
  <2> QED
    BY <1>1, <1>2, InductionOnNat
<1>4. \A U \in SUBSET S : Cardinality(U) \in Nat
  BY <1>00, FS_CardinalityType
<1> QED
  BY <1>3, <1>4

\* Any element may be summed up first.
LEMMA SumsUpWithout ==
  ASSUME NEW f, NEW S, NEW g, SumsUp(f, S, g), \A x \in S : f[x] \in Int, IsFiniteSet(S)
  PROVE  \A U, x, r : U \subseteq S /\ x \in U /\ r = U \ {x} => g[U] = f[x] + g[r]
<1> DEFINE A == {n \in Nat : \A U \in SUBSET S :
                               Cardinality(U) = n => \A x \in U : g[U] = f[x] + g[U \ {x}]}
<1>0. Unfolds(f, S, g)
  BY SumsUpAt
<1>00. \A U \in SUBSET S : IsFiniteSet(U) /\ g[U] \in Int
  BY FS_Subset, SumsUpType
<1>1. 0 \in A
  BY <1>00, FS_EmptySet
<1>2. ASSUME NEW n \in Nat, n \in A PROVE n + 1 \in A
  <2> SUFFICES ASSUME NEW U \in SUBSET S, Cardinality(U) = n + 1, NEW x \in U
               PROVE  g[U] = f[x] + g[U \ {x}]
    OBVIOUS
  <2>1. PICK c \in U : c = Chosen(U)
    BY <1>00, WithoutChosen
  <2>2. g[U] = f[c] + g[U \ {c}]
    BY <1>0, <2>1 DEF Unfolds
  <2>3. CASE x = c
    BY <2>2, <2>3
  <2>4. CASE x # c
    <3>1. PICK V, W, Z : V = U \ {c} /\ W = U \ {x} /\ Z = U \ {c, x}
      OBVIOUS
    <3>2. /\ V \in SUBSET S /\ W \in SUBSET S /\ Z \in SUBSET S
          /\ x \in V /\ c \in W /\ V \ {x} = Z /\ W \ {c} = Z
      BY <2>4, <3>1
    <3>3. Cardinality(V) = n /\ Cardinality(W) = n
      <4>1. Cardinality(U \ {c}) = Cardinality(U) - 1 /\ Cardinality(U \ {x}) = Cardinality(U) - 1
        BY <1>00, FS_RemoveElement
      <4> QED
        BY <3>1, <4>1
    <3>4. g[V] = f[x] + g[Z] /\ g[W] = f[c] + g[Z]
      BY <1>2, <3>2, <3>3
    <3>5. f[x] \in Int /\ f[c] \in Int /\ g[Z] \in Int
      BY <1>00, <3>2
    <3>6. g[U] = f[c] + g[V]
      BY <2>2, <3>1
    <3>7. g[U] = f[x] + g[W]
      BY <3>4, <3>5, <3>6
    <3> QED
      BY <3>1, <3>7
  <2> QED
    BY <2>3, <2>4
<1>3. \A n \in Nat : n \in A
  <2> HIDE DEF A
  <2> QED
    BY <1>1, <1>2, InductionOnNat
<1>4. \A U \in SUBSET S : Cardinality(U) \in Nat
  BY <1>00, FS_CardinalityType
<1> QED
  BY <1>3, <1>4

\* The sum of a function whose domain is empty, and of one with integers.
LEMMA SumType ==
  ASSUME NEW S, IsFiniteSet(S), NEW f \in [S -> Int]
  PROVE  SumFunction(f) \in Int /\ (S = {} => SumFunction(f) = 0)
<1>1. PICK g : SumsUp(f, S, g) /\ SumFunction(f) = g[S]
  BY SumFunctionIs
<1>2. \A U \in SUBSET S : g[U] \in Int
  BY <1>1, SumsUpType
<1>3. Unfolds(f, S, g)
  BY <1>1, SumsUpAt
<1> QED
  BY <1>1, <1>2, <1>3 DEF Unfolds

\* A sum is that of one element and of the rest.
LEMMA SumWithout ==
  ASSUME NEW S, IsFiniteSet(S), NEW f \in [S -> Int]
  PROVE  \A x, T, h : /\ x \in S /\ T = S \ {x} /\ h \in [T -> Int]
                      /\ \A y \in T : h[y] = f[y]
                      => SumFunction(f) = f[x] + SumFunction(h)
<1> SUFFICES ASSUME NEW x \in S, NEW T, T = S \ {x}, NEW h \in [T -> Int],
                    \A y \in T : h[y] = f[y]
             PROVE  SumFunction(f) = f[x] + SumFunction(h)
  OBVIOUS
<1>1. PICK g : SumsUp(f, S, g) /\ SumFunction(f) = g[S]
  BY SumFunctionIs
<1>2. T = S \ {x}
  OBVIOUS
<1>3. IsFiniteSet(T)
  BY <1>2, FS_RemoveElement
<1>4. PICK k : SumsUp(h, T, k) /\ SumFunction(h) = k[T]
  BY <1>2, <1>3, SumFunctionIs
<1>5. T \subseteq S /\ \A y \in T : f[y] = h[y]
  BY <1>2
<1>6. g[T] = k[T]
  BY <1>1, <1>3, <1>4, <1>5, SumsUpAgree
<1>7. g[S] = f[x] + g[T]
  <2>0. \A y \in S : f[y] \in Int
    OBVIOUS
  <2>1. \A U, y, r : U \subseteq S /\ y \in U /\ r = U \ {y} => g[U] = f[y] + g[r]
    BY <1>1, <2>0, SumsUpWithout
  <2>2. \A r : r = S \ {x} => g[S] = f[x] + g[r]
    BY <2>1
  <2> QED
    BY <1>2, <2>2, Zenon
<1> QED
  BY <1>1, <1>4, <1>6, <1>7

\* One element changes.
LEMMA SumChanges ==
  ASSUME NEW S, IsFiniteSet(S)
  PROVE  \A f, h \in [S -> Int] : \A x \in S :
           (\A y \in S : y # x => h[y] = f[y])
           => SumFunction(h) + f[x] = SumFunction(f) + h[x]
<1> SUFFICES ASSUME NEW f \in [S -> Int], NEW h \in [S -> Int], NEW x \in S,
                    \A y \in S : y # x => h[y] = f[y]
             PROVE  SumFunction(h) + f[x] = SumFunction(f) + h[x]
  OBVIOUS
<1>1. PICK T : T = S \ {x}
  OBVIOUS
<1>2. PICK k \in [T -> Int] : \A y \in T : k[y] = f[y] /\ k[y] = h[y]
  <2>1. [y \in T |-> f[y]] \in [T -> Int]
    BY <1>1
  <2> QED
    BY <1>1, <2>1
<1>3. IsFiniteSet(T)
  BY <1>1, <1>2, FS_RemoveElement
<1>4. SumFunction(f) = f[x] + SumFunction(k)
  BY <1>1, <1>2, <1>3, SumWithout
<1>5. SumFunction(h) = h[x] + SumFunction(k)
  BY <1>1, <1>2, <1>3, SumWithout
<1>6. SumFunction(k) \in Int
  BY <1>2, <1>3, SumType
<1>7. f[x] \in Int /\ h[x] \in Int
  OBVIOUS
<1> QED
  BY <1>4, <1>5, <1>6, <1>7

\* The last number changes.
LEMMA SumChangesLast ==
  ASSUME NEW n \in Nat \ {0}, NEW f \in [1 .. n -> Int], NEW h \in [1 .. n -> Int],
         \A i \in 1 .. n : i # n => h[i] = f[i]
  PROVE  SumFunction(h) + f[n] = SumFunction(f) + h[n]
<1>1. PICK S : S = 1 .. n
  OBVIOUS
<1>2. IsFiniteSet(S) /\ n \in S /\ f \in [S -> Int] /\ h \in [S -> Int]
  BY <1>1, FS_Interval
<1>3. \A i \in S : i # n => h[i] = f[i]
  BY <1>1
<1> QED
  BY <1>2, <1>3, SumChanges

\* Zeros add nothing.
LEMMA SumExtends ==
  ASSUME NEW S, NEW T, IsFiniteSet(T), S \subseteq T, NEW f \in [S -> Int], NEW h \in [T -> Int],
         \A x \in S : h[x] = f[x], \A x \in T \ S : h[x] = 0
  PROVE  SumFunction(h) = SumFunction(f)
<1>1. PICK g : SumsUp(h, T, g) /\ SumFunction(h) = g[T]
  BY SumFunctionIs
<1>2. IsFiniteSet(S)
  BY FS_Subset
<1>3. PICK k : SumsUp(f, S, k) /\ SumFunction(f) = k[S]
  BY <1>2, SumFunctionIs
<1>4. g[S] = k[S]
  <2>1. S \subseteq T /\ \A x \in S : h[x] = f[x]
    OBVIOUS
  <2> QED
    BY <1>1, <1>2, <1>3, <2>1, SumsUpAgree
<1>5. /\ \A U, y, r : U \subseteq T /\ y \in U /\ r = U \ {y} => g[U] = h[y] + g[r]
      /\ \A U \in SUBSET T : g[U] \in Int
  <2>1. \A y \in T : h[y] \in Int
    OBVIOUS
  <2>2. \A U, y, r : U \subseteq T /\ y \in U /\ r = U \ {y} => g[U] = h[y] + g[r]
    BY <1>1, <2>1, SumsUpWithout
  <2>3. \A U \in SUBSET T : g[U] \in Int
    BY <1>1, <2>1, SumsUpType
  <2> QED
    BY <2>2, <2>3
<1> DEFINE A == {n \in Nat : \A U \in SUBSET T :
                               S \subseteq U /\ Cardinality(U \ S) = n => g[U] = g[S]}
<1>6. \A U \in SUBSET T : IsFiniteSet(U \ S)
  BY FS_Subset
<1>7. 0 \in A
  <2>1. \A U \in SUBSET T : Cardinality(U \ S) = 0 => U \ S = {}
    BY <1>6, FS_EmptySet
  <2>2. \A U \in SUBSET T : S \subseteq U /\ U \ S = {} => U = S
    OBVIOUS
  <2> QED
    BY <2>1, <2>2
<1>8. ASSUME NEW n \in Nat, n \in A PROVE n + 1 \in A
  <2> SUFFICES ASSUME NEW U \in SUBSET T, S \subseteq U, Cardinality(U \ S) = n + 1
               PROVE  g[U] = g[S]
    OBVIOUS
  <2>1. PICK x : x \in U \ S
    <3>1. U \ S # {}
      BY FS_EmptySet
    <3> QED
      BY <3>1
  <2>2. PICK V : V = U \ {x}
    OBVIOUS
  <2>3. V \in SUBSET T /\ S \subseteq V /\ V \ S = (U \ S) \ {x}
    BY <2>1, <2>2
  <2>4. Cardinality(V \ S) = n
    <3>1. PICK W : W = U \ S /\ IsFiniteSet(W) /\ x \in W /\ Cardinality(W) = n + 1
      BY <1>6, <2>1
    <3>2. Cardinality(W \ {x}) = Cardinality(W) - 1
      BY <3>1, FS_RemoveElement
    <3>3. V \ S = W \ {x}
      BY <2>3, <3>1
    <3> QED
      BY <3>1, <3>2, <3>3
  <2>5. g[V] = g[S]
    BY <1>8, <2>3, <2>4
  <2>6. g[U] = h[x] + g[V] /\ h[x] = 0 /\ g[V] \in Int
    BY <1>5, <2>1, <2>2, <2>3
  <2> QED
    BY <2>5, <2>6
<1>9. Cardinality(T \ S) \in A
  <2>1. Cardinality(T \ S) \in Nat
    BY <1>6, FS_CardinalityType
  <2> HIDE DEF A
  <2> QED
    BY <1>7, <1>8, <2>1, InductionOnNat
<1>10. g[T] = g[S]
  BY <1>9
<1> QED
  BY <1>1, <1>3, <1>4, <1>10

\* A sum of zeros.
LEMMA SumZeros ==
  ASSUME NEW S, IsFiniteSet(S), NEW f \in [S -> Int], \A x \in S : f[x] = 0
  PROVE  SumFunction(f) = 0
<1>1. PICK E : E = {} /\ IsFiniteSet(E)
  BY FS_EmptySet
<1>2. PICK e \in [E -> Int] : TRUE
  <2>1. [x \in E |-> 0] \in [E -> Int]
    OBVIOUS
  <2> QED
    BY <2>1
<1>3. SumFunction(e) = 0
  BY <1>1, SumType
<1>4. E \subseteq S /\ (\A x \in E : f[x] = e[x]) /\ \A x \in S \ E : f[x] = 0
  BY <1>1
<1> QED
  BY <1>3, <1>4, SumExtends

\* One number more.
LEMMA SumAppends ==
  ASSUME NEW n \in Nat, NEW f \in [1 .. n -> Int], NEW h \in [1 .. n + 1 -> Int],
         \A i \in 1 .. n : h[i] = f[i]
  PROVE  SumFunction(h) = SumFunction(f) + h[n + 1]
<1>1. IsFiniteSet(1 .. n + 1) /\ IsFiniteSet(1 .. n)
  BY FS_Interval
<1>2. n + 1 \in 1 .. n + 1 /\ (1 .. n + 1) \ {n + 1} = 1 .. n
  OBVIOUS
<1>3. SumFunction(h) = h[n + 1] + SumFunction(f)
  <2>1. PICK S, T, x : S = 1 .. n + 1 /\ T = 1 .. n /\ x = n + 1
    OBVIOUS
  <2>2. /\ IsFiniteSet(S) /\ h \in [S -> Int] /\ x \in S /\ T = S \ {x} /\ f \in [T -> Int]
        /\ \A y \in T : f[y] = h[y]
    BY <1>1, <1>2, <2>1
  <2>3. SumFunction(h) = h[x] + SumFunction(f)
    BY <2>2, SumWithout
  <2> QED
    BY <2>1, <2>3
<1>4. SumFunction(f) \in Int /\ h[n + 1] \in Int
  BY <1>1, <1>2, SumType
<1> QED
  BY <1>3, <1>4

\* The numbers of f and then those of k.
LEMMA SumConcat ==
  ASSUME NEW m \in Nat, NEW n \in Nat, NEW f \in [1 .. m -> Int], NEW k \in [1 .. n -> Int],
         NEW h \in [1 .. m + n -> Int],
         \A i \in 1 .. m : h[i] = f[i], \A i \in 1 .. n : h[m + i] = k[i]
  PROVE  SumFunction(h) = SumFunction(f) + SumFunction(k)
<1> DEFINE H(l) == [i \in 1 .. m + l |-> h[i]]
           K(l) == [i \in 1 .. l |-> k[i]]
           A == {l \in Nat : l <= n => SumFunction(H(l)) = SumFunction(f) + SumFunction(K(l))}
<1>0. SumFunction(f) \in Int
  BY FS_Interval, SumType
<1>1. 0 \in A
  <2>1. H(0) = f
    OBVIOUS
  <2>2. SumFunction(K(0)) = 0
    <3>1. K(0) \in [1 .. 0 -> Int] /\ 1 .. 0 = {}
      OBVIOUS
    <3> HIDE DEF K
    <3> QED
      BY <3>1, FS_EmptySet, SumType
  <2>3. SumFunction(H(0)) = SumFunction(f) + SumFunction(K(0))
    <3> HIDE DEF H, K
    <3> QED
      BY <1>0, <2>1, <2>2
  <2> QED
    BY <2>3
<1>2. ASSUME NEW l \in Nat, l \in A PROVE l + 1 \in A
  <2> SUFFICES ASSUME l + 1 <= n
               PROVE  SumFunction(H(l + 1)) = SumFunction(f) + SumFunction(K(l + 1))
    OBVIOUS
  <2>1. /\ H(l) \in [1 .. m + l -> Int] /\ H(l + 1) \in [1 .. (m + l) + 1 -> Int]
        /\ \A i \in 1 .. m + l : H(l + 1)[i] = H(l)[i]
        /\ H(l + 1)[(m + l) + 1] = k[l + 1]
    <3>1. m + (l + 1) = (m + l) + 1 /\ l + 1 \in 1 .. n /\ (m + l) + 1 \in 1 .. (m + l) + 1
      OBVIOUS
    <3>2. h[m + (l + 1)] = k[l + 1]
      BY <3>1
    <3> QED
      BY <3>1, <3>2
  <2>2. /\ K(l) \in [1 .. l -> Int] /\ K(l + 1) \in [1 .. l + 1 -> Int]
        /\ \A i \in 1 .. l : K(l + 1)[i] = K(l)[i]
        /\ K(l + 1)[l + 1] = k[l + 1]
    OBVIOUS
  <2>3. SumFunction(H(l)) = SumFunction(f) + SumFunction(K(l))
    BY <1>2
  <2>4. k[l + 1] \in Int
    OBVIOUS
  <2> HIDE DEF H, K
  <2>5. SumFunction(H(l + 1)) = SumFunction(H(l)) + k[l + 1]
    <3>1. PICK b \in Nat : b = m + l
      OBVIOUS
    <3> QED
      <4>1. PICK u, v : u = H(l) /\ v = H(l + 1)
        OBVIOUS
      <4>2. /\ u \in [1 .. b -> Int] /\ v \in [1 .. b + 1 -> Int] /\ v[b + 1] = k[l + 1]
            /\ \A i \in 1 .. b : v[i] = u[i]
        BY <2>1, <3>1, <4>1
      <4>3. SumFunction(v) = SumFunction(u) + v[b + 1]
        BY <4>2, SumAppends
      <4> QED
        BY <4>1, <4>2, <4>3
  <2>6. SumFunction(K(l + 1)) = SumFunction(K(l)) + k[l + 1]
    BY <2>2, SumAppends
  <2>7. SumFunction(K(l)) \in Int
    <3>1. IsFiniteSet(1 .. l)
      BY FS_Interval
    <3> QED
      BY <2>2, <3>1, SumType
  <2> QED
    BY <1>0, <2>3, <2>4, <2>5, <2>6, <2>7
<1>3. n \in A
  <2> HIDE DEF A
  <2> QED
    BY <1>1, <1>2, InductionOnNat
<1>4. H(n) = h /\ K(n) = k
  OBVIOUS
<1> HIDE DEF H, K
<1> QED
  BY <1>3, <1>4

\* The sum of the weights of a sequence's elements.
Weight(w, s) == SumFunction([i \in DOMAIN s |-> w[s[i]]])

\* What is summed up.
LEMMA WeightOf ==
  ASSUME NEW E, NEW w \in [E -> Int], NEW s \in Seq(E)
  PROVE  /\ [i \in DOMAIN s |-> w[s[i]]] \in [1 .. Len(s) -> Int]
         /\ IsFiniteSet(1 .. Len(s)) /\ Len(s) \in Nat
<1>1. DOMAIN s = 1 .. Len(s) /\ Len(s) \in Nat /\ \A i \in 1 .. Len(s) : s[i] \in E
  BY LenProperties, ElementOfSeq
<1>2. IsFiniteSet(1 .. Len(s))
  BY <1>1, FS_Interval
<1> QED
  BY <1>1, <1>2

\* The weight of an empty sequence, and that of elements without any.
LEMMA WeightType ==
  ASSUME NEW E, NEW w \in [E -> Int]
  PROVE  \A s \in Seq(E) : /\ Weight(w, s) \in Int
                           /\ (\A i \in 1 .. Len(s) : w[s[i]] = 0) => Weight(w, s) = 0
                           /\ Len(s) = 0 => Weight(w, s) = 0
                           /\ Len(s) = 1 => Weight(w, s) = w[s[1]]
<1> TAKE s \in Seq(E)
<1>1. PICK f : f = [i \in DOMAIN s |-> w[s[i]]]
  OBVIOUS
<1>2. /\ f \in [1 .. Len(s) -> Int] /\ IsFiniteSet(1 .. Len(s)) /\ Len(s) \in Nat
      /\ Weight(w, s) = SumFunction(f) /\ \A i \in 1 .. Len(s) : f[i] = w[s[i]]
  BY <1>1, WeightOf DEF Weight
<1>3. Weight(w, s) \in Int
  BY <1>2, SumType
<1>4. (\A i \in 1 .. Len(s) : w[s[i]] = 0) => Weight(w, s) = 0
  BY <1>2, SumZeros
<1>5. Len(s) = 0 => Weight(w, s) = 0
  BY <1>4
<1>6. ASSUME Len(s) = 1 PROVE Weight(w, s) = w[s[1]]
  <2>1. PICK e : e = [i \in 1 .. 0 |-> 0]
    OBVIOUS
  <2>2. e \in [1 .. 0 -> Int] /\ f \in [1 .. 0 + 1 -> Int] /\ f[0 + 1] = w[s[1]] /\ w[s[1]] \in Int
    <3>1. 1 \in 1 .. Len(s)
      BY <1>6
    <3>2. f[1] = w[s[1]] /\ f[1] \in Int
      BY <1>2, <3>1
    <3> QED
      BY <1>2, <1>6, <2>1, <3>2
  <2>3. SumFunction(e) = 0
    <3>1. PICK S : S = 1 .. 0
      OBVIOUS
    <3>2. S = {}
      BY <3>1
    <3>3. IsFiniteSet(S)
      BY <3>2, FS_EmptySet
    <3>4. e \in [S -> Int]
      BY <2>2, <3>1
    <3> QED
      BY <3>2, <3>3, <3>4, SumType
  <2>4. SumFunction(f) = SumFunction(e) + f[0 + 1]
    <3>1. PICK n \in Nat : n = 0
      OBVIOUS
    <3>2. e \in [1 .. n -> Int] /\ f \in [1 .. n + 1 -> Int] /\ \A i \in 1 .. n : f[i] = e[i]
      BY <2>2, <3>1
    <3>3. SumFunction(f) = SumFunction(e) + f[n + 1]
      BY <3>2, SumAppends
    <3> QED
      BY <3>1, <3>3
  <2> QED
    BY <1>2, <2>2, <2>3, <2>4
<1> QED
  BY <1>3, <1>4, <1>5, <1>6

\* An element more.
LEMMA WeightAppend ==
  ASSUME NEW E, NEW w \in [E -> Int]
  PROVE  \A s \in Seq(E) : \A e \in E : Weight(w, Append(s, e)) = Weight(w, s) + w[e]
<1> TAKE s \in Seq(E)
<1> TAKE e \in E
<1>1. PICK r \in Seq(E) : /\ r = Append(s, e) /\ Len(r) = Len(s) + 1 /\ r[Len(s) + 1] = e
                          /\ \A i \in 1 .. Len(s) : r[i] = s[i]
  <2>1. /\ Append(s, e) \in Seq(E) /\ Len(Append(s, e)) = Len(s) + 1
        /\ Append(s, e)[Len(s) + 1] = e
        /\ \A i \in 1 .. Len(s) : Append(s, e)[i] = s[i]
    BY AppendProperties
  <2> QED
    BY <2>1
<1>2. PICK f, h : f = [i \in DOMAIN s |-> w[s[i]]] /\ h = [i \in DOMAIN r |-> w[r[i]]]
  OBVIOUS
<1>3. PICK n \in Nat : n = Len(s)
  BY LenProperties
<1>4. /\ f \in [1 .. n -> Int] /\ SumFunction(f) = Weight(w, s)
      /\ \A i \in 1 .. n : f[i] = w[s[i]]
  BY <1>2, <1>3, WeightOf DEF Weight
<1>5. /\ h \in [1 .. n + 1 -> Int] /\ SumFunction(h) = Weight(w, r)
      /\ \A i \in 1 .. n + 1 : h[i] = w[r[i]]
  BY <1>1, <1>2, <1>3, WeightOf DEF Weight
<1>6. n + 1 \in 1 .. n + 1 /\ \A i \in 1 .. n : i \in 1 .. n + 1
  OBVIOUS
<1>7. h[n + 1] = w[e] /\ \A i \in 1 .. n : h[i] = f[i]
  BY <1>1, <1>3, <1>4, <1>5, <1>6
<1>8. SumFunction(h) = SumFunction(f) + h[n + 1]
  BY <1>4, <1>5, <1>7, SumAppends
<1> QED
  BY <1>1, <1>4, <1>5, <1>7, <1>8

\* A sequence after another.
LEMMA WeightConcat ==
  ASSUME NEW E, NEW w \in [E -> Int]
  PROVE  \A s, r \in Seq(E) : Weight(w, s \o r) = Weight(w, s) + Weight(w, r)
<1> TAKE s, r \in Seq(E)
<1>1. PICK q \in Seq(E) : /\ q = s \o r /\ Len(q) = Len(s) + Len(r)
                          /\ \A i \in 1 .. Len(s) : q[i] = s[i]
                          /\ \A i \in 1 .. Len(r) : q[Len(s) + i] = r[i]
  <2>1. s \o r \in Seq(E) /\ Len(s \o r) = Len(s) + Len(r)
    BY ConcatProperties
  <2>2. \A i \in 1 .. Len(s) + Len(r) :
          (s \o r)[i] = IF i <= Len(s) THEN s[i] ELSE r[i - Len(s)]
    BY ConcatProperties
  <2>3. Len(s) \in Nat /\ Len(r) \in Nat
    BY LenProperties
  <2>4. \A i \in 1 .. Len(s) : (s \o r)[i] = s[i]
    <3> TAKE i \in 1 .. Len(s)
    <3>1. i \in 1 .. Len(s) + Len(r) /\ i <= Len(s)
      BY <2>3
    <3> QED
      BY <2>2, <3>1
  <2>5. \A i \in 1 .. Len(r) : (s \o r)[Len(s) + i] = r[i]
    <3> TAKE i \in 1 .. Len(r)
    <3>1. Len(s) + i \in 1 .. Len(s) + Len(r) /\ ~(Len(s) + i <= Len(s)) /\ (Len(s) + i) - Len(s) = i
      BY <2>3
    <3> QED
      BY <2>2, <3>1
  <2> QED
    BY <2>1, <2>4, <2>5
<1>2. PICK f, k, h : /\ f = [i \in DOMAIN s |-> w[s[i]]] /\ k = [i \in DOMAIN r |-> w[r[i]]]
                     /\ h = [i \in DOMAIN q |-> w[q[i]]]
  OBVIOUS
<1>3. PICK m \in Nat : m = Len(s)
  BY LenProperties
<1>4. PICK n \in Nat : n = Len(r)
  BY LenProperties
<1>5. /\ f \in [1 .. m -> Int] /\ SumFunction(f) = Weight(w, s) /\ \A i \in 1 .. m : f[i] = w[s[i]]
  BY <1>2, <1>3, WeightOf DEF Weight
<1>6. /\ k \in [1 .. n -> Int] /\ SumFunction(k) = Weight(w, r) /\ \A i \in 1 .. n : k[i] = w[r[i]]
  BY <1>2, <1>4, WeightOf DEF Weight
<1>7. /\ h \in [1 .. m + n -> Int] /\ SumFunction(h) = Weight(w, q)
      /\ \A i \in 1 .. m + n : h[i] = w[q[i]]
  BY <1>1, <1>2, <1>3, <1>4, WeightOf DEF Weight
<1>8. (\A i \in 1 .. m : i \in 1 .. m + n) /\ (\A i \in 1 .. n : m + i \in 1 .. m + n)
  OBVIOUS
<1>9. (\A i \in 1 .. m : h[i] = f[i]) /\ (\A i \in 1 .. n : h[m + i] = k[i])
  <2>1. ASSUME NEW i \in 1 .. m PROVE h[i] = f[i]
    BY <1>1, <1>3, <1>5, <1>7, <1>8
  <2>2. ASSUME NEW i \in 1 .. n PROVE h[m + i] = k[i]
    <3>1. q[m + i] = r[i]
      BY <1>1, <1>3, <1>4
    <3>2. h[m + i] = w[q[m + i]]
      BY <1>7, <1>8
    <3> QED
      BY <1>6, <3>1, <3>2
  <2> QED
    BY <2>1, <2>2
<1>10. SumFunction(h) = SumFunction(f) + SumFunction(k)
  BY <1>5, <1>6, <1>7, <1>9, SumConcat
<1> QED
  BY <1>1, <1>5, <1>6, <1>7, <1>10

\* An element less, and another in place of the last that is left.
LEMMA WeightPop ==
  ASSUME NEW E, NEW w \in [E -> Int]
  PROVE  \A s, r \in Seq(E) : \A n \in Nat \ {0} :
           Len(s) = n + 1 /\ Len(r) = n /\ (\A i \in 1 .. n - 1 : r[i] = s[i])
           => Weight(w, r) = Weight(w, s) - w[s[n + 1]] + (w[r[n]] - w[s[n]])
<1> SUFFICES ASSUME NEW s \in Seq(E), NEW r \in Seq(E), NEW n \in Nat \ {0},
                    Len(s) = n + 1, Len(r) = n, \A i \in 1 .. n - 1 : r[i] = s[i]
             PROVE  Weight(w, r) = Weight(w, s) - w[s[n + 1]] + (w[r[n]] - w[s[n]])
  OBVIOUS
<1>1. PICK f, h : f = [i \in DOMAIN s |-> w[s[i]]] /\ h = [i \in DOMAIN r |-> w[r[i]]]
  OBVIOUS
<1>2. /\ f \in [1 .. n + 1 -> Int] /\ SumFunction(f) = Weight(w, s)
      /\ \A i \in 1 .. n + 1 : f[i] = w[s[i]]
  BY <1>1, WeightOf DEF Weight
<1>3. /\ h \in [1 .. n -> Int] /\ SumFunction(h) = Weight(w, r)
      /\ \A i \in 1 .. n : h[i] = w[r[i]]
  BY <1>1, WeightOf DEF Weight
<1>4. PICK k \in [1 .. n -> Int] : \A i \in 1 .. n : k[i] = f[i]
  <2>1. [i \in 1 .. n |-> f[i]] \in [1 .. n -> Int]
    BY <1>2
  <2> QED
    BY <2>1
<1>5. SumFunction(f) = SumFunction(k) + f[n + 1]
  BY <1>2, <1>4, SumAppends
<1>6. SumFunction(h) + k[n] = SumFunction(k) + h[n]
  <2>1. n \in 1 .. n /\ \A i \in 1 .. n : i # n => i \in 1 .. n - 1
    OBVIOUS
  <2>2. \A i \in 1 .. n : i # n => h[i] = k[i]
    <3> SUFFICES ASSUME NEW i \in 1 .. n, i # n
                 PROVE  h[i] = k[i]
      OBVIOUS
    <3>1. i \in 1 .. n + 1 /\ r[i] = s[i]
      BY <2>1
    <3>2. h[i] = w[r[i]] /\ f[i] = w[s[i]] /\ k[i] = f[i]
      BY <1>2, <1>3, <1>4, <3>1
    <3> QED
      BY <3>1, <3>2
  <2>3. PICK p, q : p = k /\ q = h
    OBVIOUS
  <2>4. p \in [1 .. n -> Int] /\ q \in [1 .. n -> Int] /\ \A i \in 1 .. n : i # n => q[i] = p[i]
    BY <1>3, <2>2, <2>3
  <2>5. SumFunction(q) + p[n] = SumFunction(p) + q[n]
    BY <2>4, SumChangesLast
  <2> QED
    BY <2>3, <2>5
<1>7. /\ f[n + 1] = w[s[n + 1]] /\ h[n] = w[r[n]] /\ k[n] = w[s[n]]
      /\ f[n + 1] \in Int /\ h[n] \in Int /\ k[n] \in Int
  <2>1. n \in 1 .. n /\ n \in 1 .. n + 1 /\ n + 1 \in 1 .. n + 1
    OBVIOUS
  <2> QED
    BY <1>2, <1>3, <1>4, <2>1
<1>8. SumFunction(k) \in Int
  <2>1. IsFiniteSet(1 .. n)
    BY FS_Interval
  <2> QED
    BY <1>4, <2>1, SumType
<1>9. SumFunction(h) \in Int
  <2>1. IsFiniteSet(1 .. n)
    BY FS_Interval
  <2> QED
    BY <1>3, <2>1, SumType
<1>10. PICK a \in Int, b \in Int, c \in Int, x \in Int, y \in Int :
         /\ a = SumFunction(k) /\ b = SumFunction(h) /\ c = f[n + 1] /\ x = h[n] /\ y = k[n]
  BY <1>7, <1>8, <1>9
<1>11. b + y = a + x /\ Weight(w, r) = b /\ Weight(w, s) = a + c
  BY <1>2, <1>3, <1>5, <1>6, <1>10
<1>12. b = (a + c) - c + (x - y)
  BY <1>11
<1> QED
  BY <1>7, <1>10, <1>11, <1>12
=============================================================================
