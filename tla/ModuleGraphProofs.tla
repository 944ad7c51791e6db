------------------------- MODULE ModuleGraphProofs -------------------------
(***************************************************************************)
(* Proofs about the module generator, for every project that keeps to      *)
(* ModuleAssumption and, where it has a kernel, to KernelAssumption.       *)
(*                                                                         *)
(* The sorted lists are recursive; what the recursion computes is proved   *)
(* by induction over the naturals in the form of a least element, which    *)
(* WFMin gives for a set, without an operator as a parameter.              *)
(***************************************************************************)
EXTENDS ModuleGraph, FiniteSetTheorems, WellFoundedInduction, SequenceTheorems, TLAPS

-----------------------------------------------------------------------------
Below == {pair \in Nat \X Nat : pair[1] < pair[2]}

\* A nonempty set of naturals has a least element.
LEMMA LeastElement ==
    ASSUME NEW S, S \subseteq Nat, S # {}
    PROVE  \E n \in S : \A m \in S : n <= m
<1>1. IsWellFoundedOn(Below, Nat)
  BY NatLessThanWellFounded DEF OpToRel, Below
<1>2. PICK n \in S : \A m \in S : ~ (<<m, n>> \in Below)
  BY <1>1, WFMin
<1>3. ASSUME NEW m \in S PROVE n <= m
  <2>1. m \in Nat /\ n \in Nat
    OBVIOUS
  <2>2. m < n => <<m, n>> \in Below
    BY <2>1 DEF Below
  <2>3. ~ (m < n)
    BY <1>2, <2>2
  <2> QED BY <2>1, <2>3
<1> QED BY <1>3

\* Induction, for a set.
LEMMA Induction ==
    ASSUME NEW S, 0 \in S, \A n \in Nat : n \in S => n + 1 \in S
    PROVE  Nat \subseteq S
<1>1. SUFFICES ASSUME NEW k \in Nat, k \notin S PROVE FALSE
  OBVIOUS
<1>2. PICK n \in Nat \ S : \A m \in Nat \ S : n <= m
  <2>1. Nat \ S \subseteq Nat /\ Nat \ S # {}
    BY <1>1
  <2> QED BY <2>1, LeastElement
<1>3. n # 0 /\ n - 1 \in Nat
  BY <1>2
<1>4. n - 1 \in S
  BY <1>2, <1>3
<1> QED BY <1>2, <1>3, <1>4

Follows(f, V, first, m, step) ==
    /\ f \in [0 .. m -> V]
    /\ f[0] = first
    /\ \A n \in 1 .. m : f[n] = step[n][f[n - 1]]

\* A recursion over 0 .. N, a step per number, is well defined.
LEMMA Recursion ==
    ASSUME NEW V, NEW first \in V, NEW N \in Nat, NEW step,
           \A n \in 1 .. N, v \in V : step[n][v] \in V
    PROVE  \E f : Follows(f, V, first, N, step)
<1> DEFINE S == {m \in Nat : m <= N => \E f : Follows(f, V, first, m, step)}
<1>1. 0 \in S
  <2> DEFINE f == [n \in 0 .. 0 |-> first]
  <2>1. Follows(f, V, first, 0, step)
    BY DEF Follows
  <2> QED BY <2>1
<1>2. ASSUME NEW m \in Nat, m \in S PROVE m + 1 \in S
  <2>1. SUFFICES ASSUME m + 1 <= N PROVE \E f : Follows(f, V, first, m + 1, step)
    OBVIOUS
  <2>2. PICK f : Follows(f, V, first, m, step)
    BY <1>2, <2>1
  <2>3. f[m] \in V /\ m + 1 \in 1 .. N
    BY <2>1, <2>2 DEF Follows
  <2>4. step[m + 1][f[m]] \in V
    BY <2>3
  <2> DEFINE g == [n \in 0 .. m + 1 |-> IF n = m + 1 THEN step[m + 1][f[m]] ELSE f[n]]
  <2>5. g \in [0 .. m + 1 -> V]
    BY <2>2, <2>4 DEF Follows
  <2>6. g[0] = first
    BY <2>2 DEF Follows
  <2>7. ASSUME NEW n \in 1 .. m + 1 PROVE g[n] = step[n][g[n - 1]]
    <3>1. CASE n = m + 1
      BY <3>1
    <3>2. CASE n # m + 1
      <4>1. n \in 1 .. m /\ n - 1 \in 0 .. m
        BY <3>2
      <4> QED BY <2>2, <4>1 DEF Follows
    <3> QED BY <3>1, <3>2
  <2> QED BY <2>5, <2>6, <2>7 DEF Follows
<1>3. N \in S
  <2> HIDE DEF S
  <2> QED BY <1>1, <1>2, Induction
<1> QED BY <1>3

Filters(f, T, names, list) ==
    /\ f \in [0 .. Len(list) -> Seq(T)]
    /\ f[0] = <<>>
    /\ \A n \in 1 .. Len(list) :
        f[n] = IF list[n] \in names THEN Append(f[n - 1], list[n]) ELSE f[n - 1]
    /\ Filter(names, list) = f[Len(list)]

\* Filter goes through the list name by name.
LEMMA FilterSteps ==
    ASSUME NEW T, NEW list \in Seq(T), NEW names
    PROVE  \E f : Filters(f, T, names, list)
<1> DEFINE N == Len(list)
           V == Seq(T)
           Kept(f) == [n \in 0 .. N |->
                          IF n = 0 THEN <<>>
                          ELSE IF list[n] \in names THEN Append(f[n - 1], list[n]) ELSE f[n - 1]]
           step == [n \in 1 .. N |->
                      [v \in V |-> IF list[n] \in names THEN Append(v, list[n]) ELSE v]]
           kept == CHOOSE f : f = Kept(f)
<1>1. N \in Nat /\ <<>> \in V
  OBVIOUS
<1>2. ASSUME NEW n \in 1 .. N, NEW v \in V PROVE step[n][v] \in V
  OBVIOUS
<1> DEFINE none == <<>>
<1>3. PICK f : Follows(f, V, none, N, step)
  <2>1. none \in V
    BY <1>1
  <2> HIDE DEF step, V, N, none, kept, Kept
  <2> QED BY <1>1, <1>2, <2>1, Recursion
<1>4. ASSUME NEW n \in 1 .. N
      PROVE  f[n] = IF list[n] \in names THEN Append(f[n - 1], list[n]) ELSE f[n - 1]
  <2>1. n - 1 \in 0 .. N
    BY <1>1
  <2>2. f[n - 1] \in V
    BY <1>3, <2>1 DEF Follows
  <2> QED BY <1>3, <2>2 DEF Follows
<1>5. f = Kept(f)
  <2>1. ASSUME NEW n \in 0 .. N PROVE f[n] = Kept(f)[n]
    <3>1. n = 0 \/ n \in 1 .. N
      BY <1>1
    <3> QED BY <1>3, <1>4, <3>1 DEF Follows
  <2> QED BY <1>3, <2>1 DEF Follows
<1>6. kept = Kept(kept)
  BY <1>5
<1>7. Filter(names, list) = kept[N]
  BY DEF Filter
<1> HIDE DEF kept
<1>8. ASSUME NEW n \in 1 .. N
      PROVE  kept[n] = IF list[n] \in names THEN Append(kept[n - 1], list[n]) ELSE kept[n - 1]
  <2>1. n \in 0 .. N /\ n # 0
    BY <1>1
  <2>2. kept[n] = Kept(kept)[n]
    BY <1>6
  <2>3. Kept(kept)[n] = IF n = 0 THEN <<>>
                       ELSE IF list[n] \in names THEN Append(kept[n - 1], list[n]) ELSE kept[n - 1]
    BY <2>1
  <2> HIDE DEF Kept
  <2> QED BY <2>1, <2>2, <2>3
<1>9. kept[0] = <<>>
  BY <1>1, <1>6
<1> DEFINE S == {n \in Nat : n <= N => kept[n] = f[n]}
<1>10. 0 \in S
  BY <1>3, <1>9 DEF Follows
<1>11. ASSUME NEW n \in Nat, n \in S PROVE n + 1 \in S
  <2>1. SUFFICES ASSUME n + 1 <= N PROVE kept[n + 1] = f[n + 1]
    OBVIOUS
  <2>2. n + 1 \in 1 .. N /\ (n + 1) - 1 = n /\ kept[n] = f[n]
    BY <1>1, <1>11, <2>1
  <2> QED BY <1>4, <1>8, <2>2
<1>12. kept[N] = f[N]
  <2> HIDE DEF S
  <2>1. Nat \subseteq S
    BY <1>10, <1>11, Induction
  <2>2. N \in S
    BY <1>1, <2>1
  <2> QED BY <2>2 DEF S
<1> QED BY <1>3, <1>4, <1>7, <1>12 DEF Follows, Filters

\* What Filter returns: names of the list that are wanted, and all of them.
LEMMA FilterFacts ==
    ASSUME NEW T, NEW list \in Seq(T), NEW names
    PROVE  /\ Filter(names, list) \in Seq(T)
           /\ \A k \in 1 .. Len(Filter(names, list)) : Filter(names, list)[k] \in names
           /\ \A k \in 1 .. Len(list) : list[k] \in names =>
                \E j \in 1 .. Len(Filter(names, list)) : Filter(names, list)[j] = list[k]
<1> DEFINE Selects(out, n) ==
              /\ \A k \in 1 .. Len(out) : out[k] \in names
              /\ \A k \in 1 .. n : list[k] \in names => \E j \in 1 .. Len(out) : out[j] = list[k]
<1>0. PICK f : Filters(f, T, names, list)
  BY FilterSteps
<1>1. /\ f \in [0 .. Len(list) -> Seq(T)]
      /\ f[0] = <<>>
      /\ \A n \in 1 .. Len(list) :
            f[n] = IF list[n] \in names THEN Append(f[n - 1], list[n]) ELSE f[n - 1]
      /\ Filter(names, list) = f[Len(list)]
  BY <1>0 DEF Filters
<1>2. Len(list) \in Nat
  OBVIOUS
<1> DEFINE S == {n \in Nat : n <= Len(list) => Selects(f[n], n)}
<1>3. 0 \in S
  BY <1>1
<1>4. ASSUME NEW n \in Nat, n \in S PROVE n + 1 \in S
  <2> SUFFICES ASSUME n + 1 <= Len(list) PROVE Selects(f[n + 1], n + 1)
    OBVIOUS
  <2>1. /\ n \in 0 .. Len(list) /\ n + 1 \in 1 .. Len(list) /\ (n + 1) - 1 = n
        /\ Selects(f[n], n)
    BY <1>2, <1>4
  <2>2. f[n] \in Seq(T) /\ list[n + 1] \in T
    BY <1>1, <2>1
  <2> HIDE DEF S
  <2>3. CASE list[n + 1] \in names
    <3>1. f[n + 1] = Append(f[n], list[n + 1])
      BY <1>1, <2>1, <2>3
    <3>2. /\ Len(f[n + 1]) = Len(f[n]) + 1
          /\ \A k \in 1 .. Len(f[n]) : f[n + 1][k] = f[n][k]
          /\ f[n + 1][Len(f[n]) + 1] = list[n + 1]
      BY <2>2, <3>1
    <3>3. Len(f[n]) \in Nat
      BY <2>2
    <3>4. ASSUME NEW k \in 1 .. Len(f[n + 1]) PROVE f[n + 1][k] \in names
      <4>1. k = Len(f[n]) + 1 \/ k \in 1 .. Len(f[n])
        BY <3>2, <3>3
      <4> QED BY <2>1, <2>3, <3>2, <4>1
    <3>5. ASSUME NEW k \in 1 .. n + 1, list[k] \in names
          PROVE  \E j \in 1 .. Len(f[n + 1]) : f[n + 1][j] = list[k]
      <4>1. CASE k = n + 1
        BY <3>2, <3>3, <4>1
      <4>2. CASE k # n + 1
        <5>1. k \in 1 .. n
          BY <4>2
        <5>2. PICK j \in 1 .. Len(f[n]) : f[n][j] = list[k]
          BY <2>1, <3>5, <5>1
        <5>3. j \in 1 .. Len(f[n + 1]) /\ f[n + 1][j] = list[k]
          BY <3>2, <3>3, <5>2
        <5> QED BY <5>3
      <4> QED BY <4>1, <4>2
    <3> QED BY <3>4, <3>5
  <2>4. CASE list[n + 1] \notin names
    <3>1. f[n + 1] = f[n]
      BY <1>1, <2>1, <2>4
    <3>2. ASSUME NEW k \in 1 .. n + 1, list[k] \in names PROVE k \in 1 .. n
      BY <2>4, <3>2
    <3> QED BY <2>1, <3>1, <3>2
  <2> QED BY <2>3, <2>4
<1>5. Len(list) \in S
  <2> HIDE DEF S
  <2> QED BY <1>2, <1>3, <1>4, Induction
<1>6. Selects(f[Len(list)], Len(list))
  BY <1>2, <1>5
<1>7. f[Len(list)] \in Seq(T)
  BY <1>1, <1>2
<1> QED BY <1>1, <1>6, <1>7

-----------------------------------------------------------------------------
(***************************************************************************)
(* The makefiles that are running, outermost first, and what Make has to   *)
(* evaluate, counted from its end: a step replaces the highest entry and   *)
(* leaves all others at their height.                                      *)
(***************************************************************************)
At(w, h) == w[Len(w) + 1 - h]

\* frames are the names that a stack and the name on top of it hold.  The entry
\* that leaves the i-th frame is at base[i]; from there up to the next frame's
\* all entries are under the name of the frame.
MirrorsAt(names, n, leaves, frames, base) ==
    /\ base \in [1 .. Len(frames) -> 1 .. n]
    /\ \A i, j \in 1 .. Len(frames) : i < j => base[i] < base[j]
    /\ leaves = {base[i] : i \in 1 .. Len(frames)}
    /\ \A h \in 1 .. n, i \in 1 .. Len(frames) :
        base[i] <= h /\ (i < Len(frames) => h < base[i + 1]) => names[h] = frames[i]
    /\ \A h \in 1 .. n : (\A i \in 1 .. Len(frames) : h < base[i]) => names[h] = NONE

\* Names in a new work: as before below n, and all the same from there up to m.
Agree(after, names, n) == \A h \in 1 .. n - 1 : after[h] = names[h]
Filled(after, n, m, x) == \A h \in n .. m : after[h] = x

Mirrors(names, n, leaves, frames) == \E base : MirrorsAt(names, n, leaves, frames, base)

\* The highest entry is under the name of the innermost frame.
LEMMA MirrorTop ==
    ASSUME NEW names, NEW n \in Nat, NEW leaves, NEW T, NEW frames \in Seq(T),
           Mirrors(names, n, leaves, frames)
    PROVE  /\ n = 0 => frames = <<>>
           /\ n # 0 => names[n] = IF frames = <<>> THEN NONE ELSE frames[Len(frames)]
<1>1. PICK base : MirrorsAt(names, n, leaves, frames, base)
  BY DEF Mirrors
<1>2. Len(frames) \in Nat
  OBVIOUS
<1>3. CASE Len(frames) = 0
  <2>1. frames = <<>>
    BY <1>3
  <2>2. n # 0 => names[n] = NONE
    BY <1>1, <1>3 DEF MirrorsAt
  <2> QED BY <2>1, <2>2
<1>4. CASE Len(frames) # 0
  <2>1. Len(frames) \in 1 .. Len(frames)
    BY <1>2, <1>4
  <2>2. base[Len(frames)] \in 1 .. n
    BY <1>1, <2>1 DEF MirrorsAt
  <2>3. n \in 1 .. n /\ base[Len(frames)] <= n
    BY <2>2
  <2>4. names[n] = frames[Len(frames)]
    BY <1>1, <1>2, <2>1, <2>3 DEF MirrorsAt
  <2> QED BY <1>4, <2>3, <2>4
<1> QED BY <1>3, <1>4

\* The highest entry makes way for others under the same name.
LEMMA MirrorStay ==
    ASSUME NEW names, NEW n \in Nat \ {0}, NEW leaves, NEW T, NEW frames \in Seq(T),
           Mirrors(names, n, leaves, frames), n \notin leaves,
           NEW after, NEW m \in Nat, m >= n - 1,
           Agree(after, names, n), Filled(after, n, m, names[n])
    PROVE  Mirrors(after, m, leaves, frames)
<1>0. /\ \A h \in 1 .. n - 1 : after[h] = names[h]
      /\ \A h \in n .. m : after[h] = names[n]
  BY DEF Agree, Filled
<1>1. PICK base : MirrorsAt(names, n, leaves, frames, base)
  BY DEF Mirrors
<1>2. Len(frames) \in Nat
  OBVIOUS
<1>3. ASSUME NEW i \in 1 .. Len(frames) PROVE base[i] \in 1 .. n - 1
  BY <1>1 DEF MirrorsAt
<1>4. base \in [1 .. Len(frames) -> 1 .. m]
  BY <1>1, <1>3 DEF MirrorsAt
<1>5. ASSUME NEW h \in 1 .. m, NEW i \in 1 .. Len(frames),
             base[i] <= h, i < Len(frames) => h < base[i + 1]
      PROVE  after[h] = frames[i]
  <2>1. CASE h < n
    BY <1>0, <1>1, <1>5, <2>1 DEF MirrorsAt
  <2>2. CASE h >= n
    <3>1. i = Len(frames)
      <4>1. SUFFICES ASSUME i < Len(frames) PROVE FALSE
        BY <1>2
      <4>2. i + 1 \in 1 .. Len(frames)
        BY <1>2, <4>1
      <4> QED BY <1>3, <1>5, <2>2, <4>1, <4>2
    <3>2. base[i] <= n /\ n \in 1 .. n
      BY <1>3
    <3>3. names[n] = frames[i]
      BY <1>1, <1>2, <3>1, <3>2 DEF MirrorsAt
    <3> QED BY <1>0, <2>2, <3>3
  <2> QED BY <2>1, <2>2
<1>6. ASSUME NEW h \in 1 .. m, \A i \in 1 .. Len(frames) : h < base[i]
      PROVE  after[h] = NONE
  <2>1. CASE h < n
    <3>1. h \in 1 .. n - 1 /\ h \in 1 .. n
      BY <2>1
    <3>2. names[h] = NONE
      BY <1>1, <1>6, <3>1 DEF MirrorsAt
    <3> QED BY <1>0, <3>1, <3>2
  <2>2. CASE h >= n
    <3>1. \A i \in 1 .. Len(frames) : n < base[i]
      BY <1>3, <1>6, <2>2
    <3>2. names[n] = NONE
      BY <1>1, <3>1 DEF MirrorsAt
    <3> QED BY <1>0, <2>2, <3>2
  <2> QED BY <2>1, <2>2
<1>7. MirrorsAt(after, m, leaves, frames, base)
  BY <1>1, <1>4, <1>5, <1>6 DEF MirrorsAt
<1> QED BY <1>7 DEF Mirrors

\* A sequence without its last element.
LEMMA FrontFacts ==
    ASSUME NEW T, NEW s \in Seq(T), Len(s) # 0
    PROVE  /\ SubSeq(s, 1, Len(s) - 1) \in Seq(T)
           /\ Len(SubSeq(s, 1, Len(s) - 1)) = Len(s) - 1
           /\ \A i \in 1 .. Len(s) - 1 : SubSeq(s, 1, Len(s) - 1)[i] = s[i]
<1>1. SubSeq(s, 1, Len(s) - 1) \in Seq(T)
  OBVIOUS
<1>2. Len(SubSeq(s, 1, Len(s) - 1)) = Len(s) - 1
  OBVIOUS
<1>3. \A i \in 1 .. Len(s) - 1 : SubSeq(s, 1, Len(s) - 1)[i] = s[i]
  OBVIOUS
<1> QED BY <1>1, <1>2, <1>3

\* The highest entry makes way for those of a makefile, the lowest of which leaves it.
LEMMA MirrorEnter ==
    ASSUME NEW names, NEW n \in Nat \ {0}, NEW leaves, NEW T, NEW frames \in Seq(T),
           Mirrors(names, n, leaves, frames), n \notin leaves,
           NEW after, NEW m \in Nat, m >= n, NEW x \in T,
           Agree(after, names, n), Filled(after, n, m, x)
    PROVE  Mirrors(after, m, leaves \cup {n}, Append(frames, x))
<1>0. /\ \A h \in 1 .. n - 1 : after[h] = names[h]
      /\ \A h \in n .. m : after[h] = x
  BY DEF Agree, Filled
<1>1. PICK base : MirrorsAt(names, n, leaves, frames, base)
  BY DEF Mirrors
<1> DEFINE L == Len(frames)
           now == Append(frames, x)
           ends == [i \in 1 .. L + 1 |-> IF i = L + 1 THEN n ELSE base[i]]
<1>2. /\ L \in Nat /\ Len(now) = L + 1
      /\ now[L + 1] = x /\ \A i \in 1 .. L : now[i] = frames[i]
  OBVIOUS
<1>3. ASSUME NEW i \in 1 .. L PROVE base[i] \in 1 .. n - 1
  BY <1>1 DEF MirrorsAt
<1>4. /\ ends[L + 1] = n
      /\ \A i \in 1 .. L : ends[i] = base[i] /\ ends[i] \in 1 .. n - 1
  BY <1>2, <1>3
<1> HIDE DEF ends, now, L
<1>5. ends \in [1 .. L + 1 -> 1 .. m]
  <2>1. ASSUME NEW i \in 1 .. L + 1 PROVE ends[i] \in 1 .. m
    <3>1. i = L + 1 \/ i \in 1 .. L
      BY <1>2
    <3> QED BY <1>4, <3>1
  <2> QED BY <2>1 DEF ends
<1>6. ASSUME NEW i \in 1 .. L + 1, NEW j \in 1 .. L + 1, i < j PROVE ends[i] < ends[j]
  <2>1. i \in 1 .. L
    BY <1>2, <1>6
  <2>2. j = L + 1 \/ j \in 1 .. L
    BY <1>2
  <2>3. ends[i] = base[i] /\ base[i] \in 1 .. n - 1
    BY <1>3, <1>4, <2>1
  <2>4. CASE j = L + 1
    BY <1>4, <2>3, <2>4
  <2>5. CASE j \in 1 .. L
    BY <1>1, <1>4, <1>6, <2>1, <2>3, <2>5 DEF MirrorsAt, L
  <2> QED BY <2>2, <2>4, <2>5
<1>7. leaves \cup {n} = {ends[i] : i \in 1 .. L + 1}
  <2>1. leaves = {base[i] : i \in 1 .. L}
    BY <1>1 DEF MirrorsAt, L
  <2>2. \A i \in 1 .. L + 1 : i = L + 1 \/ i \in 1 .. L
    BY <1>2
  <2>3. L + 1 \in 1 .. L + 1 /\ \A i \in 1 .. L : i \in 1 .. L + 1
    BY <1>2
  <2> QED BY <1>4, <2>1, <2>2, <2>3
<1>8. ASSUME NEW h \in 1 .. m, NEW i \in 1 .. L + 1,
             ends[i] <= h, i < L + 1 => h < ends[i + 1]
      PROVE  after[h] = now[i]
  <2>1. CASE i = L + 1
    BY <1>0, <1>2, <1>4, <1>8, <2>1
  <2>2. CASE i # L + 1
    <3>1. i \in 1 .. L /\ i + 1 \in 1 .. L + 1 /\ i < L + 1
      BY <1>2, <2>2
    <3>2. h < ends[i + 1] /\ ends[i + 1] <= n
      <4>1. i + 1 = L + 1 \/ i + 1 \in 1 .. L
        BY <1>2, <3>1
      <4> QED BY <1>4, <1>8, <3>1, <4>1
    <3>3. h \in 1 .. n - 1 /\ h \in 1 .. n
      <4>1. ends[i + 1] \in Int
        BY <1>5, <3>1
      <4> QED BY <3>2, <4>1
    <3>4. i < L => h < base[i + 1]
      <4>1. i < L => i + 1 \in 1 .. L
        BY <1>2, <3>1
      <4> QED BY <1>4, <3>2, <4>1
    <3>5. names[h] = frames[i]
      BY <1>1, <1>4, <1>8, <3>1, <3>3, <3>4 DEF MirrorsAt, L
    <3> QED BY <1>0, <1>2, <3>1, <3>3, <3>5
  <2> QED BY <2>1, <2>2
<1>9. ASSUME NEW h \in 1 .. m, \A i \in 1 .. L + 1 : h < ends[i] PROVE after[h] = NONE
  <2>1. h \in 1 .. n - 1 /\ h \in 1 .. n
    <3>1. L + 1 \in 1 .. L + 1
      BY <1>2
    <3> QED BY <1>4, <1>9, <3>1
  <2>2. \A i \in 1 .. L : h < base[i]
    <3>1. \A i \in 1 .. L : i \in 1 .. L + 1
      BY <1>2
    <3> QED BY <1>4, <1>9, <3>1
  <2>3. names[h] = NONE
    BY <1>1, <2>1, <2>2 DEF MirrorsAt, L
  <2> QED BY <1>0, <2>1, <2>3
<1>10. MirrorsAt(after, m, leaves \cup {n}, now, ends)
  BY <1>2, <1>5, <1>6, <1>7, <1>8, <1>9 DEF MirrorsAt
<1> QED BY <1>10 DEF Mirrors, now

\* The highest entry leaves the innermost frame.
LEMMA MirrorLeave ==
    ASSUME NEW names, NEW n \in Nat \ {0}, NEW leaves, NEW T, NEW frames \in Seq(T),
           Mirrors(names, n, leaves, frames), n \in leaves,
           NEW after, Agree(after, names, n)
    PROVE  /\ frames # <<>>
           /\ Mirrors(after, n - 1, leaves \ {n}, SubSeq(frames, 1, Len(frames) - 1))
<1>0. \A h \in 1 .. n - 1 : after[h] = names[h]
  BY DEF Agree
<1>1. PICK base : MirrorsAt(names, n, leaves, frames, base)
  BY DEF Mirrors
<1> DEFINE L == Len(frames)
<1>2. L \in Nat
  OBVIOUS
<1>3. PICK k \in 1 .. L : base[k] = n
  BY <1>1 DEF MirrorsAt
<1>4. k = L
  <2>1. SUFFICES ASSUME k < L PROVE FALSE
    BY <1>2
  <2>2. L \in 1 .. L
    BY <1>2, <2>1
  <2>3. base[k] < base[L] /\ base[L] \in 1 .. n
    BY <1>1, <2>1, <2>2 DEF MirrorsAt
  <2> QED BY <1>3, <2>3
<1>5. L \in 1 .. L /\ base[L] = n /\ L - 1 \in Nat
  BY <1>2, <1>3, <1>4
<1> DEFINE now == SubSeq(frames, 1, L - 1)
           ends == [i \in 1 .. L - 1 |-> base[i]]
<1>6. Len(now) = L - 1 /\ \A i \in 1 .. L - 1 : now[i] = frames[i]
  BY <1>5, FrontFacts
<1>7. ASSUME NEW i \in 1 .. L - 1
      PROVE  /\ i \in 1 .. L /\ i < L /\ i + 1 \in 1 .. L
             /\ base[i] \in 1 .. n - 1 /\ ends[i] = base[i]
  <2>1. i \in 1 .. L /\ i < L /\ i + 1 \in 1 .. L
    BY <1>5
  <2>2. base[i] < base[L] /\ base[i] \in 1 .. n
    BY <1>1, <1>5, <2>1 DEF MirrorsAt
  <2> QED BY <1>5, <2>1, <2>2
<1> HIDE DEF ends, now, L
<1>8. ends \in [1 .. L - 1 -> 1 .. n - 1]
  BY <1>7 DEF ends
<1>9. ASSUME NEW i \in 1 .. L - 1, NEW j \in 1 .. L - 1, i < j PROVE ends[i] < ends[j]
  BY <1>1, <1>7, <1>9 DEF MirrorsAt, L
<1>10. leaves \ {n} = {ends[i] : i \in 1 .. L - 1}
  <2>1. leaves = {base[i] : i \in 1 .. L}
    BY <1>1 DEF MirrorsAt, L
  <2>2. \A i \in 1 .. L : i = L \/ i \in 1 .. L - 1
    BY <1>2
  <2>3. \A i \in 1 .. L - 1 : base[i] # n
    BY <1>7
  <2> QED BY <1>5, <1>7, <2>1, <2>2, <2>3
<1>11. ASSUME NEW h \in 1 .. n - 1, NEW i \in 1 .. L - 1,
              ends[i] <= h, i < L - 1 => h < ends[i + 1]
       PROVE  after[h] = now[i]
  <2>1. h < base[i + 1] /\ h \in 1 .. n
    <3>1. i = L - 1 \/ i + 1 \in 1 .. L - 1
      BY <1>5
    <3>2. CASE i = L - 1
      BY <1>5, <3>2
    <3>3. CASE i + 1 \in 1 .. L - 1
      BY <1>5, <1>7, <1>11, <3>3
    <3> QED BY <3>1, <3>2, <3>3
  <2>2. names[h] = frames[i]
    BY <1>1, <1>7, <1>11, <2>1 DEF MirrorsAt, L
  <2> QED BY <1>0, <1>6, <2>2
<1>12. ASSUME NEW h \in 1 .. n - 1, \A i \in 1 .. L - 1 : h < ends[i] PROVE after[h] = NONE
  <2>1. ASSUME NEW i \in 1 .. L PROVE h < base[i]
    <3>1. i = L \/ i \in 1 .. L - 1
      BY <1>5
    <3>2. h < n
      OBVIOUS
    <3>3. i \in 1 .. L - 1 => h < base[i]
      BY <1>7, <1>12
    <3> QED BY <1>5, <3>1, <3>2, <3>3
  <2>2. h \in 1 .. n
    OBVIOUS
  <2>3. names[h] = NONE
    BY <1>1, <2>1, <2>2 DEF MirrorsAt, L
  <2> QED BY <1>0, <2>3
<1>13. MirrorsAt(after, n - 1, leaves \ {n}, now, ends)
  BY <1>6, <1>8, <1>9, <1>10, <1>11, <1>12 DEF MirrorsAt
<1>14. frames # <<>>
  BY <1>5 DEF L
<1> QED BY <1>13, <1>14 DEF Mirrors, now, L

-----------------------------------------------------------------------------
\* Names, one after the other.
LEMMA Joined ==
    ASSUME NEW a \in Name, NEW b \in Name, NEW c \in Name
    PROVE  /\ NONE \in Name /\ a \o b \in Name
           /\ (a \o b) \o c = a \o (b \o c)
           /\ NONE \o a = a /\ a \o NONE = a
           /\ b # NONE => a \o b # NONE
<1>1. NONE \in Name
  BY EmptySeq DEF Name, NONE
<1>2. a \o b \in Name
  BY ConcatProperties DEF Name
<1>3. (a \o b) \o c = a \o (b \o c)
  BY ConcatAssociative DEF Name
<1>4. NONE \o a = a /\ a \o NONE = a
  BY ConcatEmptySeq DEF Name, NONE
<1>5. b # NONE => a \o b # NONE
  BY ConcatEqualIffEmpty DEF Name, NONE
<1> QED BY <1>1, <1>2, <1>3, <1>4, <1>5

\* A name, and those that it has interrupted; none interrupts nothing.
Frames(name, stack) == IF name = NONE THEN <<>> ELSE Append(stack, name)

Stacked(name, stack, names) ==
    /\ name \in names \cup {NONE} /\ stack \in Seq(names)
    /\ name = NONE => stack = <<>>

LEMMA FramesTop ==
    ASSUME NEW names, NONE \notin names, NEW name, NEW stack, Stacked(name, stack, names)
    PROVE  /\ Frames(name, stack) \in Seq(names)
           /\ Frames(name, stack) = <<>> <=> name = NONE
           /\ name # NONE => Frames(name, stack)[Len(Frames(name, stack))] = name
<1>1. CASE name = NONE
  BY <1>1 DEF Frames, Stacked
<1>2. CASE name # NONE
  <2>1. name \in names /\ stack \in Seq(names)
    BY <1>2 DEF Stacked
  <2>2. Frames(name, stack) = Append(stack, name)
    BY <1>2 DEF Frames
  <2>3. /\ Append(stack, name) \in Seq(names) /\ Append(stack, name) # <<>>
        /\ Append(stack, name)[Len(Append(stack, name))] = name
    BY <2>1
  <2> QED BY <1>2, <2>2, <2>3
<1> QED BY <1>1, <1>2

LEMMA FramesPush ==
    ASSUME NEW names, NONE \notin names, NEW name, NEW stack, Stacked(name, stack, names),
           NEW x \in names
    PROVE  /\ Stacked(x, Push(stack, name), names)
           /\ Frames(x, Push(stack, name)) = Append(Frames(name, stack), x)
<1>1. x # NONE
  OBVIOUS
<1>2. CASE name = NONE
  BY <1>1, <1>2 DEF Stacked, Push, Frames
<1>3. CASE name # NONE
  BY <1>1, <1>3 DEF Stacked, Push, Frames
<1> QED BY <1>2, <1>3

LEMMA FramesDrop ==
    ASSUME NEW names, NONE \notin names, NEW name, NEW stack, Stacked(name, stack, names),
           name # NONE
    PROVE  /\ Stacked(LastWord(stack), TailOf(stack), names)
           /\ Frames(LastWord(stack), TailOf(stack))
                = SubSeq(Frames(name, stack), 1, Len(Frames(name, stack)) - 1)
<1>1. /\ stack \in Seq(names) /\ name \in names
      /\ Frames(name, stack) = Append(stack, name)
  BY DEF Stacked, Frames
<1>2. Len(stack) \in Nat /\ Len(Append(stack, name)) = Len(stack) + 1
  BY <1>1
<1>3. SubSeq(Append(stack, name), 1, Len(stack)) = stack
  BY <1>1
<1>4. SubSeq(Frames(name, stack), 1, Len(Frames(name, stack)) - 1) = stack
  BY <1>1, <1>2, <1>3
<1>5. CASE stack = <<>>
  <2>1. LastWord(stack) = NONE /\ TailOf(stack) = <<>>
    BY <1>5 DEF LastWord, TailOf
  <2> QED BY <1>4, <1>5, <2>1 DEF Stacked, Frames
<1>6. CASE stack # <<>>
  <2> DEFINE front == SubSeq(stack, 1, Len(stack) - 1)
             top == stack[Len(stack)]
  <2>1. LastWord(stack) = top /\ TailOf(stack) = front
    BY <1>6 DEF LastWord, TailOf
  <2>2. Len(stack) # 0 /\ top \in names
    BY <1>1, <1>6
  <2>3. /\ front \in Seq(names) /\ Len(front) = Len(stack) - 1
        /\ \A i \in 1 .. Len(stack) - 1 : front[i] = stack[i]
    BY <1>1, <2>2, FrontFacts
  <2>4. Append(front, top) = stack
    <3>1. Append(front, top) \in Seq(names) /\ Len(Append(front, top)) = Len(stack)
      BY <1>2, <2>2, <2>3
    <3>2. ASSUME NEW i \in 1 .. Len(stack) PROVE Append(front, top)[i] = stack[i]
      <4>1. i = Len(stack) \/ i \in 1 .. Len(stack) - 1
        BY <1>2
      <4> QED BY <1>2, <2>2, <2>3, <4>1
    <3> QED BY <1>1, <3>1, <3>2
  <2> HIDE DEF front, top
  <2>5. top # NONE
    BY <2>2
  <2>6. Frames(top, front) = stack
    BY <2>4, <2>5 DEF Frames
  <2> QED BY <1>4, <2>1, <2>2, <2>3, <2>5, <2>6 DEF Stacked
<1> QED BY <1>5, <1>6

-----------------------------------------------------------------------------
Ops == {"modules", "generate", "define", "leave", "submodules", "submodule", "append",
        "leave_sub", "want", "part", "noparts", "set"}
Task == [op : Ops, arg : Name]
Entry == [op : Ops, arg : Name, owner : Name, part : Name]

EntryFor(task, owner, part) ==
    [op |-> task.op, arg |-> task.arg, owner |-> owner, part |-> part]

LEMMA OwnedFacts ==
    ASSUME NEW s \in Seq(Task), NEW owner \in Name, NEW part \in Name
    PROVE  /\ Owned(s, owner, part) \in Seq(Entry)
           /\ Len(Owned(s, owner, part)) = Len(s)
           /\ \A k \in 1 .. Len(s) :
                /\ Owned(s, owner, part)[k] = EntryFor(s[k], owner, part)
                /\ EntryFor(s[k], owner, part) \in Entry
<1>1. DOMAIN s = 1 .. Len(s) /\ Len(s) \in Nat
  OBVIOUS
<1>2. ASSUME NEW k \in 1 .. Len(s)
      PROVE  EntryFor(s[k], owner, part) \in Entry
  <2>1. s[k] \in Task
    OBVIOUS
  <2> QED BY <2>1 DEF Task, Entry, EntryFor
<1>3. Owned(s, owner, part) = [k \in 1 .. Len(s) |-> EntryFor(s[k], owner, part)]
  BY <1>1 DEF Owned, EntryFor
<1>4. Owned(s, owner, part) \in [1 .. Len(s) -> Entry]
  BY <1>2, <1>3
<1>5. Owned(s, owner, part) \in Seq(Entry)
  BY <1>1, <1>4
<1> QED BY <1>1, <1>2, <1>3, <1>5

Replacement(w, s, owner, part, new) ==
    /\ w \in Seq(Entry) /\ w # <<>> /\ s \in Seq(Task)
    /\ owner \in Name /\ part \in Name
    /\ new = Owned(s, owner, part) \o Tail(w)

Becomes(w, s, owner, part, new) ==
    /\ new \in Seq(Entry)
    /\ Len(new) = Len(w) - 1 + Len(s)
    /\ \A h \in 1 .. Len(w) - 1 : At(new, h) = At(w, h)
    /\ \A h \in Len(w) .. Len(new) :
         /\ Len(new) + 1 - h \in 1 .. Len(s)
         /\ At(new, h) = EntryFor(s[Len(new) + 1 - h], owner, part)

\* The head makes way for other entries.
LEMMA Replaced ==
    ASSUME NEW w, NEW s, NEW owner, NEW part, NEW new, Replacement(w, s, owner, part, new)
    PROVE  Becomes(w, s, owner, part, new)
<1>0. /\ w \in Seq(Entry) /\ w # <<>> /\ s \in Seq(Task)
      /\ owner \in Name /\ part \in Name
      /\ new = Owned(s, owner, part) \o Tail(w)
  BY DEF Replacement
<1> DEFINE o == Owned(s, owner, part)
           t == Tail(w)
<1>1. o \in Seq(Entry) /\ Len(o) = Len(s)
      /\ \A k \in 1 .. Len(s) : o[k] = EntryFor(s[k], owner, part)
  BY <1>0, OwnedFacts
<1>2. /\ t \in Seq(Entry) /\ Len(t) = Len(w) - 1
      /\ \A i \in 1 .. Len(t) : t[i] = w[i + 1]
  BY <1>0, HeadTailProperties
<1> HIDE DEF o, t
<1>3. /\ new \in Seq(Entry) /\ Len(new) = Len(o) + Len(t)
      /\ \A i \in 1 .. Len(o) + Len(t) : new[i] = IF i <= Len(o) THEN o[i] ELSE t[i - Len(o)]
  <2>1. new = o \o t
    BY <1>0 DEF o, t
  <2>2. o \in Seq(Entry) /\ t \in Seq(Entry)
    BY <1>1, <1>2
  <2>3. o \o t \in Seq(Entry)
    BY <2>2, ConcatProperties
  <2>4. Len(o \o t) = Len(o) + Len(t)
    BY <2>2, ConcatProperties
  <2>5. \A i \in 1 .. Len(o) + Len(t) : (o \o t)[i] = IF i <= Len(o) THEN o[i] ELSE t[i - Len(o)]
    BY <2>2, ConcatProperties
  <2> QED BY <2>1, <2>3, <2>4, <2>5
<1>4. Len(w) \in Nat \ {0} /\ Len(s) \in Nat /\ Len(new) = Len(w) - 1 + Len(s)
  BY <1>0, <1>1, <1>2, <1>3
<1>5. ASSUME NEW h \in 1 .. Len(w) - 1 PROVE At(new, h) = At(w, h)
  <2> DEFINE k == Len(new) + 1 - h
  <2>1. k \in 1 .. Len(o) + Len(t) /\ ~ (k <= Len(o)) /\ k - Len(o) = Len(w) - h
    BY <1>1, <1>2, <1>4
  <2>2. Len(w) - h \in 1 .. Len(t) /\ (Len(w) - h) + 1 = Len(w) + 1 - h
    BY <1>2, <1>4
  <2>3. new[k] = t[Len(w) - h]
    BY <1>3, <2>1
  <2>4. t[Len(w) - h] = w[Len(w) + 1 - h]
    BY <1>2, <2>2
  <2> QED BY <2>3, <2>4 DEF At
<1>6. ASSUME NEW h \in Len(w) .. Len(new)
      PROVE  /\ Len(new) + 1 - h \in 1 .. Len(s)
             /\ At(new, h) = EntryFor(s[Len(new) + 1 - h], owner, part)
  <2> DEFINE k == Len(new) + 1 - h
  <2>1. k \in 1 .. Len(s) /\ k \in 1 .. Len(o) + Len(t) /\ k <= Len(o)
    BY <1>1, <1>2, <1>4
  <2>2. new[k] = o[k]
    BY <1>3, <2>1
  <2> QED BY <1>1, <2>1, <2>2 DEF At
<1> QED BY <1>3, <1>4, <1>5, <1>6 DEF Becomes

-----------------------------------------------------------------------------
InOrder(x) == \E k \in 1 .. Len(project.order) : project.order[k] = x

\* What ModuleAssumption says of the project.
LEMMA ProjectFacts ==
    ASSUME project \in Projects
    PROVE  /\ project.order \in Seq(Name)
           /\ project.root \in Files
           /\ \A m \in Files : m \in Name \ {NONE} /\ InOrder(m)
           /\ \A q \in Paths : q \in Name \ {NONE}
           /\ \A m \in Files : project.files[m] \in Seq(Statement)
           /\ \A q \in Paths : project.parts[q] \in Seq(PartStatement)
<1>1. project.order \in Seq(Name)
  BY ModuleAssumption
<1>2. DOMAIN project.order = 1 .. Len(project.order)
  BY <1>1
<1>3. project.root \in Files
  BY ModuleAssumption DEF Files
<1>4. ASSUME NEW m \in Files
      PROVE  /\ m \in {project.order[k] : k \in DOMAIN project.order} \ {<<>>}
             /\ project.files[m] \in Seq(Statement)
  BY ModuleAssumption DEF Files
<1>5. ASSUME NEW m \in Files PROVE m \in Name \ {NONE} /\ InOrder(m)
  BY <1>1, <1>2, <1>4 DEF NONE, InOrder
<1>6. ASSUME NEW q \in Paths
      PROVE  q \in Name \ {NONE} /\ project.parts[q] \in Seq(PartStatement)
  BY ModuleAssumption DEF Paths, NONE
<1> QED BY <1>1, <1>3, <1>4, <1>5, <1>6

\* What ModuleAssumption says of a line of a makefile.
LineOK(f, k) ==
    /\ f[k].op \in {"generate", "want"} => f[k].arg \in Files
    /\ f[k].op = "part" => f[k].arg \in Name \ {NONE} /\ f[k].arg \notin Paths /\ InOrder(f[k].arg)
    /\ f[k].op \in {"generate", "noparts"} => \A j \in 1 .. k : f[j].op # "part"

LEMMA Lines ==
    ASSUME project \in Projects
    PROVE  /\ \A m \in Files : \A k \in 1 .. Len(project.files[m]) : LineOK(project.files[m], k)
           /\ \A q \in Paths : \A k \in 1 .. Len(project.parts[q]) : LineOK(project.parts[q], k)
<1> DEFINE makefiles == {project.files[m] : m \in DOMAIN project.files}
                        \cup {project.parts[q] : q \in DOMAIN project.parts}
           names == {project.order[k] : k \in DOMAIN project.order}
<1>1. \A f \in makefiles : \A k \in DOMAIN f :
        /\ f[k].op \in {"generate", "want"} => f[k].arg \in DOMAIN project.files
        /\ f[k].op = "part" => f[k].arg \in names \ ({<<>>} \cup DOMAIN project.parts)
        /\ f[k].op \in {"generate", "noparts"} => \A j \in 1 .. k : f[j].op # "part"
  BY ModuleAssumption
<1>2. \A x \in names : x \in Name /\ InOrder(x)
  <2>1. project.order \in Seq(Name)
    BY ProjectFacts
  <2> QED BY <2>1 DEF InOrder
<1>3. ASSUME NEW f \in makefiles, NEW k \in DOMAIN f PROVE LineOK(f, k)
  <2> HIDE DEF makefiles, names
  <2>1. f[k].op \in {"generate", "want"} => f[k].arg \in Files
    BY <1>1 DEF Files
  <2>2. f[k].op = "part" =>
          f[k].arg \in Name \ {NONE} /\ f[k].arg \notin Paths /\ InOrder(f[k].arg)
    BY <1>1, <1>2 DEF Paths, NONE
  <2>3. f[k].op \in {"generate", "noparts"} => \A j \in 1 .. k : f[j].op # "part"
    BY <1>1
  <2> QED BY <2>1, <2>2, <2>3 DEF LineOK
<1>4. ASSUME NEW m \in Files, NEW k \in 1 .. Len(project.files[m])
      PROVE  LineOK(project.files[m], k)
  <2>1. project.files[m] \in makefiles
    BY DEF Files
  <2>2. k \in DOMAIN project.files[m]
    BY ProjectFacts
  <2> QED BY <1>3, <2>1, <2>2
<1>5. ASSUME NEW q \in Paths, NEW k \in 1 .. Len(project.parts[q])
      PROVE  LineOK(project.parts[q], k)
  <2>1. project.parts[q] \in makefiles
    BY DEF Paths
  <2>2. k \in DOMAIN project.parts[q]
    BY ProjectFacts
  <2> QED BY <1>3, <2>1, <2>2
<1> QED BY <1>4, <1>5

LEMMA SortedFacts ==
    ASSUME project \in Projects, NEW names
    PROVE  /\ Sorted(names) \in Seq(Name)
           /\ \A k \in 1 .. Len(Sorted(names)) : Sorted(names)[k] \in names
           /\ \A x \in names : InOrder(x) =>
                \E k \in 1 .. Len(Sorted(names)) : Sorted(names)[k] = x
<1>1. project.order \in Seq(Name)
  BY ProjectFacts
<1> HIDE DEF Name
<1>2. /\ Filter(names, project.order) \in Seq(Name)
      /\ \A k \in 1 .. Len(Filter(names, project.order)) : Filter(names, project.order)[k] \in names
      /\ \A k \in 1 .. Len(project.order) : project.order[k] \in names =>
           \E j \in 1 .. Len(Filter(names, project.order)) :
              Filter(names, project.order)[j] = project.order[k]
  BY <1>1, FilterFacts
<1> QED BY <1>2 DEF Sorted, InOrder

LEMMA EachFacts ==
    ASSUME NEW op \in Ops, NEW s \in Seq(Name)
    PROVE  /\ Each(op, s) \in Seq(Task) /\ Len(Each(op, s)) = Len(s)
           /\ \A k \in 1 .. Len(s) : Each(op, s)[k] = [op |-> op, arg |-> s[k]]
<1>1. DOMAIN s = 1 .. Len(s) /\ Len(s) \in Nat
  OBVIOUS
<1>2. Each(op, s) = [k \in 1 .. Len(s) |-> [op |-> op, arg |-> s[k]]]
  BY <1>1 DEF Each
<1>3. ASSUME NEW k \in 1 .. Len(s) PROVE [op |-> op, arg |-> s[k]] \in Task
  BY <1>1 DEF Task
<1>4. Each(op, s) \in [1 .. Len(s) -> Task]
  BY <1>2, <1>3
<1> QED BY <1>1, <1>2, <1>4

-----------------------------------------------------------------------------
FullName(e) == IF e.part = NONE THEN NONE ELSE e.owner \o e.part
Owners(w) == [h \in 1 .. Len(w) |-> At(w, h).owner]
FullNames(w) == [h \in 1 .. Len(w) |-> FullName(At(w, h))]
Leaves(w, op) == {h \in 1 .. Len(w) : At(w, h).op = op}

\* The right arguments, and no line of a submodule that only a module may have.
TaskOK(task, part) ==
    /\ task.op \in {"generate", "want"} => task.arg \in Files
    /\ task.op \in {"part", "submodule"} => task.arg # NONE
    /\ task.op \in {"modules", "generate", "define", "leave"} => part = NONE

Typed ==
    /\ project \in Projects
    /\ Stacked(ModuleName, MODULE_STACK, Files)
    /\ Stacked(SubmoduleName, SUBMODULE_STACK, Paths)
    /\ MODULES \subseteq Files /\ MODULES_GENERATED \subseteq Files
    /\ SUBMODULES \subseteq Name \ {NONE} /\ SUBMODULES_GENERATED \subseteq Paths
    /\ defined \in Seq(Files \cup {NONE})

WorkOK ==
    /\ work \in Seq(Entry)
    /\ \A h \in 1 .. Len(work) : TaskOK(At(work, h), At(work, h).part)

\* The two stacks are the makefiles that work leads out of.
Nest(w, outer, inner) ==
    /\ Mirrors(Owners(w), Len(w), Leaves(w, "leave"), outer)
    /\ Mirrors(FullNames(w), Len(w), Leaves(w, "leave_sub"), inner)

Nested == Nest(work, Frames(ModuleName, MODULE_STACK), Frames(SubmoduleName, SUBMODULE_STACK))

LEMMA HeadFacts ==
    ASSUME NEW w \in Seq(Entry), w # <<>>
    PROVE  /\ Len(w) \in Nat \ {0}
           /\ Head(w) = At(w, Len(w))
           /\ Head(w) \in Entry
           /\ Head(w).op \in Ops /\ Head(w).arg \in Name
           /\ Head(w).owner \in Name /\ Head(w).part \in Name
<1>1. Len(w) \in Nat \ {0} /\ Len(w) + 1 - Len(w) = 1
  OBVIOUS
<1>2. Head(w) = w[1] /\ w[1] \in Entry
  BY <1>1
<1>3. Head(w) \in Entry
  BY <1>2
<1> QED BY <1>1, <1>2, <1>3 DEF At, Entry

Lacks(s, op) == \A k \in 1 .. Len(s) : s[k].op # op
EndsWith(s, op) == Len(s) # 0 /\ s[Len(s)].op = op /\ \A k \in 1 .. Len(s) - 1 : s[k].op # op

LEMMA Lengths ==
    ASSUME NEW w, NEW s, NEW owner, NEW part, NEW new, Replacement(w, s, owner, part, new)
    PROVE  /\ Len(w) \in Nat \ {0} /\ Len(s) \in Nat /\ Len(new) \in Nat
           /\ Len(new) = Len(w) - 1 + Len(s)
           /\ Head(w) = At(w, Len(w))
<1>1. w \in Seq(Entry) /\ w # <<>> /\ s \in Seq(Task)
  BY DEF Replacement
<1>2. Len(w) \in Nat \ {0} /\ Head(w) = At(w, Len(w)) /\ Len(s) \in Nat
  BY <1>1, HeadFacts
<1>3. Len(new) = Len(w) - 1 + Len(s)
  BY Replaced DEF Becomes
<1> QED BY <1>2, <1>3

\* Which entries leave something, before and after the head makes way.
LEMMA LeavesKept ==
    ASSUME NEW w, NEW s, NEW owner, NEW part, NEW new, Replacement(w, s, owner, part, new),
           NEW op, Head(w).op # op, Lacks(s, op)
    PROVE  Leaves(new, op) = Leaves(w, op) /\ Len(w) \notin Leaves(w, op)
<1>1. Becomes(w, s, owner, part, new)
  BY Replaced
<1>2. Len(w) \in Nat \ {0} /\ Head(w) = At(w, Len(w)) /\ Len(s) \in Nat
  BY Lengths
<1>3. ASSUME NEW h \in Len(w) .. Len(new) PROVE At(new, h).op # op
  <2>1. Len(new) + 1 - h \in 1 .. Len(s)
    BY <1>1 DEF Becomes
  <2>2. At(new, h).op = s[Len(new) + 1 - h].op
    BY <1>1 DEF Becomes, EntryFor
  <2> QED BY <2>1, <2>2 DEF Lacks
<1>4. ASSUME NEW h \in 1 .. Len(new), At(new, h).op = op PROVE h \in 1 .. Len(w) - 1
  BY <1>2, <1>3, <1>4
<1>5. ASSUME NEW h \in 1 .. Len(w), At(w, h).op = op PROVE h \in 1 .. Len(w) - 1
  BY <1>2, <1>5
<1>6. \A h \in 1 .. Len(w) - 1 :
        h \in 1 .. Len(w) /\ h \in 1 .. Len(new) /\ At(new, h) = At(w, h)
  BY <1>1, <1>2 DEF Becomes
<1> QED BY <1>2, <1>4, <1>5, <1>6 DEF Leaves

LEMMA LeavesEntered ==
    ASSUME NEW w, NEW s, NEW owner, NEW part, NEW new, Replacement(w, s, owner, part, new),
           NEW op, Head(w).op # op, EndsWith(s, op)
    PROVE  Leaves(new, op) = Leaves(w, op) \cup {Len(w)} /\ Len(w) \notin Leaves(w, op)
<1>1. Becomes(w, s, owner, part, new)
  BY Replaced
<1>2. Len(w) \in Nat \ {0} /\ Head(w) = At(w, Len(w)) /\ Len(s) \in Nat
  BY Lengths
<1>3. At(new, Len(w)).op = op /\ Len(w) \in 1 .. Len(new)
  <2>1. Len(w) \in Len(w) .. Len(new) /\ Len(new) + 1 - Len(w) = Len(s)
    BY <1>1, <1>2 DEF Becomes, EndsWith
  <2> QED BY <1>1, <1>2, <2>1 DEF Becomes, EntryFor, EndsWith
<1>4. ASSUME NEW h \in 1 .. Len(new), At(new, h).op = op
      PROVE  h \in 1 .. Len(w) - 1 \/ h = Len(w)
  <2>1. SUFFICES ASSUME h > Len(w) PROVE FALSE
    BY <1>2
  <2>2. h \in Len(w) .. Len(new) /\ Len(new) + 1 - h \in 1 .. Len(s) - 1
    BY <1>1, <1>2, <2>1 DEF Becomes
  <2>3. At(new, h).op = s[Len(new) + 1 - h].op
    BY <1>1, <2>2 DEF Becomes, EntryFor
  <2> QED BY <1>4, <2>2, <2>3 DEF EndsWith
<1>5. ASSUME NEW h \in 1 .. Len(w), At(w, h).op = op PROVE h \in 1 .. Len(w) - 1
  BY <1>2, <1>5
<1>6. \A h \in 1 .. Len(w) - 1 :
        h \in 1 .. Len(w) /\ h \in 1 .. Len(new) /\ At(new, h) = At(w, h)
  BY <1>1, <1>2 DEF Becomes
<1> QED BY <1>2, <1>3, <1>4, <1>5, <1>6 DEF Leaves

LEMMA LeavesLeft ==
    ASSUME NEW w, NEW s, NEW owner, NEW part, NEW new, Replacement(w, s, owner, part, new),
           Len(s) = 0, NEW op, Head(w).op = op
    PROVE  Leaves(new, op) = Leaves(w, op) \ {Len(w)} /\ Len(w) \in Leaves(w, op)
<1>1. Len(w) \in Nat \ {0} /\ Head(w) = At(w, Len(w)) /\ Len(new) = Len(w) - 1
  BY Lengths
<1>2. \A h \in 1 .. Len(w) - 1 : At(new, h) = At(w, h)
  BY Replaced DEF Becomes
<1>3. \A h \in 1 .. Len(w) : h \in 1 .. Len(w) - 1 <=> h # Len(w)
  BY <1>1
<1>4. \A h \in 1 .. Len(w) - 1 : h \in 1 .. Len(w) /\ h # Len(w)
  BY <1>1
<1>5. Len(w) \in 1 .. Len(w)
  BY <1>1
<1> QED BY <1>1, <1>2, <1>3, <1>4, <1>5 DEF Leaves

\* Owners and full names of the entries, before and after.
LEMMA NamesAfter ==
    ASSUME NEW w, NEW s, NEW owner, NEW part, NEW new, Replacement(w, s, owner, part, new)
    PROVE  /\ Agree(Owners(new), Owners(w), Len(w))
           /\ Agree(FullNames(new), FullNames(w), Len(w))
           /\ Filled(Owners(new), Len(w), Len(new), owner)
           /\ Filled(FullNames(new), Len(w), Len(new),
                     IF part = NONE THEN NONE ELSE owner \o part)
           /\ Owners(w)[Len(w)] = Head(w).owner
           /\ FullNames(w)[Len(w)] = FullName(Head(w))
<1>1. Becomes(w, s, owner, part, new)
  BY Replaced
<1>2. /\ Len(w) \in Nat \ {0} /\ Head(w) = At(w, Len(w)) /\ Len(s) \in Nat
      /\ Len(new) = Len(w) - 1 + Len(s)
  BY Lengths
<1>3. ASSUME NEW h \in 1 .. Len(w) - 1
      PROVE  Owners(new)[h] = Owners(w)[h] /\ FullNames(new)[h] = FullNames(w)[h]
  <2>1. h \in 1 .. Len(w) /\ h \in 1 .. Len(new) /\ At(new, h) = At(w, h)
    BY <1>1, <1>2 DEF Becomes
  <2> QED BY <2>1 DEF Owners, FullNames
<1>4. ASSUME NEW h \in Len(w) .. Len(new)
      PROVE  /\ Owners(new)[h] = owner
             /\ FullNames(new)[h] = IF part = NONE THEN NONE ELSE owner \o part
  <2>1. h \in 1 .. Len(new)
    BY <1>2
  <2>2. At(new, h).owner = owner /\ At(new, h).part = part
    BY <1>1 DEF EntryFor, Becomes
  <2> QED BY <2>1, <2>2 DEF Owners, FullNames, FullName
<1>5. Len(w) \in 1 .. Len(w)
  BY <1>2
<1> QED BY <1>2, <1>3, <1>4, <1>5 DEF Owners, FullNames, Agree, Filled


\* The head makes way for lines of its own makefile.
LEMMA NestStay ==
    ASSUME NEW w, NEW s, NEW new, Replacement(w, s, Head(w).owner, Head(w).part, new),
           Head(w).op # "leave", Head(w).op # "leave_sub",
           Lacks(s, "leave"), Lacks(s, "leave_sub"),
           NEW T, NEW outer \in Seq(T), NEW U, NEW inner \in Seq(U), Nest(w, outer, inner)
    PROVE  Nest(new, outer, inner)
<1>1. /\ Leaves(new, "leave") = Leaves(w, "leave") /\ Len(w) \notin Leaves(w, "leave")
      /\ Leaves(new, "leave_sub") = Leaves(w, "leave_sub")
      /\ Len(w) \notin Leaves(w, "leave_sub")
  BY LeavesKept
<1>2. Len(w) \in Nat \ {0} /\ Len(new) \in Nat /\ Len(new) >= Len(w) - 1
  BY Lengths
<1>3. /\ Agree(Owners(new), Owners(w), Len(w))
      /\ Agree(FullNames(new), FullNames(w), Len(w))
      /\ Filled(Owners(new), Len(w), Len(new), Owners(w)[Len(w)])
      /\ Filled(FullNames(new), Len(w), Len(new), FullNames(w)[Len(w)])
  <2>1. FullName(Head(w)) = IF Head(w).part = NONE THEN NONE ELSE Head(w).owner \o Head(w).part
    BY DEF FullName
  <2> QED BY <2>1, NamesAfter
<1>4. /\ Mirrors(Owners(w), Len(w), Leaves(w, "leave"), outer)
      /\ Mirrors(FullNames(w), Len(w), Leaves(w, "leave_sub"), inner)
  BY DEF Nest
<1>5. Mirrors(Owners(new), Len(new), Leaves(w, "leave"), outer)
  BY <1>1, <1>2, <1>3, <1>4, MirrorStay
<1>6. Mirrors(FullNames(new), Len(new), Leaves(w, "leave_sub"), inner)
  BY <1>1, <1>2, <1>3, <1>4, MirrorStay
<1> QED BY <1>1, <1>5, <1>6 DEF Nest

\* The head makes way for the makefile of a module, which ends with leaving it.
LEMMA NestModule ==
    ASSUME NEW w, NEW s, NEW x \in Name, NEW new, Replacement(w, s, x, NONE, new),
           Head(w).part = NONE, Head(w).op # "leave", Head(w).op # "leave_sub",
           EndsWith(s, "leave"), Lacks(s, "leave_sub"),
           NEW T, NEW outer \in Seq(T), x \in T,
           NEW U, NEW inner \in Seq(U), Nest(w, outer, inner)
    PROVE  Nest(new, Append(outer, x), inner)
<1>1. /\ Leaves(new, "leave") = Leaves(w, "leave") \cup {Len(w)}
      /\ Len(w) \notin Leaves(w, "leave")
  BY LeavesEntered
<1>2. /\ Leaves(new, "leave_sub") = Leaves(w, "leave_sub")
      /\ Len(w) \notin Leaves(w, "leave_sub")
  BY LeavesKept
<1>3. Len(w) \in Nat \ {0} /\ Len(new) \in Nat /\ Len(new) >= Len(w) /\ Len(new) >= Len(w) - 1
  BY Lengths DEF EndsWith
<1>4. /\ Agree(Owners(new), Owners(w), Len(w))
      /\ Agree(FullNames(new), FullNames(w), Len(w))
      /\ Filled(Owners(new), Len(w), Len(new), x)
      /\ Filled(FullNames(new), Len(w), Len(new), FullNames(w)[Len(w)])
  <2>1. FullName(Head(w)) = NONE
    BY DEF FullName
  <2> QED BY <2>1, NamesAfter
<1>5. /\ Mirrors(Owners(w), Len(w), Leaves(w, "leave"), outer)
      /\ Mirrors(FullNames(w), Len(w), Leaves(w, "leave_sub"), inner)
  BY DEF Nest
<1>6. Mirrors(Owners(new), Len(new), Leaves(w, "leave") \cup {Len(w)}, Append(outer, x))
  BY <1>1, <1>3, <1>4, <1>5, MirrorEnter
<1>7. Mirrors(FullNames(new), Len(new), Leaves(w, "leave_sub"), inner)
  BY <1>2, <1>3, <1>4, <1>5, MirrorStay
<1> QED BY <1>1, <1>2, <1>6, <1>7 DEF Nest

\* The head makes way for the makefile of a submodule.
LEMMA NestPart ==
    ASSUME NEW w, NEW s, NEW part \in Name \ {NONE}, NEW new,
           Replacement(w, s, Head(w).owner, part, new),
           Head(w).op # "leave", Head(w).op # "leave_sub",
           EndsWith(s, "leave_sub"), Lacks(s, "leave"),
           NEW T, NEW outer \in Seq(T),
           NEW U, NEW inner \in Seq(U), Head(w).owner \o part \in U, Nest(w, outer, inner)
    PROVE  Nest(new, outer, Append(inner, Head(w).owner \o part))
<1>1. /\ Leaves(new, "leave_sub") = Leaves(w, "leave_sub") \cup {Len(w)}
      /\ Len(w) \notin Leaves(w, "leave_sub")
  BY LeavesEntered
<1>2. /\ Leaves(new, "leave") = Leaves(w, "leave")
      /\ Len(w) \notin Leaves(w, "leave")
  BY LeavesKept
<1>3. Len(w) \in Nat \ {0} /\ Len(new) \in Nat /\ Len(new) >= Len(w) /\ Len(new) >= Len(w) - 1
  BY Lengths DEF EndsWith
<1> DEFINE x == Head(w).owner \o part
<1>4. /\ Agree(Owners(new), Owners(w), Len(w))
      /\ Agree(FullNames(new), FullNames(w), Len(w))
      /\ Filled(Owners(new), Len(w), Len(new), Owners(w)[Len(w)])
      /\ Filled(FullNames(new), Len(w), Len(new), x)
  BY NamesAfter
<1>5. x \in U
  OBVIOUS
<1> HIDE DEF x
<1>6. /\ Mirrors(Owners(w), Len(w), Leaves(w, "leave"), outer)
      /\ Mirrors(FullNames(w), Len(w), Leaves(w, "leave_sub"), inner)
  BY DEF Nest
<1>7. Mirrors(FullNames(new), Len(new), Leaves(w, "leave_sub") \cup {Len(w)}, Append(inner, x))
  BY <1>1, <1>3, <1>4, <1>5, <1>6, MirrorEnter
<1>8. Mirrors(Owners(new), Len(new), Leaves(w, "leave"), outer)
  BY <1>2, <1>3, <1>4, <1>6, MirrorStay
<1> QED BY <1>1, <1>2, <1>7, <1>8 DEF Nest, x

\* The head leaves a module or a submodule.
LEMMA NestLeave ==
    ASSUME NEW w, NEW s, NEW new, Replacement(w, s, Head(w).owner, Head(w).part, new),
           Len(s) = 0,
           NEW T, NEW outer \in Seq(T), NEW U, NEW inner \in Seq(U), Nest(w, outer, inner)
    PROVE  /\ Head(w).op = "leave" =>
                outer # <<>> /\ Nest(new, SubSeq(outer, 1, Len(outer) - 1), inner)
           /\ Head(w).op = "leave_sub" =>
                inner # <<>> /\ Nest(new, outer, SubSeq(inner, 1, Len(inner) - 1))
<1>1. /\ Len(w) \in Nat \ {0} /\ Len(new) \in Nat /\ Len(new) = Len(w) - 1
      /\ Len(new) >= Len(w) - 1
  BY Lengths
<1>2. Lacks(s, "leave") /\ Lacks(s, "leave_sub")
  BY DEF Lacks
<1>3. /\ Agree(Owners(new), Owners(w), Len(w))
      /\ Agree(FullNames(new), FullNames(w), Len(w))
  BY NamesAfter
<1>4. /\ Filled(Owners(new), Len(w), Len(new), Owners(w)[Len(w)])
      /\ Filled(FullNames(new), Len(w), Len(new), FullNames(w)[Len(w)])
  BY <1>1 DEF Filled
<1>5. /\ Mirrors(Owners(w), Len(w), Leaves(w, "leave"), outer)
      /\ Mirrors(FullNames(w), Len(w), Leaves(w, "leave_sub"), inner)
  BY DEF Nest
<1>6. ASSUME Head(w).op = "leave"
      PROVE  outer # <<>> /\ Nest(new, SubSeq(outer, 1, Len(outer) - 1), inner)
  <2>1. Leaves(new, "leave") = Leaves(w, "leave") \ {Len(w)} /\ Len(w) \in Leaves(w, "leave")
    BY <1>6, LeavesLeft
  <2>2. /\ Leaves(new, "leave_sub") = Leaves(w, "leave_sub")
        /\ Len(w) \notin Leaves(w, "leave_sub")
    <3>1. Head(w).op # "leave_sub"
      BY <1>6
    <3> QED BY <1>2, <3>1, LeavesKept
  <2>3. /\ outer # <<>>
        /\ Mirrors(Owners(new), Len(w) - 1, Leaves(w, "leave") \ {Len(w)},
                   SubSeq(outer, 1, Len(outer) - 1))
    BY <1>1, <1>3, <1>5, <2>1, MirrorLeave
  <2>4. Mirrors(FullNames(new), Len(new), Leaves(w, "leave_sub"), inner)
    BY <1>1, <1>3, <1>4, <1>5, <2>2, MirrorStay
  <2> QED BY <1>1, <2>1, <2>2, <2>3, <2>4 DEF Nest
<1>7. ASSUME Head(w).op = "leave_sub"
      PROVE  inner # <<>> /\ Nest(new, outer, SubSeq(inner, 1, Len(inner) - 1))
  <2>1. /\ Leaves(new, "leave_sub") = Leaves(w, "leave_sub") \ {Len(w)}
        /\ Len(w) \in Leaves(w, "leave_sub")
    BY <1>7, LeavesLeft
  <2>2. Leaves(new, "leave") = Leaves(w, "leave") /\ Len(w) \notin Leaves(w, "leave")
    <3>1. Head(w).op # "leave"
      BY <1>7
    <3> QED BY <1>2, <3>1, LeavesKept
  <2>3. /\ inner # <<>>
        /\ Mirrors(FullNames(new), Len(w) - 1, Leaves(w, "leave_sub") \ {Len(w)},
                   SubSeq(inner, 1, Len(inner) - 1))
    BY <1>1, <1>3, <1>5, <2>1, MirrorLeave
  <2>4. Mirrors(Owners(new), Len(new), Leaves(w, "leave"), outer)
    BY <1>1, <1>3, <1>4, <1>5, <2>2, MirrorStay
  <2> QED BY <1>1, <2>1, <2>2, <2>3, <2>4 DEF Nest
<1> QED BY <1>6, <1>7

\* Nothing runs at first.
LEMMA MirrorStart ==
    ASSUME NEW names, NEW n \in Nat, NEW leaves, leaves = {}, Filled(names, 1, n, NONE)
    PROVE  Mirrors(names, n, leaves, <<>>)
<1> DEFINE none == <<>>
<1>1. Len(none) = 0 /\ \A i \in 1 .. Len(none) : FALSE
  OBVIOUS
<1> HIDE DEF none
<1> DEFINE base == [i \in 1 .. Len(none) |-> 1]
<1>2. base \in [1 .. Len(none) -> 1 .. n]
  BY <1>1
<1>3. leaves = {base[i] : i \in 1 .. Len(none)}
  BY <1>1
<1>4. \A h \in 1 .. n : names[h] = NONE
  BY DEF Filled
<1> HIDE DEF base
<1>5. MirrorsAt(names, n, leaves, none, base)
  BY <1>1, <1>2, <1>3, <1>4 DEF MirrorsAt
<1> QED BY <1>5 DEF Mirrors, none

-----------------------------------------------------------------------------
Sound == Typed /\ WorkOK /\ Nested

NamesApart == NONE \notin Files /\ NONE \notin Paths /\ Files \subseteq Name /\ Paths \subseteq Name

LEMMA ApartFacts == ASSUME project \in Projects PROVE NamesApart
BY ProjectFacts DEF NamesApart

\* The entry that Make evaluates next is under the two names.
LEMMA HeadRuns ==
    ASSUME Sound
    PROVE  /\ work = <<>> => ModuleName = NONE /\ SubmoduleName = NONE
           /\ work # <<>> => ModuleName = Head(work).owner /\ SubmoduleName = FullName(Head(work))
<1>1. NamesApart
  BY ApartFacts DEF Sound, Typed
<1>2. /\ Stacked(ModuleName, MODULE_STACK, Files) /\ Stacked(SubmoduleName, SUBMODULE_STACK, Paths)
      /\ work \in Seq(Entry)
  BY DEF Sound, Typed, WorkOK
<1> DEFINE outer == Frames(ModuleName, MODULE_STACK)
           inner == Frames(SubmoduleName, SUBMODULE_STACK)
<1>3. /\ outer \in Seq(Files)
      /\ outer = <<>> <=> ModuleName = NONE
      /\ ModuleName # NONE => outer[Len(outer)] = ModuleName
  BY <1>1, <1>2, FramesTop DEF NamesApart
<1>4. /\ inner \in Seq(Paths)
      /\ inner = <<>> <=> SubmoduleName = NONE
      /\ SubmoduleName # NONE => inner[Len(inner)] = SubmoduleName
  BY <1>1, <1>2, FramesTop DEF NamesApart
<1>5. /\ Mirrors(Owners(work), Len(work), Leaves(work, "leave"), outer)
      /\ Mirrors(FullNames(work), Len(work), Leaves(work, "leave_sub"), inner)
  BY DEF Sound, Nested, Nest
<1> HIDE DEF outer, inner
<1>6. Len(work) \in Nat
  BY <1>2
<1>7. /\ Len(work) = 0 => outer = <<>>
      /\ Len(work) # 0 =>
           Owners(work)[Len(work)] = IF outer = <<>> THEN NONE ELSE outer[Len(outer)]
  BY <1>3, <1>5, <1>6, MirrorTop
<1>8. /\ Len(work) = 0 => inner = <<>>
      /\ Len(work) # 0 =>
           FullNames(work)[Len(work)] = IF inner = <<>> THEN NONE ELSE inner[Len(inner)]
  BY <1>4, <1>5, <1>6, MirrorTop
<1>9. CASE work = <<>>
  BY <1>3, <1>4, <1>7, <1>8, <1>9
<1>10. CASE work # <<>>
  <2>1. Len(work) \in 1 .. Len(work) /\ Head(work) = At(work, Len(work)) /\ Len(work) # 0
    BY <1>2, <1>10, HeadFacts
  <2>2. /\ Owners(work)[Len(work)] = Head(work).owner
        /\ FullNames(work)[Len(work)] = FullName(Head(work))
    BY <2>1 DEF Owners, FullNames
  <2> QED BY <1>3, <1>4, <1>7, <1>8, <1>10, <2>1, <2>2
<1> QED BY <1>9, <1>10

TasksOK(s, part) == \A k \in 1 .. Len(s) : TaskOK(s[k], part)

LEMMA WorkKept ==
    ASSUME NEW w, NEW s, NEW owner, NEW part, NEW new, Replacement(w, s, owner, part, new),
           \A h \in 1 .. Len(w) : TaskOK(At(w, h), At(w, h).part), TasksOK(s, part)
    PROVE  new \in Seq(Entry) /\ \A h \in 1 .. Len(new) : TaskOK(At(new, h), At(new, h).part)
<1>1. Becomes(w, s, owner, part, new)
  BY Replaced
<1>2. Len(w) \in Nat \ {0} /\ Len(s) \in Nat /\ Len(new) \in Nat
  BY Lengths
<1>3. ASSUME NEW h \in 1 .. Len(new) PROVE TaskOK(At(new, h), At(new, h).part)
  <2>1. CASE h < Len(w)
    <3>1. h \in 1 .. Len(w) - 1 /\ h \in 1 .. Len(w)
      BY <1>2, <2>1
    <3>2. At(new, h) = At(w, h)
      BY <1>1, <3>1 DEF Becomes
    <3> QED BY <3>1, <3>2
  <2>2. CASE h >= Len(w)
    <3>1. h \in Len(w) .. Len(new)
      BY <1>2, <2>2
    <3> DEFINE k == Len(new) + 1 - h
    <3>2. k \in 1 .. Len(s) /\ At(new, h) = EntryFor(s[k], owner, part)
      BY <1>1, <3>1 DEF Becomes
    <3>3. /\ At(new, h).op = s[k].op /\ At(new, h).arg = s[k].arg /\ At(new, h).part = part
      BY <3>2 DEF EntryFor
    <3>4. TaskOK(s[k], part)
      BY <3>2 DEF TasksOK
    <3> HIDE DEF k
    <3> QED BY <3>3, <3>4 DEF TaskOK
  <2> QED BY <1>2, <2>1, <2>2
<1> QED BY <1>1, <1>3 DEF Becomes

Stay == UNCHANGED <<project, ModuleName, MODULE_STACK, SubmoduleName, SUBMODULE_STACK>>

LEMMA HeadOK ==
    ASSUME Sound, work # <<>>
    PROVE  /\ work \in Seq(Entry)
           /\ \A h \in 1 .. Len(work) : TaskOK(At(work, h), At(work, h).part)
           /\ TaskOK(Head(work), Head(work).part)
<1>1. work \in Seq(Entry) /\ \A h \in 1 .. Len(work) : TaskOK(At(work, h), At(work, h).part)
  BY DEF Sound, WorkOK
<1>2. Len(work) \in 1 .. Len(work) /\ Head(work) = At(work, Len(work))
  BY <1>1, HeadFacts
<1> QED BY <1>1, <1>2

LEMMA DoReplaces ==
    ASSUME Sound, work # <<>>, NEW s \in Seq(Task), Do(s)
    PROVE  Replacement(work, s, Head(work).owner, Head(work).part, work')
<1>1. work \in Seq(Entry)
  BY DEF Sound, WorkOK
<1>2. Head(work).owner \in Name /\ Head(work).part \in Name
  BY <1>1, HeadFacts
<1> QED BY <1>1, <1>2 DEF Do, Replacement

\* The head makes way for lines of the makefile that runs.
LEMMA StayStep ==
    ASSUME Sound, work # <<>>, NEW s \in Seq(Task), Do(s), Stay,
           Head(work).op # "leave", Head(work).op # "leave_sub",
           Lacks(s, "leave"), Lacks(s, "leave_sub"), TasksOK(s, Head(work).part)
    PROVE  WorkOK' /\ Nested'
<1>1. Replacement(work, s, Head(work).owner, Head(work).part, work')
  BY DoReplaces
<1>2. /\ work' \in Seq(Entry)
      /\ \A h \in 1 .. Len(work') : TaskOK(At(work', h), At(work', h).part)
  BY <1>1, HeadOK, WorkKept
<1>3. WorkOK'
  BY <1>2 DEF WorkOK, TaskOK, Files, Stay, At
<1> DEFINE outer == Frames(ModuleName, MODULE_STACK)
           inner == Frames(SubmoduleName, SUBMODULE_STACK)
<1>4. outer \in Seq(Files) /\ inner \in Seq(Paths) /\ Nest(work, outer, inner)
  <2>1. NamesApart
    BY ApartFacts DEF Sound, Typed
  <2> QED BY <2>1, FramesTop DEF Sound, Typed, NamesApart, Nested
<1> HIDE DEF outer, inner
<1>5. Nest(work', outer, inner)
  BY <1>1, <1>4, NestStay
<1>6. Frames(ModuleName, MODULE_STACK)' = outer /\ Frames(SubmoduleName, SUBMODULE_STACK)' = inner
  BY DEF Stay, Frames, outer, inner, NONE
<1>7. Nested'
  BY <1>5, <1>6 DEF Nested
<1> QED BY <1>3, <1>7

-----------------------------------------------------------------------------
\* The lists that a generator leaves to be evaluated: what is wanted, then itself.
Again(op, names, again) ==
    IF Sorted(names) = <<>> THEN <<>>
    ELSE Append(Each(op, Sorted(names)), [op |-> again, arg |-> NONE])

AgainList(s, op, names, again) ==
    /\ s \in Seq(Task)
    /\ \A k \in 1 .. Len(s) :
        (s[k].op = op /\ s[k].arg \in names) \/ s[k] = [op |-> again, arg |-> NONE]
    /\ \A k \in 1 .. Len(s) : s[k].op = again <=> k = Len(s)
    /\ \A x \in names : InOrder(x) => \E k \in 1 .. Len(s) : s[k].op = op /\ s[k].arg = x

LEMMA AgainFacts ==
    ASSUME project \in Projects, NEW op \in Ops, NEW again \in Ops, op # again, NEW names
    PROVE  AgainList(Again(op, names, again), op, names, again)
<1> DEFINE sorted == Sorted(names)
           each == Each(op, sorted)
           last == [op |-> again, arg |-> NONE]
           s == Again(op, names, again)
<1>1. /\ sorted \in Seq(Name)
      /\ \A k \in 1 .. Len(sorted) : sorted[k] \in names
      /\ \A x \in names : InOrder(x) => \E k \in 1 .. Len(sorted) : sorted[k] = x
  BY SortedFacts
<1> HIDE DEF sorted
<1>2. CASE sorted = <<>>
  <2> DEFINE none == <<>>
  <2>1. s = none
    BY <1>2 DEF Again, sorted
  <2>2. none \in Seq(Task) /\ Len(none) = 0
    OBVIOUS
  <2>3. \A x \in names : ~ InOrder(x)
    BY <1>1, <1>2
  <2> HIDE DEF none, s
  <2>4. \A k \in 1 .. Len(none) : FALSE
    BY <2>2
  <2>5. AgainList(s, op, names, again)
    BY <2>1, <2>2, <2>3, <2>4 DEF AgainList
  <2> QED BY <2>5 DEF s
<1>3. CASE sorted # <<>>
  <2>1. /\ each \in Seq(Task) /\ Len(each) = Len(sorted)
        /\ \A k \in 1 .. Len(sorted) : each[k] = [op |-> op, arg |-> sorted[k]]
    BY <1>1, EachFacts
  <2>2. s = Append(each, last)
    BY <1>3 DEF Again, sorted
  <2>3. NONE \in Name
    BY EmptySeq DEF Name, NONE
  <2>4. last \in Task
    BY <2>3 DEF Task
  <2>5. last.op = again /\ last.arg = NONE
    OBVIOUS
  <2> HIDE DEF each, last, s
  <2>6. /\ s \in Seq(Task) /\ Len(s) = Len(sorted) + 1 /\ Len(sorted) \in Nat
        /\ s[Len(sorted) + 1] = last
        /\ \A k \in 1 .. Len(sorted) : s[k] = each[k]
    BY <1>1, <2>1, <2>2, <2>4
  <2>7. ASSUME NEW k \in 1 .. Len(s)
        PROVE  \/ k = Len(s) /\ s[k] = last
               \/ /\ k # Len(s) /\ k \in 1 .. Len(sorted)
                  /\ s[k].op = op /\ s[k].arg = sorted[k] /\ s[k].arg \in names
    <3>1. k = Len(sorted) + 1 \/ k \in 1 .. Len(sorted)
      BY <2>6
    <3>2. CASE k \in 1 .. Len(sorted)
      <4>1. s[k] = [op |-> op, arg |-> sorted[k]]
        BY <2>1, <2>6, <3>2
      <4> QED BY <1>1, <2>6, <3>2, <4>1
    <3> QED BY <2>6, <3>1, <3>2
  <2>8. ASSUME NEW x \in names, InOrder(x)
        PROVE  \E k \in 1 .. Len(s) : s[k].op = op /\ s[k].arg = x
    <3>1. PICK k \in 1 .. Len(sorted) : sorted[k] = x
      BY <1>1, <2>8
    <3>2. k \in 1 .. Len(s) /\ k # Len(s)
      BY <2>6
    <3> QED BY <2>7, <3>1, <3>2
  <2>9. \A k \in 1 .. Len(s) : s[k].op = again <=> k = Len(s)
    BY <2>5, <2>7
  <2>10. \A k \in 1 .. Len(s) : (s[k].op = op /\ s[k].arg \in names) \/ s[k] = [op |-> again, arg |-> NONE]
    BY <2>7 DEF last
  <2>11. AgainList(s, op, names, again)
    BY <2>6, <2>8, <2>9, <2>10 DEF AgainList
  <2> QED BY <2>11 DEF s
<1> QED BY <1>2, <1>3

\* A makefile and what follows it.
Then(f, a, b, c) ==
    f \o <<[op |-> a, arg |-> NONE], [op |-> b, arg |-> NONE], [op |-> c, arg |-> NONE]>>

ThenList(s, f, a, b, c) ==
    /\ s \in Seq(Task) /\ Len(f) \in Nat /\ Len(s) = Len(f) + 3
    /\ \A k \in 1 .. Len(f) : s[k] = f[k] /\ f[k] \in Task
    /\ s[Len(f) + 1] = [op |-> a, arg |-> NONE]
    /\ s[Len(f) + 2] = [op |-> b, arg |-> NONE]
    /\ s[Len(f) + 3] = [op |-> c, arg |-> NONE]

LEMMA ThenFacts ==
    ASSUME NEW f \in Seq(Task), NEW a \in Ops, NEW b \in Ops, NEW c \in Ops
    PROVE  ThenList(Then(f, a, b, c), f, a, b, c)
<1> DEFINE ta == [op |-> a, arg |-> NONE]
           tb == [op |-> b, arg |-> NONE]
           tc == [op |-> c, arg |-> NONE]
           t == <<ta, tb, tc>>
           s == Then(f, a, b, c)
<1>1. NONE \in Name
  BY EmptySeq DEF Name, NONE
<1>2. ta \in Task /\ tb \in Task /\ tc \in Task
  BY <1>1 DEF Task
<1>3. s = f \o t
  BY DEF Then
<1> HIDE DEF ta, tb, tc, s
<1>4. t \in Seq(Task) /\ Len(t) = 3 /\ t[1] = ta /\ t[2] = tb /\ t[3] = tc
  BY <1>2
<1> HIDE DEF t
<1>5. Len(f) \in Nat /\ \A k \in 1 .. Len(f) : f[k] \in Task
  OBVIOUS
<1>6. f \o t \in Seq(Task)
  BY <1>4, ConcatProperties
<1>7. Len(f \o t) = Len(f) + Len(t)
  BY <1>4, ConcatProperties
<1>8. \A i \in 1 .. Len(f) + Len(t) : (f \o t)[i] = IF i <= Len(f) THEN f[i] ELSE t[i - Len(f)]
  BY <1>4, ConcatProperties
<1>9. \A i \in 1 .. Len(f) + 3 : s[i] = IF i <= Len(f) THEN f[i] ELSE t[i - Len(f)]
  BY <1>3, <1>4, <1>8
<1>10. s[Len(f) + 1] = ta
  <2>1. Len(f) + 1 \in 1 .. Len(f) + 3 /\ ~ (Len(f) + 1 <= Len(f)) /\ (Len(f) + 1) - Len(f) = 1
    BY <1>5
  <2> QED BY <1>4, <1>9, <2>1
<1>11. s[Len(f) + 2] = tb
  <2>1. Len(f) + 2 \in 1 .. Len(f) + 3 /\ ~ (Len(f) + 2 <= Len(f)) /\ (Len(f) + 2) - Len(f) = 2
    BY <1>5
  <2> QED BY <1>4, <1>9, <2>1
<1>12. s[Len(f) + 3] = tc
  <2>1. Len(f) + 3 \in 1 .. Len(f) + 3 /\ ~ (Len(f) + 3 <= Len(f)) /\ (Len(f) + 3) - Len(f) = 3
    BY <1>5
  <2> QED BY <1>4, <1>9, <2>1
<1>13. \A k \in 1 .. Len(f) : s[k] = f[k]
  BY <1>5, <1>9
<1>14. s \in Seq(Task) /\ Len(s) = Len(f) + 3
  BY <1>3, <1>4, <1>6, <1>7
<1>15. ThenList(s, f, a, b, c)
  BY <1>5, <1>10, <1>11, <1>12, <1>13, <1>14 DEF ThenList, ta, tb, tc
<1> QED BY <1>15 DEF s

\* The tasks of a module's makefile, and those of a submodule's.
LEMMA ModuleTasks ==
    ASSUME project \in Projects, NEW m \in Files
    PROVE  /\ ThenList(Then(project.files[m], "submodules", "define", "leave"),
                       project.files[m], "submodules", "define", "leave")
           /\ \A k \in 1 .. Len(project.files[m]) :
                project.files[m][k] \in Statement /\ LineOK(project.files[m], k)
<1>1. project.files[m] \in Seq(Statement)
  BY ProjectFacts
<1>2. Statement \subseteq Task
  BY DEF Statement, Task, Ops
<1>3. project.files[m] \in Seq(Task)
  BY <1>1, <1>2
<1>4. "submodules" \in Ops /\ "define" \in Ops /\ "leave" \in Ops
  BY DEF Ops
<1>5. ThenList(Then(project.files[m], "submodules", "define", "leave"),
               project.files[m], "submodules", "define", "leave")
  BY <1>3, <1>4, ThenFacts
<1>6. \A k \in 1 .. Len(project.files[m]) : project.files[m][k] \in Statement
  BY <1>1
<1> QED BY <1>5, <1>6, Lines

LEMMA SubmoduleTasks ==
    ASSUME project \in Projects, NEW q \in Paths
    PROVE  /\ ThenList(Then(project.parts[q], "submodules", "append", "leave_sub"),
                       project.parts[q], "submodules", "append", "leave_sub")
           /\ \A k \in 1 .. Len(project.parts[q]) :
                project.parts[q][k] \in PartStatement /\ LineOK(project.parts[q], k)
<1>1. project.parts[q] \in Seq(PartStatement)
  BY ProjectFacts
<1>2. PartStatement \subseteq Task
  BY DEF PartStatement, Task, Ops
<1>3. project.parts[q] \in Seq(Task)
  BY <1>1, <1>2
<1>4. "submodules" \in Ops /\ "append" \in Ops /\ "leave_sub" \in Ops
  BY DEF Ops
<1>5. ThenList(Then(project.parts[q], "submodules", "append", "leave_sub"),
               project.parts[q], "submodules", "append", "leave_sub")
  BY <1>3, <1>4, ThenFacts
<1>6. \A k \in 1 .. Len(project.parts[q]) : project.parts[q][k] \in PartStatement
  BY <1>1
<1> QED BY <1>5, <1>6, Lines

-----------------------------------------------------------------------------
\* Soundness, action by action.  Those that only read the head first.
LEMMA SoundNothing ==
    ASSUME Sound, work # <<>>, Do(<<>>), Stay,
           Head(work).op # "leave", Head(work).op # "leave_sub"
    PROVE  WorkOK' /\ Nested'
<1> DEFINE none == <<>>
<1>1. none \in Seq(Task) /\ Do(none) /\ \A k \in 1 .. Len(none) : FALSE
  OBVIOUS
<1> HIDE DEF none
<1>2. Lacks(none, "leave") /\ Lacks(none, "leave_sub") /\ TasksOK(none, Head(work).part)
  BY <1>1 DEF Lacks, TasksOK
<1> QED BY <1>1, <1>2, StayStep

LEMMA SoundAgain ==
    ASSUME Sound, work # <<>>, Stay, NEW names, NEW op, NEW again,
           Do(Again(op, names, again)),
           Head(work).op # "leave", Head(work).op # "leave_sub",
           \/ op = "generate" /\ again = "modules" /\ names \subseteq Files /\ Head(work).part = NONE
           \/ op = "submodule" /\ again = "submodules" /\ names \subseteq Name \ {NONE}
    PROVE  WorkOK' /\ Nested'
<1> DEFINE s == Again(op, names, again)
<1>1. op \in Ops /\ again \in Ops /\ op # again
  BY DEF Ops
<1>2. AgainList(s, op, names, again)
  BY <1>1, AgainFacts DEF Sound, Typed
<1>3. Do(s)
  OBVIOUS
<1> HIDE DEF s
<1>4. s \in Seq(Task) /\ Lacks(s, "leave") /\ Lacks(s, "leave_sub")
  BY <1>2 DEF AgainList, Lacks
<1>5. TasksOK(s, Head(work).part)
  BY <1>2 DEF AgainList, TasksOK, TaskOK
<1> QED BY <1>3, <1>4, <1>5, StayStep

LEMMA EvaluateFacts ==
    ASSUME Sound, NEW op, Evaluate(op)
    PROVE  /\ work # <<>> /\ Head(work).op = op /\ work \in Seq(Entry)
           /\ Arg \in Name /\ Head(work).owner \in Name /\ Head(work).part \in Name
           /\ op \in {"generate", "want"} => Arg \in Files
           /\ op \in {"part", "submodule"} => Arg # NONE
           /\ op \in {"modules", "generate", "define", "leave"} => Head(work).part = NONE
<1>1. work # <<>> /\ Head(work).op = op
  BY DEF Evaluate
<1>2. work \in Seq(Entry) /\ TaskOK(Head(work), Head(work).part)
  BY <1>1, HeadOK
<1>3. Head(work).arg \in Name /\ Head(work).owner \in Name /\ Head(work).part \in Name
  BY <1>1, <1>2, HeadFacts
<1> QED BY <1>1, <1>2, <1>3 DEF TaskOK, Arg

LEMMA SoundGenerateModules == ASSUME Sound, GenerateModules PROVE Sound'
<1> DEFINE names == MODULES \ MODULES_GENERATED
<1>1. Evaluate("modules")
  BY DEF GenerateModules
<1>2. work # <<>> /\ Head(work).op = "modules" /\ Head(work).part = NONE
  BY <1>1, EvaluateFacts
<1>3. Do(Again("generate", names, "modules"))
  BY DEF GenerateModules, Again
<1>4. Stay /\ names \subseteq Files
  BY DEF GenerateModules, Stay, submodules, Sound, Typed
<1> HIDE DEF names
<1>5. WorkOK' /\ Nested'
  BY <1>2, <1>3, <1>4, SoundAgain
<1>6. Typed'
  BY DEF Sound, Typed, GenerateModules, submodules, Files, Paths
<1> QED BY <1>5, <1>6 DEF Sound

LEMMA SoundGenerateSubmodules == ASSUME Sound, GenerateSubmodules PROVE Sound'
<1> DEFINE names == SUBMODULES \ SUBMODULES_GENERATED
<1>1. Evaluate("submodules")
  BY DEF GenerateSubmodules
<1>2. work # <<>> /\ Head(work).op = "submodules"
  BY <1>1, EvaluateFacts
<1>3. Do(Again("submodule", names, "submodules"))
  BY DEF GenerateSubmodules, Again
<1>4. Stay /\ names \subseteq Name \ {NONE}
  BY DEF GenerateSubmodules, Stay, modules, Sound, Typed
<1> HIDE DEF names
<1>5. WorkOK' /\ Nested'
  BY <1>2, <1>3, <1>4, SoundAgain
<1>6. Typed'
  BY DEF Sound, Typed, GenerateSubmodules, modules, Files, Paths, NONE
<1> QED BY <1>5, <1>6 DEF Sound

LEMMA SoundQuiet ==
    ASSUME Sound,
           GeneratedAlready \/ DefineModule \/ SubmoduleGeneratedAlready
             \/ Want \/ Part \/ NoParts \/ Set
    PROVE  Sound'
<1>1. PICK op \in {"generate", "define", "submodule", "want", "part", "noparts", "set", "append"} :
        /\ Evaluate(op)
        /\ Want => op = "want"
        /\ Part => op = "part"
  BY DEF GeneratedAlready, DefineModule, SubmoduleGeneratedAlready, Want, Part, NoParts, Set, Evaluate
<1>2. work # <<>> /\ Head(work).op # "leave" /\ Head(work).op # "leave_sub"
  BY <1>1, EvaluateFacts
<1>3. Do(<<>>)
  BY DEF GeneratedAlready, DefineModule, SubmoduleGeneratedAlready, Want, Part, NoParts, Set
<1>4. Stay
  BY DEF Stay, GeneratedAlready, DefineModule, SubmoduleGeneratedAlready, Want, Part, NoParts, Set,
         modules, submodules
<1>5. WorkOK' /\ Nested'
  BY <1>2, <1>3, <1>4, SoundNothing
<1>6. Typed'
  <2> USE DEF Sound, Typed, modules, submodules, Files, Paths
  <2>1. CASE GeneratedAlready
    BY <2>1 DEF GeneratedAlready
  <2>2. CASE DefineModule
    <3>1. defined' = Append(defined, ModuleName)
      BY <2>2 DEF DefineModule
    <3>2. ModuleName \in Files \cup {NONE}
      BY DEF Stacked
    <3>3. defined' \in Seq(Files \cup {NONE})
      BY <3>1, <3>2
    <3> QED BY <2>2, <3>3 DEF DefineModule
  <2>3. CASE SubmoduleGeneratedAlready
    BY <2>3 DEF SubmoduleGeneratedAlready
  <2>4. CASE Want
    <3>1. Arg \in Files
      BY <1>1, <2>4, EvaluateFacts
    <3> QED BY <2>4, <3>1 DEF Want
  <2>5. CASE Part
    <3>1. Arg \in Name \ {NONE}
      BY <1>1, <2>5, EvaluateFacts
    <3> QED BY <2>5, <3>1 DEF Part
  <2>6. CASE NoParts
    BY <2>6 DEF NoParts
  <2>7. CASE Set
    BY <2>7 DEF Set
  <2> QED BY <2>1, <2>2, <2>3, <2>4, <2>5, <2>6, <2>7
<1> QED BY <1>5, <1>6 DEF Sound

LEMMA SoundGenerateModule == ASSUME Sound, GenerateModule PROVE Sound'
<1> DEFINE f == project.files[Arg]
           s == Then(f, "submodules", "define", "leave")
           outer == Frames(ModuleName, MODULE_STACK)
           inner == Frames(SubmoduleName, SUBMODULE_STACK)
<1>1. Evaluate("generate")
  BY DEF GenerateModule
<1>2. /\ work # <<>> /\ Head(work).op = "generate" /\ work \in Seq(Entry)
      /\ Arg \in Files /\ Arg \in Name /\ Head(work).part = NONE
  BY <1>1, EvaluateFacts
<1>3. NamesApart /\ project \in Projects /\ Nest(work, outer, inner)
  BY ApartFacts DEF Sound, Typed, Nested
<1>4. work' = Owned(s, Arg, NONE) \o Tail(work)
  BY DEF GenerateModule, Then
<1>5. /\ ThenList(s, f, "submodules", "define", "leave")
      /\ \A k \in 1 .. Len(f) : f[k] \in Statement /\ LineOK(f, k)
  BY <1>2, <1>3, ModuleTasks
<1>6. outer \in Seq(Files) /\ inner \in Seq(Paths)
  BY <1>3, FramesTop DEF Sound, Typed, NamesApart
<1>7. /\ Stacked(Arg, Push(MODULE_STACK, ModuleName), Files)
      /\ Frames(Arg, Push(MODULE_STACK, ModuleName)) = Append(outer, Arg)
  BY <1>2, <1>3, FramesPush DEF Sound, Typed, NamesApart
<1>8. NONE \in Name
  BY EmptySeq DEF Name, NONE
<1> HIDE DEF s, f, outer, inner
<1>9. ASSUME NEW k \in 1 .. Len(s)
      PROVE  \/ k \in 1 .. Len(f) /\ s[k] = f[k] /\ f[k] \in Statement /\ LineOK(f, k)
             \/ k = Len(s) /\ s[k].op = "leave"
             \/ k # Len(s) /\ s[k].op \in {"submodules", "define"}
  <2>1. k \in 1 .. Len(f) \/ k = Len(f) + 1 \/ k = Len(f) + 2 \/ k = Len(f) + 3
    BY <1>5 DEF ThenList
  <2> QED BY <1>5, <2>1 DEF ThenList
<1>10. ASSUME NEW k \in 1 .. Len(f) PROVE k # Len(s) /\ s[k] = f[k] /\ f[k].op \in {"generate", "want", "part", "noparts", "set"}
  BY <1>5 DEF ThenList, Statement
<1>11. Replacement(work, s, Arg, NONE, work')
  BY <1>2, <1>4, <1>5, <1>8 DEF Replacement, ThenList
<1>12. EndsWith(s, "leave") /\ Lacks(s, "leave_sub")
  <2>1. \A k \in 1 .. Len(s) : s[k].op # "leave_sub"
    BY <1>9, <1>10
  <2>2. Len(s) \in 1 .. Len(s) /\ s[Len(s)].op = "leave"
    BY <1>5 DEF ThenList
  <2>3. \A k \in 1 .. Len(s) - 1 : k \in 1 .. Len(s) /\ k # Len(s)
    BY <1>5 DEF ThenList
  <2>4. \A k \in 1 .. Len(s) - 1 : s[k].op # "leave"
    BY <1>9, <1>10, <2>3
  <2> QED BY <2>1, <2>2, <2>4 DEF EndsWith, Lacks
<1>13. TasksOK(s, NONE)
  BY <1>9 DEF TasksOK, TaskOK, LineOK, Statement
<1>14. WorkOK'
  <2>1. /\ work' \in Seq(Entry)
        /\ \A h \in 1 .. Len(work') : TaskOK(At(work', h), At(work', h).part)
    BY <1>2, <1>11, <1>13, HeadOK, WorkKept
  <2>2. project' = project
    BY DEF GenerateModule
  <2> QED BY <2>1, <2>2 DEF WorkOK, TaskOK, Files, At
<1>15. Nested'
  <2>1. Nest(work', Append(outer, Arg), inner)
    BY <1>2, <1>3, <1>6, <1>11, <1>12, NestModule
  <2>2. Frames(ModuleName, MODULE_STACK)' = Append(outer, Arg)
    BY <1>7 DEF GenerateModule
  <2>3. Frames(SubmoduleName, SUBMODULE_STACK)' = inner
    BY DEF GenerateModule, submodules, inner
  <2> QED BY <2>1, <2>2, <2>3 DEF Nested
<1>16. Typed'
  BY <1>2, <1>7 DEF Sound, Typed, GenerateModule, submodules, Files, Paths
<1> QED BY <1>14, <1>15, <1>16 DEF Sound

\* Where a submodule's path comes from.
LEMMA PathFacts ==
    ASSUME Sound, Evaluate("submodule")
    PROVE  /\ Path = Head(work).owner \o (Head(work).part \o Arg)
           /\ Head(work).part \o Arg \in Name \ {NONE}
<1>1. /\ work # <<>> /\ Arg \in Name /\ Arg # NONE
      /\ Head(work).owner \in Name /\ Head(work).part \in Name
  BY EvaluateFacts
<1>2. ModuleName = Head(work).owner /\ SubmoduleName = FullName(Head(work))
  BY <1>1, HeadRuns
<1>3. Head(work).part \o Arg \in Name \ {NONE}
  BY <1>1, Joined
<1>4. CASE Head(work).part = NONE
  <2>1. Path = Head(work).owner \o Arg
    BY <1>2, <1>4 DEF Path, FullName
  <2>2. Head(work).part \o Arg = Arg
    BY <1>1, <1>4, Joined
  <2> QED BY <1>3, <2>1, <2>2
<1>5. CASE Head(work).part # NONE
  <2>1. SubmoduleName = Head(work).owner \o Head(work).part
    BY <1>2, <1>5 DEF FullName
  <2>2. SubmoduleName # NONE
    BY <1>1, <1>5, <2>1, Joined
  <2>3. Path = (Head(work).owner \o Head(work).part) \o Arg
    BY <2>1, <2>2 DEF Path
  <2>4. (Head(work).owner \o Head(work).part) \o Arg = Head(work).owner \o (Head(work).part \o Arg)
    <3>1. \A a, b, c \in Name : (a \o b) \o c = a \o (b \o c)
      BY ConcatAssociative DEF Name
    <3> QED BY <1>1, <3>1
  <2> QED BY <1>3, <2>3, <2>4
<1> QED BY <1>4, <1>5

LEMMA SoundGenerateSubmodule == ASSUME Sound, GenerateSubmodule PROVE Sound'
<1> DEFINE f == project.parts[Path]
           s == Then(f, "submodules", "append", "leave_sub")
           outer == Frames(ModuleName, MODULE_STACK)
           inner == Frames(SubmoduleName, SUBMODULE_STACK)
           part == Head(work).part \o Arg
           path == Path
<1>1. Evaluate("submodule") /\ path \in Paths
  BY DEF GenerateSubmodule, Paths
<1>2. /\ work # <<>> /\ Head(work).op = "submodule" /\ work \in Seq(Entry)
      /\ Head(work).owner \in Name
  BY <1>1, EvaluateFacts
<1>3. NamesApart /\ project \in Projects /\ Nest(work, outer, inner)
  BY ApartFacts DEF Sound, Typed, Nested
<1>4. path = Head(work).owner \o part /\ part \in Name \ {NONE}
  BY <1>1, PathFacts
<1>5. work' = Owned(s, Head(work).owner, part) \o Tail(work)
  BY DEF GenerateSubmodule, Then
<1>6. /\ ThenList(s, f, "submodules", "append", "leave_sub")
      /\ \A k \in 1 .. Len(f) : f[k] \in PartStatement /\ LineOK(f, k)
  BY <1>1, <1>3, SubmoduleTasks
<1>7. outer \in Seq(Files) /\ inner \in Seq(Paths)
  BY <1>3, FramesTop DEF Sound, Typed, NamesApart
<1>8. /\ Stacked(path, Push(SUBMODULE_STACK, SubmoduleName), Paths)
      /\ Frames(path, Push(SUBMODULE_STACK, SubmoduleName)) = Append(inner, path)
  BY <1>1, <1>3, FramesPush DEF Sound, Typed, NamesApart
<1>9. SubmoduleName' = path
  BY DEF GenerateSubmodule
<1> HIDE DEF s, f, outer, inner, path, part
<1>10. ASSUME NEW k \in 1 .. Len(s)
      PROVE  \/ k \in 1 .. Len(f) /\ s[k] = f[k] /\ f[k] \in PartStatement /\ LineOK(f, k)
             \/ k = Len(s) /\ s[k].op = "leave_sub"
             \/ k # Len(s) /\ s[k].op \in {"submodules", "append"}
  <2>1. k \in 1 .. Len(f) \/ k = Len(f) + 1 \/ k = Len(f) + 2 \/ k = Len(f) + 3
    BY <1>6 DEF ThenList
  <2> QED BY <1>6, <2>1 DEF ThenList
<1>11. ASSUME NEW k \in 1 .. Len(f)
       PROVE  k # Len(s) /\ s[k] = f[k] /\ f[k].op \in {"part", "noparts", "set"}
  BY <1>6 DEF ThenList, PartStatement
<1>12. Replacement(work, s, Head(work).owner, part, work')
  BY <1>2, <1>4, <1>5, <1>6 DEF Replacement, ThenList
<1>13. EndsWith(s, "leave_sub") /\ Lacks(s, "leave")
  BY <1>6, <1>10, <1>11 DEF EndsWith, Lacks, ThenList
<1>14. TasksOK(s, part)
  BY <1>10 DEF TasksOK, TaskOK, LineOK, PartStatement
<1>15. WorkOK'
  <2>1. /\ work' \in Seq(Entry)
        /\ \A h \in 1 .. Len(work') : TaskOK(At(work', h), At(work', h).part)
    BY <1>2, <1>12, <1>14, HeadOK, WorkKept
  <2>2. project' = project
    BY DEF GenerateSubmodule
  <2> QED BY <2>1, <2>2 DEF WorkOK, TaskOK, Files, At
<1>16. Nested'
  <2>1. Nest(work', outer, Append(inner, path))
    BY <1>1, <1>2, <1>3, <1>4, <1>7, <1>12, <1>13, NestPart
  <2>2. Frames(SubmoduleName, SUBMODULE_STACK)' = Append(inner, path)
    BY <1>8, <1>9 DEF GenerateSubmodule
  <2>3. Frames(ModuleName, MODULE_STACK)' = outer
    BY DEF GenerateSubmodule, modules, outer
  <2> QED BY <2>1, <2>2, <2>3 DEF Nested
<1>17. Typed'
  <2>1. SUBMODULES_GENERATED' = SUBMODULES_GENERATED \cup {path}
    BY DEF GenerateSubmodule, path
  <2>2. SUBMODULE_STACK' = Push(SUBMODULE_STACK, SubmoduleName)
    BY DEF GenerateSubmodule
  <2> QED BY <1>1, <1>8, <1>9, <2>1, <2>2 DEF Sound, Typed, GenerateSubmodule, modules, Files, Paths, NONE
<1> QED BY <1>15, <1>16, <1>17 DEF Sound

LEMMA SoundLeave == ASSUME Sound, LeaveModule \/ LeaveSubmodule PROVE Sound'
<1> DEFINE none == <<>>
           outer == Frames(ModuleName, MODULE_STACK)
           inner == Frames(SubmoduleName, SUBMODULE_STACK)
<1>1. PICK op \in {"leave", "leave_sub"} :
        Evaluate(op) /\ (LeaveModule => op = "leave") /\ (LeaveSubmodule => op = "leave_sub")
  BY DEF LeaveModule, LeaveSubmodule, Evaluate
<1>2. work # <<>> /\ Head(work).op = op
  BY <1>1, EvaluateFacts
<1>3. Do(none) /\ none \in Seq(Task) /\ Len(none) = 0
  BY DEF LeaveModule, LeaveSubmodule
<1> HIDE DEF none
<1>4. Replacement(work, none, Head(work).owner, Head(work).part, work')
  BY <1>2, <1>3, DoReplaces
<1>5. NamesApart /\ Nest(work, outer, inner) /\ project' = project
  BY ApartFacts DEF Sound, Typed, Nested, LeaveModule, LeaveSubmodule
<1>6. /\ outer \in Seq(Files) /\ inner \in Seq(Paths)
      /\ ModuleName = NONE => outer = <<>>
      /\ SubmoduleName = NONE => inner = <<>>
  BY <1>5, FramesTop DEF Sound, Typed, NamesApart
<1>7. /\ Head(work).op = "leave" =>
           outer # <<>> /\ Nest(work', SubSeq(outer, 1, Len(outer) - 1), inner)
      /\ Head(work).op = "leave_sub" =>
           inner # <<>> /\ Nest(work', outer, SubSeq(inner, 1, Len(inner) - 1))
  <2> HIDE DEF outer, inner
  <2> QED BY <1>3, <1>4, <1>5, <1>6, NestLeave
<1>8. WorkOK'
  <2>1. TasksOK(none, Head(work).part)
    BY <1>3 DEF TasksOK
  <2>2. /\ work' \in Seq(Entry)
        /\ \A h \in 1 .. Len(work') : TaskOK(At(work', h), At(work', h).part)
    BY <1>2, <1>4, <2>1, HeadOK, WorkKept
  <2> QED BY <1>5, <2>2 DEF WorkOK, TaskOK, Files, At
<1>9. CASE LeaveModule
  <2>1. ModuleName # NONE /\ Nest(work', SubSeq(outer, 1, Len(outer) - 1), inner)
    BY <1>1, <1>2, <1>6, <1>7, <1>9
  <2>2. /\ Stacked(LastWord(MODULE_STACK), TailOf(MODULE_STACK), Files)
        /\ Frames(LastWord(MODULE_STACK), TailOf(MODULE_STACK)) = SubSeq(outer, 1, Len(outer) - 1)
    BY <1>5, <2>1, FramesDrop DEF Sound, Typed, NamesApart
  <2>3. Frames(ModuleName, MODULE_STACK)' = SubSeq(outer, 1, Len(outer) - 1)
    BY <1>9, <2>2 DEF LeaveModule
  <2>4. Frames(SubmoduleName, SUBMODULE_STACK)' = inner
    BY <1>9 DEF LeaveModule, submodules
  <2> HIDE DEF outer, inner
  <2>5. Nested'
    BY <2>1, <2>3, <2>4 DEF Nested
  <2>6. Typed'
    BY <1>9, <2>2 DEF Sound, Typed, LeaveModule, submodules, Files, Paths
  <2> QED BY <1>8, <2>5, <2>6 DEF Sound
<1>10. CASE LeaveSubmodule
  <2>1. SubmoduleName # NONE /\ Nest(work', outer, SubSeq(inner, 1, Len(inner) - 1))
    BY <1>1, <1>2, <1>6, <1>7, <1>10
  <2>2. /\ Stacked(LastWord(SUBMODULE_STACK), TailOf(SUBMODULE_STACK), Paths)
        /\ Frames(LastWord(SUBMODULE_STACK), TailOf(SUBMODULE_STACK))
             = SubSeq(inner, 1, Len(inner) - 1)
    BY <1>5, <2>1, FramesDrop DEF Sound, Typed, NamesApart
  <2>3. Frames(SubmoduleName, SUBMODULE_STACK)' = SubSeq(inner, 1, Len(inner) - 1)
    BY <1>10, <2>2 DEF LeaveSubmodule
  <2>4. Frames(ModuleName, MODULE_STACK)' = outer
    BY <1>10 DEF LeaveSubmodule, modules
  <2> HIDE DEF outer, inner
  <2>5. Nested'
    BY <2>1, <2>3, <2>4 DEF Nested
  <2>6. Typed'
    BY <1>10, <2>2 DEF Sound, Typed, LeaveSubmodule, modules, Files, Paths
  <2> QED BY <1>8, <2>5, <2>6 DEF Sound
<1> QED BY <1>9, <1>10

LEMMA SoundInit == ASSUME Init PROVE Sound
<1> DEFINE s == <<[op |-> "modules", arg |-> NONE]>>
<1>1. NONE \in Name
  BY EmptySeq DEF Name, NONE
<1>2. /\ s \in Seq(Task) /\ Len(s) = 1
      /\ s[1] = [op |-> "modules", arg |-> NONE]
  <2>1. [op |-> "modules", arg |-> NONE] \in Task
    BY <1>1 DEF Task, Ops
  <2> QED BY <2>1
<1>3. work = Owned(s, NONE, NONE)
  BY DEF Init
<1>4. project \in Projects /\ ModuleName = NONE /\ MODULE_STACK = <<>>
      /\ SubmoduleName = NONE /\ SUBMODULE_STACK = <<>>
  BY DEF Init
<1> HIDE DEF s
<1>5. /\ work \in Seq(Entry) /\ Len(work) = 1
      /\ work[1] = EntryFor(s[1], NONE, NONE)
  BY <1>1, <1>2, <1>3, OwnedFacts
<1>6. Len(work) = 1 /\ \A h \in 1 .. Len(work) : h = 1 /\ At(work, h) = EntryFor(s[1], NONE, NONE)
  BY <1>5 DEF At
<1>7. \A h \in 1 .. Len(work) :
        /\ At(work, h).op = "modules" /\ At(work, h).arg = NONE
        /\ At(work, h).owner = NONE /\ At(work, h).part = NONE
  BY <1>2, <1>6 DEF EntryFor
<1>8. WorkOK
  BY <1>5, <1>7 DEF WorkOK, TaskOK
<1>9. Typed
  <2>1. project.root \in Files
    BY <1>4, ProjectFacts
  <2> QED BY <2>1 DEF Init, Typed, Stacked
<1>10. Nested
  <2>1. Frames(ModuleName, MODULE_STACK) = <<>> /\ Frames(SubmoduleName, SUBMODULE_STACK) = <<>>
    BY <1>4 DEF Frames
  <2>2. Leaves(work, "leave") = {} /\ Leaves(work, "leave_sub") = {}
    BY <1>7 DEF Leaves
  <2>3. /\ Filled(Owners(work), 1, Len(work), NONE)
        /\ Filled(FullNames(work), 1, Len(work), NONE)
    BY <1>6, <1>7 DEF Filled, Owners, FullNames, FullName
  <2>4. Len(work) \in Nat
    BY <1>6
  <2>5. /\ Mirrors(Owners(work), Len(work), Leaves(work, "leave"), <<>>)
        /\ Mirrors(FullNames(work), Len(work), Leaves(work, "leave_sub"), <<>>)
    BY <2>2, <2>3, <2>4, MirrorStart
  <2> QED BY <2>1, <2>5 DEF Nested, Nest
<1> QED BY <1>8, <1>9, <1>10 DEF Sound

LEMMA SoundNext == ASSUME Sound, [Next]_vars PROVE Sound'
<1>1. CASE GenerateModules
  BY <1>1, SoundGenerateModules
<1>2. CASE GenerateModule
  BY <1>2, SoundGenerateModule
<1>3. CASE LeaveModule \/ LeaveSubmodule
  BY <1>3, SoundLeave
<1>4. CASE GenerateSubmodules
  BY <1>4, SoundGenerateSubmodules
<1>5. CASE GenerateSubmodule
  BY <1>5, SoundGenerateSubmodule
<1>6. CASE GeneratedAlready \/ DefineModule \/ SubmoduleGeneratedAlready
             \/ Want \/ Part \/ NoParts \/ Set
  BY <1>6, SoundQuiet
<1>7. CASE UNCHANGED vars
  BY <1>7 DEF vars, modules, submodules, Sound, Typed, WorkOK, Nested, TaskOK, Files, Paths
<1> QED BY <1>1, <1>2, <1>3, <1>4, <1>5, <1>6, <1>7 DEF Next

LEMMA AlwaysSound == Spec => []Sound
<1>1. Init => Sound
  BY SoundInit
<1>2. Sound /\ [Next]_vars => Sound'
  BY SoundNext
<1> QED BY <1>1, <1>2, PTL DEF Spec

\* The stacks, the lists and the names stay within the project's modules and
\* submodules.
THEOREM TypeCorrect == Spec => []TypeOK
<1>1. Sound => TypeOK
  BY DEF Sound, Typed, Stacked, TypeOK
<1> QED BY <1>1, AlwaysSound, PTL

\* For every project: whatever nests in what, a line of a makefile is evaluated
\* under the name of the module and the submodule whose makefile it is in.
THEOREM LinesUnderName == Spec => []LinesRunUnderTheirName
<1>1. Sound => LinesRunUnderTheirName
  BY HeadRuns DEF LinesRunUnderTheirName, FullName
<1> QED BY <1>1, AlwaysSound, PTL

-----------------------------------------------------------------------------
(***************************************************************************)
(* Every module once.                                                      *)
(***************************************************************************)
Entered(list) == {list[k] : k \in DOMAIN list}

\* Every generated module has its rules, or will get them when its "define" comes.
DefiningFor(w, generated, list) ==
    /\ Entered(list) \subseteq generated
    /\ \A i, j \in DOMAIN list : list[i] = list[j] => i = j
    /\ \A h \in 1 .. Len(w) : At(w, h).op = "define" => At(w, h).owner \in generated \ Entered(list)
    /\ \A g, h \in 1 .. Len(w) :
        At(w, g).op = "define" /\ At(w, h).op = "define" /\ At(w, g).owner = At(w, h).owner => g = h
    /\ \A m \in generated \ Entered(list) :
        \E h \in 1 .. Len(w) : At(w, h).op = "define" /\ At(w, h).owner = m

Defining == DefiningFor(work, MODULES_GENERATED, defined)

Listed(w, m) == \E h \in 1 .. Len(w) : At(w, h).op \in {"generate", "want"} /\ At(w, h).arg = m
Coming(m) == m \in MODULES \cup MODULES_GENERATED \/ Listed(work, m)

\* Nothing but what can be reached; no use is forgotten; and the list of modules
\* is looked at again when everything else is done.
Reaching ==
    /\ MODULES \cup MODULES_GENERATED \subseteq Reachable
    /\ \A h \in 1 .. Len(work) :
        At(work, h).op \in {"generate", "want"} => At(work, h).arg \in Reachable
    /\ Coming(project.root)
    /\ \A m \in MODULES_GENERATED : \A u \in Uses(m) : Coming(u)

Looping ==
    /\ \A h \in 1 .. Len(work) : At(work, h).op = "modules" <=> h = 1
    /\ work = <<>> => MODULES = {}

\* The makefiles: a module's, and a submodule's with its full path.
Place(owner, part) == IF part = NONE THEN <<"module", owner>> ELSE <<"submodule", owner \o part>>
Where(e) == Place(e.owner, e.part)
PartsIn(c) == Args({"part"}, IF c[1] = "module" THEN project.files[c[2]] ELSE project.parts[c[2]])
Begun == ({"module"} \X MODULES_GENERATED) \cup ({"submodule"} \X SUBMODULES_GENERATED)

\* From here, Make looks at SUBMODULES before it leaves the makefile or does
\* anything else that changes them.
Queued(w, h) ==
    \E g \in 1 .. h :
        /\ At(w, g).op = "submodules"
        /\ \A k \in g .. h :
            /\ At(w, k).owner = At(w, h).owner /\ At(w, k).part = At(w, h).part
            /\ k # g => At(w, k).op \in {"part", "want", "set"}

Top(w) == At(w, Len(w))

\* The name x that the makefile c gives to a part is still to be looked at.
Awaits(w, c, x) ==
    \E h \in 1 .. Len(w) :
        At(w, h).op \in {"part", "submodule"} /\ At(w, h).arg = x /\ Where(At(w, h)) = c

Placed ==
    \A h \in 1 .. Len(work) : At(work, h).op \in {"part", "submodule"} =>
        Where(At(work, h)) \in Begun /\ At(work, h).arg \in PartsIn(Where(At(work, h)))

PartsQueued == \A h \in 1 .. Len(work) : At(work, h).op = "part" => Queued(work, h)

\* What is in SUBMODULES was named by the makefile that runs.
Gathering ==
    SUBMODULES # {} =>
        /\ work # <<>> /\ Queued(work, Len(work))
        /\ Where(Top(work)) \in Begun /\ SUBMODULES \subseteq PartsIn(Where(Top(work)))

Met(c, x) ==
    \/ c[2] \o x \in SUBMODULES_GENERATED
    \/ x \in SUBMODULES /\ Where(Top(work)) = c
    \/ Awaits(work, c, x)

Expecting == \A c \in Begun : \A x \in PartsIn(c) : Met(c, x)

Founded == \A q \in SUBMODULES_GENERATED : \E c \in Begun : \E x \in PartsIn(c) : q = c[2] \o x

Parting == Placed /\ PartsQueued /\ Gathering /\ Expecting /\ Founded

-----------------------------------------------------------------------------
\* What becomes of the entries when the head makes way.
Moves(w, s, owner, part, new) ==
    /\ Len(w) \in Nat \ {0} /\ Len(s) \in Nat /\ Len(new) = Len(w) - 1 + Len(s)
    /\ Head(w) = At(w, Len(w))
    /\ \A h \in 1 .. Len(new) :
        \/ h \in 1 .. Len(w) - 1 /\ At(new, h) = At(w, h)
        \/ /\ h \in Len(w) .. Len(new) /\ Len(new) + 1 - h \in 1 .. Len(s)
           /\ At(new, h) = EntryFor(s[Len(new) + 1 - h], owner, part)
    /\ \A h \in 1 .. Len(w) :
        h = Len(w) \/ (h \in 1 .. Len(w) - 1 /\ h \in 1 .. Len(new) /\ At(new, h) = At(w, h))
    /\ \A k \in 1 .. Len(s) :
        /\ Len(new) + 1 - k \in 1 .. Len(new) /\ Len(new) + 1 - k >= Len(w)
        /\ At(new, Len(new) + 1 - k) = EntryFor(s[k], owner, part)

LEMMA Moved ==
    ASSUME NEW w, NEW s, NEW owner, NEW part, NEW new, Replacement(w, s, owner, part, new)
    PROVE  Moves(w, s, owner, part, new)
<1>1. Becomes(w, s, owner, part, new)
  BY Replaced
<1>2. /\ Len(w) \in Nat \ {0} /\ Len(s) \in Nat /\ Len(new) \in Nat
      /\ Len(new) = Len(w) - 1 + Len(s)
      /\ Head(w) = At(w, Len(w))
  BY Lengths
<1>3. ASSUME NEW h \in 1 .. Len(new)
      PROVE  \/ h \in 1 .. Len(w) - 1 /\ At(new, h) = At(w, h)
             \/ /\ h \in Len(w) .. Len(new) /\ Len(new) + 1 - h \in 1 .. Len(s)
                /\ At(new, h) = EntryFor(s[Len(new) + 1 - h], owner, part)
  <2>1. h \in 1 .. Len(w) - 1 \/ h \in Len(w) .. Len(new)
    BY <1>2
  <2> QED BY <1>1, <2>1 DEF Becomes
<1>4. ASSUME NEW h \in 1 .. Len(w), h # Len(w)
      PROVE  h \in 1 .. Len(w) - 1 /\ h \in 1 .. Len(new) /\ At(new, h) = At(w, h)
  <2>1. h \in 1 .. Len(w) - 1 /\ h \in 1 .. Len(new)
    BY <1>2, <1>4
  <2> QED BY <1>1, <2>1 DEF Becomes
<1>5. ASSUME NEW k \in 1 .. Len(s)
      PROVE  /\ Len(new) + 1 - k \in 1 .. Len(new) /\ Len(new) + 1 - k >= Len(w)
             /\ At(new, Len(new) + 1 - k) = EntryFor(s[k], owner, part)
  <2> DEFINE h == Len(new) + 1 - k
  <2>1. h \in 1 .. Len(new) /\ h >= Len(w) /\ h \in Len(w) .. Len(new) /\ Len(new) + 1 - h = k
    BY <1>2
  <2>2. At(new, h) = EntryFor(s[Len(new) + 1 - h], owner, part)
    BY <1>1, <2>1 DEF Becomes
  <2> QED BY <2>1, <2>2
<1>6. \A h \in 1 .. Len(w) :
        h = Len(w) \/ (h \in 1 .. Len(w) - 1 /\ h \in 1 .. Len(new) /\ At(new, h) = At(w, h))
  BY <1>4
<1> QED BY <1>2, <1>3, <1>5, <1>6 DEF Moves

\* The actions, by what they put in the head's place: nothing, ...
Drops(op) ==
    /\ work # <<>> /\ Head(work).op = op
    /\ Moves(work, <<>>, Head(work).owner, Head(work).part, work')

LEMMA DropStep ==
    ASSUME Sound, NEW op, Evaluate(op), Do(<<>>)
    PROVE  Drops(op)
<1>1. work # <<>> /\ Head(work).op = op
  BY DEF Evaluate
<1>2. Replacement(work, <<>>, Head(work).owner, Head(work).part, work')
  <2> DEFINE none == <<>>
  <2>1. none \in Seq(Task) /\ Do(none)
    OBVIOUS
  <2> HIDE DEF none
  <2>2. Replacement(work, none, Head(work).owner, Head(work).part, work')
    BY <1>1, <2>1, DoReplaces
  <2> QED BY <2>2 DEF none
<1> QED BY <1>1, <1>2, Moved DEF Drops

\* ... a list and the generator itself, ...
Lists(s, op, names, again) ==
    /\ work # <<>> /\ Head(work).op = again
    /\ AgainList(s, op, names, again)
    /\ Moves(work, s, Head(work).owner, Head(work).part, work')

LEMMA ModulesStep ==
    ASSUME Sound, GenerateModules
    PROVE  \E s : Lists(s, "generate", MODULES \ MODULES_GENERATED, "modules")
<1> DEFINE names == MODULES \ MODULES_GENERATED
           s == Again("generate", names, "modules")
<1>1. work # <<>> /\ Head(work).op = "modules"
  BY DEF GenerateModules, Evaluate
<1>2. Do(s)
  BY DEF GenerateModules, Again
<1> HIDE DEF names
<1>3. AgainList(s, "generate", names, "modules")
  <2>1. "generate" \in Ops /\ "modules" \in Ops
    BY DEF Ops
  <2> QED BY <2>1, AgainFacts DEF Sound, Typed
<1> HIDE DEF s
<1>4. Replacement(work, s, Head(work).owner, Head(work).part, work')
  BY <1>1, <1>2, <1>3, DoReplaces DEF AgainList
<1>5. Lists(s, "generate", names, "modules")
  BY <1>1, <1>3, <1>4, Moved DEF Lists
<1> QED BY <1>5 DEF names

LEMMA SubmodulesStep ==
    ASSUME Sound, GenerateSubmodules
    PROVE  \E s : Lists(s, "submodule", SUBMODULES \ SUBMODULES_GENERATED, "submodules")
<1> DEFINE names == SUBMODULES \ SUBMODULES_GENERATED
           s == Again("submodule", names, "submodules")
<1>1. work # <<>> /\ Head(work).op = "submodules"
  BY DEF GenerateSubmodules, Evaluate
<1>2. Do(s)
  BY DEF GenerateSubmodules, Again
<1> HIDE DEF names
<1>3. AgainList(s, "submodule", names, "submodules")
  <2>1. "submodule" \in Ops /\ "submodules" \in Ops
    BY DEF Ops
  <2> QED BY <2>1, AgainFacts DEF Sound, Typed
<1> HIDE DEF s
<1>4. Replacement(work, s, Head(work).owner, Head(work).part, work')
  BY <1>1, <1>2, <1>3, DoReplaces DEF AgainList
<1>5. Lists(s, "submodule", names, "submodules")
  BY <1>1, <1>3, <1>4, Moved DEF Lists
<1> QED BY <1>5 DEF names

\* ... or a makefile.
Enters(s, f, owner, part, op, b, c) ==
    /\ work # <<>> /\ Head(work).op = op
    /\ ThenList(s, f, "submodules", b, c)
    /\ Moves(work, s, owner, part, work')

LEMMA ModuleStep ==
    ASSUME Sound, GenerateModule
    PROVE  /\ Arg \in Files /\ Head(work).part = NONE
           /\ \A k \in 1 .. Len(project.files[Arg]) :
                project.files[Arg][k] \in Statement /\ LineOK(project.files[Arg], k)
           /\ \E s : Enters(s, project.files[Arg], Arg, NONE, "generate", "define", "leave")
<1> DEFINE f == project.files[Arg]
           s == Then(f, "submodules", "define", "leave")
<1>1. Evaluate("generate")
  BY DEF GenerateModule
<1>2. /\ work # <<>> /\ Head(work).op = "generate" /\ work \in Seq(Entry)
      /\ Arg \in Files /\ Arg \in Name /\ Head(work).part = NONE
  BY <1>1, EvaluateFacts
<1>3. work' = Owned(s, Arg, NONE) \o Tail(work)
  BY DEF GenerateModule, Then
<1>4. /\ ThenList(s, f, "submodules", "define", "leave")
      /\ \A k \in 1 .. Len(f) : f[k] \in Statement /\ LineOK(f, k)
  BY <1>2, ModuleTasks DEF Sound, Typed
<1>5. NONE \in Name
  BY EmptySeq DEF Name, NONE
<1> HIDE DEF s
<1>6. Replacement(work, s, Arg, NONE, work')
  BY <1>2, <1>3, <1>4, <1>5 DEF Replacement, ThenList
<1>7. Enters(s, f, Arg, NONE, "generate", "define", "leave")
  BY <1>2, <1>4, <1>6, Moved DEF Enters
<1> QED BY <1>2, <1>4, <1>7

LEMMA SubmoduleStep ==
    ASSUME Sound, GenerateSubmodule
    PROVE  /\ Path \in Paths /\ Path = Head(work).owner \o (Head(work).part \o Arg)
           /\ Head(work).part \o Arg # NONE
           /\ \A k \in 1 .. Len(project.parts[Path]) :
                project.parts[Path][k] \in PartStatement /\ LineOK(project.parts[Path], k)
           /\ \E s : Enters(s, project.parts[Path], Head(work).owner, Head(work).part \o Arg,
                            "submodule", "append", "leave_sub")
<1> DEFINE f == project.parts[Path]
           s == Then(f, "submodules", "append", "leave_sub")
           part == Head(work).part \o Arg
           owner == Head(work).owner
<1>1. Evaluate("submodule") /\ Path \in Paths
  BY DEF GenerateSubmodule, Paths
<1>2. /\ work # <<>> /\ Head(work).op = "submodule" /\ work \in Seq(Entry)
      /\ owner \in Name
  BY <1>1, EvaluateFacts
<1>3. Path = owner \o part /\ part \in Name \ {NONE}
  BY <1>1, PathFacts
<1>4. work' = Owned(s, owner, part) \o Tail(work)
  BY DEF GenerateSubmodule, Then
<1>5. /\ ThenList(s, f, "submodules", "append", "leave_sub")
      /\ \A k \in 1 .. Len(f) : f[k] \in PartStatement /\ LineOK(f, k)
  BY <1>1, SubmoduleTasks DEF Sound, Typed
<1> HIDE DEF s, part, owner
<1>6. Replacement(work, s, owner, part, work')
  BY <1>2, <1>3, <1>4, <1>5 DEF Replacement, ThenList
<1>7. Enters(s, f, owner, part, "submodule", "append", "leave_sub")
  BY <1>2, <1>5, <1>6, Moved DEF Enters
<1> QED BY <1>1, <1>3, <1>5, <1>7 DEF part, owner

-----------------------------------------------------------------------------
\* The head makes way for entries that define nothing.
LEMMA DefiningKept ==
    ASSUME NEW w, NEW s, NEW owner, NEW part, NEW new, Moves(w, s, owner, part, new),
           NEW generated, NEW list, DefiningFor(w, generated, list),
           Head(w).op # "define", Lacks(s, "define")
    PROVE  DefiningFor(new, generated, list)
<1>1. ASSUME NEW h \in 1 .. Len(new), At(new, h).op = "define"
      PROVE  h \in 1 .. Len(w) /\ At(new, h) = At(w, h)
  <2>1. CASE h \in 1 .. Len(w) - 1 /\ At(new, h) = At(w, h)
    BY <2>1 DEF Moves
  <2>2. CASE /\ Len(new) + 1 - h \in 1 .. Len(s)
             /\ At(new, h) = EntryFor(s[Len(new) + 1 - h], owner, part)
    BY <1>1, <2>2 DEF EntryFor, Lacks
  <2> QED BY <2>1, <2>2 DEF Moves
<1>2. ASSUME NEW h \in 1 .. Len(w), At(w, h).op = "define"
      PROVE  h \in 1 .. Len(new) /\ At(new, h) = At(w, h)
  BY <1>2 DEF Moves
<1>3. \A h \in 1 .. Len(new) :
        At(new, h).op = "define" => At(new, h).owner \in generated \ Entered(list)
  BY <1>1 DEF DefiningFor
<1>4. \A g, h \in 1 .. Len(new) :
        At(new, g).op = "define" /\ At(new, h).op = "define" /\ At(new, g).owner = At(new, h).owner
          => g = h
  BY <1>1 DEF DefiningFor
<1>5. ASSUME NEW m \in generated \ Entered(list)
      PROVE  \E h \in 1 .. Len(new) : At(new, h).op = "define" /\ At(new, h).owner = m
  <2>1. PICK h \in 1 .. Len(w) : At(w, h).op = "define" /\ At(w, h).owner = m
    BY DEF DefiningFor
  <2> QED BY <1>2, <2>1
<1> QED BY <1>3, <1>4, <1>5 DEF DefiningFor

\* A module is generated.
LEMMA DefiningBegins ==
    ASSUME NEW w, NEW s, NEW m, NEW new, Moves(w, s, m, NONE, new),
           NEW generated, NEW list, DefiningFor(w, generated, list),
           Head(w).op # "define", m \notin generated,
           NEW d \in 1 .. Len(s), \A k \in 1 .. Len(s) : s[k].op = "define" <=> k = d
    PROVE  DefiningFor(new, generated \cup {m}, list)
<1> DEFINE top == Len(new) + 1 - d
<1>1. ASSUME NEW h \in 1 .. Len(new), At(new, h).op = "define"
      PROVE  \/ h \in 1 .. Len(w) /\ At(new, h) = At(w, h)
             \/ h = top /\ At(new, h).owner = m
  <2>1. CASE h \in 1 .. Len(w) - 1 /\ At(new, h) = At(w, h)
    BY <2>1 DEF Moves
  <2>2. CASE /\ Len(new) + 1 - h \in 1 .. Len(s)
             /\ At(new, h) = EntryFor(s[Len(new) + 1 - h], m, NONE)
    <3>1. s[Len(new) + 1 - h].op = "define" /\ At(new, h).owner = m
      BY <1>1, <2>2 DEF EntryFor
    <3>2. Len(new) + 1 - h = d
      BY <2>2, <3>1
    <3>3. h = top
      BY <3>2 DEF Moves
    <3> QED BY <3>1, <3>3
  <2> QED BY <2>1, <2>2 DEF Moves
<1>2. ASSUME NEW h \in 1 .. Len(w), At(w, h).op = "define"
      PROVE  h \in 1 .. Len(new) /\ At(new, h) = At(w, h)
  BY <1>2 DEF Moves
<1>3. top \in 1 .. Len(new) /\ At(new, top).op = "define" /\ At(new, top).owner = m
  <2>1. top \in 1 .. Len(new) /\ At(new, top) = EntryFor(s[d], m, NONE)
    BY DEF Moves
  <2>2. s[d].op = "define"
    OBVIOUS
  <2> HIDE DEF top
  <2> QED BY <2>1, <2>2 DEF EntryFor
<1> HIDE DEF top
<1>4. \A h \in 1 .. Len(w) : At(w, h).op = "define" => At(w, h).owner # m
  BY DEF DefiningFor
<1>5. m \notin Entered(list) /\ Entered(list) \subseteq generated \cup {m}
  BY DEF DefiningFor
<1>6. \A h \in 1 .. Len(new) :
        At(new, h).op = "define" => At(new, h).owner \in (generated \cup {m}) \ Entered(list)
  BY <1>1, <1>5 DEF DefiningFor
<1>7. \A g, h \in 1 .. Len(new) :
        At(new, g).op = "define" /\ At(new, h).op = "define" /\ At(new, g).owner = At(new, h).owner
          => g = h
  BY <1>1, <1>4 DEF DefiningFor
<1>8. ASSUME NEW l \in (generated \cup {m}) \ Entered(list)
      PROVE  \E h \in 1 .. Len(new) : At(new, h).op = "define" /\ At(new, h).owner = l
  <2>1. CASE l = m
    BY <1>3, <2>1
  <2>2. CASE l # m
    <3>1. PICK h \in 1 .. Len(w) : At(w, h).op = "define" /\ At(w, h).owner = l
      BY <2>2 DEF DefiningFor
    <3> QED BY <1>2, <3>1
  <2> QED BY <2>1, <2>2
<1> QED BY <1>5, <1>6, <1>7, <1>8 DEF DefiningFor

\* A module's rules are defined.
LEMMA DefiningEnds ==
    ASSUME NEW w, NEW new, Moves(w, <<>>, Head(w).owner, Head(w).part, new),
           NEW T, NEW generated, NEW list \in Seq(T), Head(w).owner \in T,
           DefiningFor(w, generated, list), Head(w).op = "define"
    PROVE  DefiningFor(new, generated, Append(list, Head(w).owner))
<1> DEFINE m == Head(w).owner
           now == Append(list, m)
<1>1. /\ Len(w) \in Nat \ {0} /\ Len(new) = Len(w) - 1 /\ Head(w) = At(w, Len(w))
      /\ Len(w) \in 1 .. Len(w)
  BY DEF Moves
<1>2. \A h \in 1 .. Len(new) : h \in 1 .. Len(w) /\ h # Len(w) /\ At(new, h) = At(w, h)
  <2>1. ASSUME NEW h \in 1 .. Len(new)
        PROVE  h \in 1 .. Len(w) /\ h # Len(w) /\ At(new, h) = At(w, h)
    <3>1. h \in 1 .. Len(w) /\ h # Len(w)
      BY <1>1
    <3> QED BY <3>1 DEF Moves
  <2> QED BY <2>1
<1>3. \A h \in 1 .. Len(w) : h = Len(w) \/ h \in 1 .. Len(new)
  BY <1>1
<1>4. m \in generated \ Entered(list)
  BY <1>1 DEF DefiningFor
<1>5. /\ DOMAIN list = 1 .. Len(list) /\ DOMAIN now = 1 .. Len(list) + 1 /\ Len(list) \in Nat
      /\ now[Len(list) + 1] = m
      /\ \A i \in 1 .. Len(list) : now[i] = list[i]
  OBVIOUS
<1>6. \A i \in DOMAIN now : i = Len(list) + 1 \/ i \in 1 .. Len(list)
  BY <1>5
<1>7. Len(list) + 1 \in DOMAIN now /\ \A i \in 1 .. Len(list) : i \in DOMAIN now
  BY <1>5
<1> HIDE DEF now
<1>8. Entered(now) = Entered(list) \cup {m}
  BY <1>5, <1>6, <1>7 DEF Entered
<1>9. \A i, j \in DOMAIN now : now[i] = now[j] => i = j
  <2>1. \A i \in 1 .. Len(list) : list[i] # m
    BY <1>4, <1>5 DEF Entered
  <2>2. \A i, j \in 1 .. Len(list) : list[i] = list[j] => i = j
    BY <1>5 DEF DefiningFor
  <2> QED BY <1>5, <1>6, <2>1, <2>2
<1>10. \A h \in 1 .. Len(new) :
        At(new, h).op = "define" => At(new, h).owner \in generated \ Entered(now)
  <2>1. ASSUME NEW h \in 1 .. Len(new), At(new, h).op = "define"
        PROVE  At(new, h).owner \in generated \ Entered(list) /\ At(new, h).owner # m
    <3>1. h \in 1 .. Len(w) /\ h # Len(w) /\ At(w, h).op = "define" /\ At(new, h) = At(w, h)
      BY <1>2, <2>1
    <3> QED BY <1>1, <3>1 DEF DefiningFor
  <2> QED BY <1>8, <2>1
<1>11. \A g, h \in 1 .. Len(new) :
        At(new, g).op = "define" /\ At(new, h).op = "define" /\ At(new, g).owner = At(new, h).owner
          => g = h
  BY <1>2 DEF DefiningFor
<1>12. ASSUME NEW l \in generated \ Entered(now)
      PROVE  \E h \in 1 .. Len(new) : At(new, h).op = "define" /\ At(new, h).owner = l
  <2>1. l # m /\ l \in generated \ Entered(list)
    BY <1>8
  <2>2. PICK h \in 1 .. Len(w) : At(w, h).op = "define" /\ At(w, h).owner = l
    BY <2>1 DEF DefiningFor
  <2>3. h \in 1 .. Len(new)
    BY <1>1, <1>3, <2>1, <2>2
  <2> QED BY <1>2, <2>2, <2>3
<1>13. Entered(now) \subseteq generated
  BY <1>4, <1>8 DEF DefiningFor
<1> QED BY <1>9, <1>10, <1>11, <1>12, <1>13 DEF DefiningFor, now

LEMMA DefiningInit == ASSUME Init PROVE Defining
<1>1. Len(work) = 1 /\ At(work, 1).op = "modules"
  BY DEF Init, Owned, At
<1>2. \A h \in 1 .. Len(work) : At(work, h).op = "modules"
  BY <1>1
<1>3. MODULES_GENERATED = {} /\ DOMAIN defined = {}
  BY DEF Init
<1> QED BY <1>2, <1>3 DEF Defining, DefiningFor, Entered

LEMMA DefiningNext == ASSUME Sound, Defining, [Next]_vars PROVE Defining'
<1> DEFINE none == <<>>
           drop == \/ GeneratedAlready \/ LeaveModule \/ SubmoduleGeneratedAlready
                   \/ LeaveSubmodule \/ Want \/ Part \/ NoParts \/ Set
<1>1. DefiningFor(work, MODULES_GENERATED, defined)
  BY DEF Defining
<1>2. CASE drop
  <2>1. PICK op : op # "define" /\ Evaluate(op) /\ Do(<<>>)
    BY <1>2 DEF GeneratedAlready, LeaveModule, SubmoduleGeneratedAlready,
                LeaveSubmodule, Want, Part, NoParts, Set, Evaluate
  <2>2. Moves(work, none, Head(work).owner, Head(work).part, work') /\ Head(work).op # "define"
    BY <2>1, DropStep DEF Drops
  <2>3. Lacks(none, "define")
    BY DEF Lacks
  <2>4. MODULES_GENERATED' = MODULES_GENERATED /\ defined' = defined
    BY <1>2 DEF GeneratedAlready, LeaveModule, SubmoduleGeneratedAlready,
                LeaveSubmodule, Want, Part, NoParts, Set, modules
  <2> HIDE DEF none
  <2>5. DefiningFor(work', MODULES_GENERATED, defined)
    BY <1>1, <2>2, <2>3, DefiningKept
  <2> QED BY <2>4, <2>5 DEF Defining
<1>3. CASE GenerateModules
  <2>1. PICK s : Lists(s, "generate", MODULES \ MODULES_GENERATED, "modules")
    BY <1>3, ModulesStep
  <2>2. /\ Moves(work, s, Head(work).owner, Head(work).part, work')
        /\ Head(work).op # "define" /\ Lacks(s, "define")
    BY <2>1 DEF Lists, AgainList, Lacks
  <2>3. DefiningFor(work', MODULES_GENERATED, defined)
    BY <1>1, <2>2, DefiningKept
  <2> QED BY <1>3, <2>3 DEF Defining, GenerateModules
<1>4. CASE GenerateSubmodules
  <2>1. PICK s : Lists(s, "submodule", SUBMODULES \ SUBMODULES_GENERATED, "submodules")
    BY <1>4, SubmodulesStep
  <2>2. /\ Moves(work, s, Head(work).owner, Head(work).part, work')
        /\ Head(work).op # "define" /\ Lacks(s, "define")
    BY <2>1 DEF Lists, AgainList, Lacks
  <2>3. DefiningFor(work', MODULES_GENERATED, defined)
    BY <1>1, <2>2, DefiningKept
  <2> QED BY <1>4, <2>3 DEF Defining, GenerateSubmodules, modules
<1>5. CASE GenerateSubmodule
  <2> DEFINE f == project.parts[Path]
             owner == Head(work).owner
             part == Head(work).part \o Arg
  <2>1. /\ \A k \in 1 .. Len(f) : f[k] \in PartStatement /\ LineOK(f, k)
        /\ \E s : Enters(s, f, owner, part, "submodule", "append", "leave_sub")
    BY <1>5, SubmoduleStep
  <2> HIDE DEF f, owner, part
  <2>2. PICK s : Enters(s, f, owner, part, "submodule", "append", "leave_sub")
    BY <2>1
  <2>3. Moves(work, s, owner, part, work') /\ Head(work).op # "define"
    BY <2>2 DEF Enters
  <2>4. Lacks(s, "define")
    <3>1. \A k \in 1 .. Len(s) :
            k \in 1 .. Len(f) \/ k = Len(f) + 1 \/ k = Len(f) + 2 \/ k = Len(f) + 3
      BY <2>2 DEF Enters, ThenList
    <3>2. \A k \in 1 .. Len(f) : s[k].op \in {"part", "noparts", "set"}
      BY <2>1, <2>2 DEF Enters, ThenList, PartStatement
    <3> QED BY <2>2, <3>1, <3>2 DEF Enters, ThenList, Lacks
  <2>5. DefiningFor(work', MODULES_GENERATED, defined)
    BY <1>1, <2>3, <2>4, DefiningKept
  <2> QED BY <1>5, <2>5 DEF Defining, GenerateSubmodule, modules
<1>6. CASE GenerateModule
  <2> DEFINE f == project.files[Arg]
  <2>1. /\ \A k \in 1 .. Len(f) : f[k] \in Statement /\ LineOK(f, k)
        /\ \E s : Enters(s, f, Arg, NONE, "generate", "define", "leave")
    BY <1>6, ModuleStep
  <2> HIDE DEF f
  <2>2. PICK s : Enters(s, f, Arg, NONE, "generate", "define", "leave")
    BY <2>1
  <2>3. Moves(work, s, Arg, NONE, work') /\ Head(work).op # "define"
    BY <2>2 DEF Enters
  <2>4. Len(f) + 2 \in 1 .. Len(s) /\ \A k \in 1 .. Len(s) : s[k].op = "define" <=> k = Len(f) + 2
    <3>1. \A k \in 1 .. Len(s) :
            k \in 1 .. Len(f) \/ k = Len(f) + 1 \/ k = Len(f) + 2 \/ k = Len(f) + 3
      BY <2>2 DEF Enters, ThenList
    <3>2. \A k \in 1 .. Len(f) : s[k].op \in {"generate", "want", "part", "noparts", "set"}
      BY <2>1, <2>2 DEF Enters, ThenList, Statement
    <3>3. Len(f) \in Nat /\ Len(s) = Len(f) + 3
      BY <2>2 DEF Enters, ThenList
    <3>4. /\ s[Len(f) + 1].op = "submodules" /\ s[Len(f) + 2].op = "define"
          /\ s[Len(f) + 3].op = "leave"
      BY <2>2 DEF Enters, ThenList
    <3>5. \A k \in 1 .. Len(f) : k # Len(f) + 2
      BY <3>3
    <3> QED BY <3>1, <3>2, <3>3, <3>4, <3>5
  <2>5. Arg \notin MODULES_GENERATED /\ MODULES_GENERATED' = MODULES_GENERATED \cup {Arg}
        /\ defined' = defined
    BY <1>6 DEF GenerateModule
  <2>6. DefiningFor(work', MODULES_GENERATED \cup {Arg}, defined)
    BY <1>1, <2>3, <2>4, <2>5, DefiningBegins
  <2> QED BY <2>5, <2>6 DEF Defining
<1>7. CASE DefineModule
  <2>1. Drops("define")
    BY <1>7, DropStep DEF DefineModule
  <2>2. /\ Moves(work, <<>>, Head(work).owner, Head(work).part, work')
        /\ Head(work).op = "define"
    BY <2>1 DEF Drops
  <2>3. ModuleName = Head(work).owner /\ ModuleName \in Files \cup {NONE}
    BY <2>1, HeadRuns DEF Drops, Sound, Typed, Stacked
  <2>4. /\ defined' = Append(defined, Head(work).owner) /\ MODULES_GENERATED' = MODULES_GENERATED
        /\ defined \in Seq(Files \cup {NONE})
    BY <1>7, <2>3 DEF DefineModule, modules, Sound, Typed
  <2>5. DefiningFor(work', MODULES_GENERATED, Append(defined, Head(work).owner))
    BY <1>1, <2>2, <2>3, <2>4, DefiningEnds
  <2> QED BY <2>4, <2>5 DEF Defining
<1>8. CASE UNCHANGED vars
  BY <1>1, <1>8 DEF vars, modules, Defining
<1> QED BY <1>2, <1>3, <1>4, <1>5, <1>6, <1>7, <1>8 DEF Next

-----------------------------------------------------------------------------
LEMMA ReachableFacts ==
    ASSUME project \in Projects
    PROVE  /\ project.root \in Reachable
           /\ \A m \in Reachable : \A u \in Uses(m) : u \in Reachable
           /\ \A m \in Files : Uses(m) \subseteq Files
           /\ \A ms \in SUBSET Files : Closed(ms) => Reachable \subseteq ms
<1>1. project.root \in Files
  BY ProjectFacts
<1>2. ASSUME NEW m \in Files, NEW u \in Uses(m) PROVE u \in Files
  <2> DEFINE f == project.files[m]
  <2>1. f \in Seq(Statement) /\ \A k \in 1 .. Len(f) : LineOK(f, k)
    BY ProjectFacts, Lines
  <2>2. u \in Args({"generate", "want"}, f)
    BY DEF Uses
  <2> HIDE DEF f
  <2>3. PICK k \in DOMAIN f : f[k].op \in {"generate", "want"} /\ u = f[k].arg
    BY <2>2 DEF Args
  <2>4. k \in 1 .. Len(f)
    BY <2>1
  <2> QED BY <2>1, <2>3, <2>4 DEF LineOK
<1>3. project.root \in Reachable
  BY <1>1 DEF Reachable, Closed
<1>4. ASSUME NEW m \in Reachable, NEW u \in Uses(m) PROVE u \in Reachable
  <2>1. u \in Files
    BY <1>2 DEF Reachable
  <2> QED BY <2>1 DEF Reachable, Closed
<1>5. \A ms \in SUBSET Files : Closed(ms) => Reachable \subseteq ms
  BY DEF Reachable
<1> QED BY <1>2, <1>3, <1>4, <1>5

\* What does not change.
LEMMA Constantly ==
    ASSUME project' = project
    PROVE  /\ Reachable' = Reachable
           /\ \A m : Uses(m)' = Uses(m)
           /\ \A c : PartsIn(c)' = PartsIn(c)
           /\ Files' = Files /\ Paths' = Paths
BY DEF Reachable, Closed, Uses, PartsIn, Args, Files, Paths

\* A module that is to come keeps coming, unless it was the head's and is lost.
LEMMA ListedKept ==
    ASSUME NEW w, NEW s, NEW owner, NEW part, NEW new, Moves(w, s, owner, part, new), NEW m
    PROVE  /\ Listed(w, m) => \/ Listed(new, m)
                              \/ Head(w).op \in {"generate", "want"} /\ Head(w).arg = m
           /\ \A k \in 1 .. Len(s) :
                s[k].op \in {"generate", "want"} /\ s[k].arg = m => Listed(new, m)
<1>1. ASSUME Listed(w, m), ~ (Head(w).op \in {"generate", "want"} /\ Head(w).arg = m)
      PROVE  Listed(new, m)
  <2>1. PICK h \in 1 .. Len(w) : At(w, h).op \in {"generate", "want"} /\ At(w, h).arg = m
    BY <1>1 DEF Listed
  <2>2. h # Len(w)
    BY <1>1, <2>1 DEF Moves
  <2>3. h \in 1 .. Len(new) /\ At(new, h) = At(w, h)
    BY <2>2 DEF Moves
  <2> QED BY <2>1, <2>3 DEF Listed
<1>2. ASSUME NEW k \in 1 .. Len(s), s[k].op \in {"generate", "want"}, s[k].arg = m
      PROVE  Listed(new, m)
  <2> DEFINE h == Len(new) + 1 - k
  <2>1. h \in 1 .. Len(new) /\ At(new, h) = EntryFor(s[k], owner, part)
    BY DEF Moves
  <2> HIDE DEF h
  <2>2. At(new, h).op \in {"generate", "want"} /\ At(new, h).arg = m
    BY <1>2, <2>1 DEF EntryFor
  <2> QED BY <2>1, <2>2 DEF Listed
<1> QED BY <1>1, <1>2

\* All entries have a property when those that come have it.
Wanted(w, reachable) ==
    \A h \in 1 .. Len(w) : At(w, h).op \in {"generate", "want"} => At(w, h).arg \in reachable

LEMMA WantedKept ==
    ASSUME NEW w, NEW s, NEW owner, NEW part, NEW new, Moves(w, s, owner, part, new),
           NEW reachable, Wanted(w, reachable),
           \A k \in 1 .. Len(s) : s[k].op \in {"generate", "want"} => s[k].arg \in reachable
    PROVE  Wanted(new, reachable)
<1>1. ASSUME NEW h \in 1 .. Len(new), At(new, h).op \in {"generate", "want"}
      PROVE  At(new, h).arg \in reachable
  <2>1. CASE h \in 1 .. Len(w) - 1 /\ At(new, h) = At(w, h)
    <3>1. h \in 1 .. Len(w)
      BY <2>1 DEF Moves
    <3> QED BY <1>1, <2>1, <3>1 DEF Wanted
  <2>2. CASE /\ Len(new) + 1 - h \in 1 .. Len(s)
             /\ At(new, h) = EntryFor(s[Len(new) + 1 - h], owner, part)
    BY <1>1, <2>2 DEF EntryFor
  <2> QED BY <2>1, <2>2 DEF Moves
<1> QED BY <1>1 DEF Wanted

LEMMA HeadWanted ==
    ASSUME NEW w, NEW s, NEW owner, NEW part, NEW new, Moves(w, s, owner, part, new),
           NEW reachable, Wanted(w, reachable), Head(w).op \in {"generate", "want"}
    PROVE  Head(w).arg \in reachable
<1>1. Len(w) \in 1 .. Len(w) /\ Head(w) = At(w, Len(w))
  BY DEF Moves
<1> QED BY <1>1 DEF Wanted

LEMMA ReachingInit == ASSUME Init PROVE Reaching
<1>1. Len(work) = 1 /\ At(work, 1).op = "modules"
  BY DEF Init, Owned, At
<1>2. \A h \in 1 .. Len(work) : At(work, h).op = "modules"
  BY <1>1
<1>3. project.root \in Reachable
  BY ReachableFacts DEF Init
<1> QED BY <1>2, <1>3 DEF Init, Reaching, Coming

\* How Coming carries Reaching over a step.
LEMMA ReachingStep ==
    ASSUME Sound, Reaching, project' = project,
           MODULES' \cup MODULES_GENERATED' \subseteq Reachable, Wanted(work', Reachable),
           \A m : Coming(m) => Coming(m)',
           \A m \in MODULES_GENERATED' \ MODULES_GENERATED : \A u \in Uses(m) : Coming(u)'
    PROVE  Reaching'
<1>1. Reachable' = Reachable /\ \A m : Uses(m)' = Uses(m)
  BY Constantly
<1>2. Coming(project.root)'
  <2>1. Coming(project.root)
    BY DEF Reaching
  <2>2. \A m : m = project.root => Coming(m)'
    BY <2>1
  <2> QED BY <2>2 DEF Coming
<1>3. \A m \in MODULES_GENERATED' : \A u \in Uses(m) : Coming(u)'
  BY DEF Reaching
<1> QED BY <1>1, <1>2, <1>3 DEF Reaching, Wanted

LEMMA ReachingNext == ASSUME Sound, Reaching, [Next]_vars PROVE Reaching'
<1> DEFINE none == <<>>
<1>1. Wanted(work, Reachable) /\ MODULES \cup MODULES_GENERATED \subseteq Reachable
  BY DEF Reaching, Wanted
<1>2. Sound => project \in Projects
  BY DEF Sound, Typed
<1>3. CASE GenerateModules
  <2>1. PICK s : Lists(s, "generate", MODULES \ MODULES_GENERATED, "modules")
    BY <1>3, ModulesStep
  <2>2. /\ Moves(work, s, Head(work).owner, Head(work).part, work')
        /\ Head(work).op = "modules"
        /\ AgainList(s, "generate", MODULES \ MODULES_GENERATED, "modules")
    BY <2>1 DEF Lists
  <2>3. /\ project' = project /\ MODULES' = {} /\ MODULES_GENERATED' = MODULES_GENERATED
    BY <1>3 DEF GenerateModules
  <2>4. Wanted(work', Reachable)
    <3>1. \A k \in 1 .. Len(s) : s[k].op \in {"generate", "want"} => s[k].arg \in Reachable
      BY <1>1, <2>2 DEF AgainList
    <3> QED BY <1>1, <2>2, <3>1, WantedKept
  <2>5. ASSUME NEW m, Coming(m) PROVE Coming(m)'
    <3>1. CASE m \in MODULES_GENERATED
      BY <2>3, <3>1 DEF Coming
    <3>2. CASE m \in MODULES \ MODULES_GENERATED
      <4>1. InOrder(m)
        BY <3>2, ProjectFacts DEF Sound, Typed
      <4>2. PICK k \in 1 .. Len(s) : s[k].op = "generate" /\ s[k].arg = m
        BY <2>2, <3>2, <4>1 DEF AgainList
      <4>3. Listed(work', m)
        BY <2>2, <4>2, ListedKept
      <4> QED BY <4>3 DEF Coming
    <3>3. CASE Listed(work, m)
      <4>1. Listed(work', m)
        BY <2>2, <3>3, ListedKept
      <4> QED BY <4>1 DEF Coming
    <3> QED BY <2>5, <3>1, <3>2, <3>3 DEF Coming
  <2> QED BY <1>1, <2>3, <2>4, <2>5, ReachingStep
<1>4. CASE GenerateSubmodules
  <2>1. PICK s : Lists(s, "submodule", SUBMODULES \ SUBMODULES_GENERATED, "submodules")
    BY <1>4, SubmodulesStep
  <2>2. /\ Moves(work, s, Head(work).owner, Head(work).part, work')
        /\ Head(work).op = "submodules"
        /\ \A k \in 1 .. Len(s) : s[k].op \notin {"generate", "want"}
    BY <2>1 DEF Lists, AgainList
  <2>3. /\ project' = project /\ MODULES' = MODULES /\ MODULES_GENERATED' = MODULES_GENERATED
    BY <1>4 DEF GenerateSubmodules, modules
  <2>4. Wanted(work', Reachable)
    BY <1>1, <2>2, WantedKept
  <2>5. ASSUME NEW m, Coming(m) PROVE Coming(m)'
    <3>1. Listed(work, m) => Listed(work', m)
      BY <2>2, ListedKept
    <3> QED BY <2>3, <2>5, <3>1 DEF Coming
  <2> QED BY <1>1, <2>3, <2>4, <2>5, ReachingStep
<1>5. CASE GenerateModule
  <2> DEFINE f == project.files[Arg]
  <2>1. /\ \A k \in 1 .. Len(f) : f[k] \in Statement /\ LineOK(f, k)
        /\ \E s : Enters(s, f, Arg, NONE, "generate", "define", "leave")
        /\ Arg \in Files
    BY <1>5, ModuleStep
  <2>2. Uses(Arg) = Args({"generate", "want"}, f)
    BY DEF Uses
  <2>3. DOMAIN f = 1 .. Len(f)
    BY <2>1, ProjectFacts DEF Sound, Typed
  <2> HIDE DEF f
  <2>4. PICK s : Enters(s, f, Arg, NONE, "generate", "define", "leave")
    BY <2>1
  <2>5. Moves(work, s, Arg, NONE, work') /\ Head(work).op = "generate" /\ Head(work).arg = Arg
    BY <2>4 DEF Enters, Arg
  <2>6. /\ \A k \in 1 .. Len(f) : k \in 1 .. Len(s) /\ s[k] = f[k]
        /\ \A k \in 1 .. Len(s) : k \in 1 .. Len(f) \/ s[k].op \in {"submodules", "define", "leave"}
    <3>1. \A k \in 1 .. Len(s) :
            k \in 1 .. Len(f) \/ k = Len(f) + 1 \/ k = Len(f) + 2 \/ k = Len(f) + 3
      BY <2>4 DEF Enters, ThenList
    <3> QED BY <2>4, <3>1 DEF Enters, ThenList
  <2>7. /\ project' = project /\ MODULES' = MODULES
        /\ MODULES_GENERATED' = MODULES_GENERATED \cup {Arg}
    BY <1>5 DEF GenerateModule
  <2>8. Arg \in Reachable
    BY <1>1, <2>5, HeadWanted
  <2>9. Wanted(work', Reachable)
    <3>1. ASSUME NEW k \in 1 .. Len(s), s[k].op \in {"generate", "want"}
          PROVE  s[k].arg \in Reachable
      <4>1. k \in DOMAIN f /\ s[k] = f[k]
        BY <2>3, <2>6, <3>1
      <4>2. s[k].arg \in Uses(Arg)
        BY <2>2, <3>1, <4>1 DEF Args
      <4> QED BY <1>2, <2>8, <4>2, ReachableFacts
    <3> QED BY <1>1, <2>5, <3>1, WantedKept
  <2>10. ASSUME NEW m, Coming(m) PROVE Coming(m)'
    <3>1. Listed(work, m) => Listed(work', m) \/ m = Arg
      BY <2>5, ListedKept
    <3> QED BY <2>7, <2>10, <3>1 DEF Coming
  <2>11. ASSUME NEW m \in MODULES_GENERATED' \ MODULES_GENERATED, NEW u \in Uses(m)
         PROVE  Coming(u)'
    <3>1. m = Arg
      BY <2>7
    <3>2. PICK k \in DOMAIN f : f[k].op \in {"generate", "want"} /\ u = f[k].arg
      BY <2>2, <3>1 DEF Args
    <3>3. k \in 1 .. Len(s) /\ s[k].op \in {"generate", "want"} /\ s[k].arg = u
      BY <2>3, <2>6, <3>2
    <3>4. Listed(work', u)
      BY <2>5, <3>3, ListedKept
    <3> QED BY <3>4 DEF Coming
  <2>12. MODULES' \cup MODULES_GENERATED' \subseteq Reachable
    BY <1>1, <2>7, <2>8
  <2> QED BY <2>7, <2>9, <2>10, <2>11, <2>12, ReachingStep
<1>6. CASE GenerateSubmodule
  <2> DEFINE f == project.parts[Path]
             owner == Head(work).owner
             part == Head(work).part \o Arg
  <2>1. /\ \A k \in 1 .. Len(f) : f[k] \in PartStatement /\ LineOK(f, k)
        /\ \E s : Enters(s, f, owner, part, "submodule", "append", "leave_sub")
    BY <1>6, SubmoduleStep
  <2> HIDE DEF f, owner, part
  <2>2. PICK s : Enters(s, f, owner, part, "submodule", "append", "leave_sub")
    BY <2>1
  <2>3. Moves(work, s, owner, part, work') /\ Head(work).op = "submodule"
    BY <2>2 DEF Enters
  <2>4. \A k \in 1 .. Len(s) : s[k].op \notin {"generate", "want"}
    <3>1. \A k \in 1 .. Len(s) :
            k \in 1 .. Len(f) \/ k = Len(f) + 1 \/ k = Len(f) + 2 \/ k = Len(f) + 3
      BY <2>2 DEF Enters, ThenList
    <3>2. \A k \in 1 .. Len(f) : s[k].op \in {"part", "noparts", "set"}
      BY <2>1, <2>2 DEF Enters, ThenList, PartStatement
    <3> QED BY <2>2, <3>1, <3>2 DEF Enters, ThenList
  <2>5. /\ project' = project /\ MODULES' = MODULES /\ MODULES_GENERATED' = MODULES_GENERATED
    BY <1>6 DEF GenerateSubmodule, modules
  <2>6. Wanted(work', Reachable)
    BY <1>1, <2>3, <2>4, WantedKept
  <2>7. ASSUME NEW m, Coming(m) PROVE Coming(m)'
    <3>1. Listed(work, m) => Listed(work', m)
      BY <2>3, ListedKept
    <3> QED BY <2>5, <2>7, <3>1 DEF Coming
  <2> QED BY <1>1, <2>5, <2>6, <2>7, ReachingStep
<1>7. CASE \/ GeneratedAlready \/ LeaveModule \/ SubmoduleGeneratedAlready \/ DefineModule
           \/ LeaveSubmodule \/ Want \/ Part \/ NoParts \/ Set
  <2>1. PICK op : /\ Evaluate(op) /\ Do(none)
                  /\ op = "generate" => Arg \in MODULES_GENERATED
                  /\ op = "want" => MODULES' = MODULES \cup {Arg}
    BY <1>7 DEF GeneratedAlready, LeaveModule, SubmoduleGeneratedAlready, DefineModule,
                LeaveSubmodule, Want, Part, NoParts, Set, Evaluate
  <2>2. Drops(op)
    BY <2>1, DropStep
  <2>3. Moves(work, none, Head(work).owner, Head(work).part, work') /\ Head(work).op = op
    BY <2>2 DEF Drops
  <2>4. \A k \in 1 .. Len(none) : none[k].op \notin {"generate", "want"}
    OBVIOUS
  <2> HIDE DEF none
  <2>5. Wanted(work', Reachable)
    BY <1>1, <2>3, <2>4, WantedKept
  <2>6. /\ project' = project /\ MODULES_GENERATED' = MODULES_GENERATED
        /\ MODULES' = MODULES \/ (op = "want" /\ MODULES' = MODULES \cup {Arg})
    BY <1>7, <2>1 DEF GeneratedAlready, LeaveModule, SubmoduleGeneratedAlready, DefineModule,
                LeaveSubmodule, Want, Part, NoParts, Set, modules, Evaluate
  <2>7. MODULES' \cup MODULES_GENERATED' \subseteq Reachable
    <3>1. op = "want" => Arg \in Reachable
      BY <1>1, <2>3, HeadWanted DEF Arg
    <3> QED BY <1>1, <2>6, <3>1
  <2>8. ASSUME NEW m, Coming(m) PROVE Coming(m)'
    <3>1. Listed(work, m) => Listed(work', m) \/ (op \in {"generate", "want"} /\ Arg = m)
      BY <2>3, ListedKept DEF Arg
    <3> QED BY <2>1, <2>6, <2>8, <3>1 DEF Coming
  <2> QED BY <2>5, <2>6, <2>7, <2>8, ReachingStep
<1>8. CASE UNCHANGED vars
  <2>1. /\ project' = project /\ MODULES' = MODULES /\ MODULES_GENERATED' = MODULES_GENERATED
        /\ work' = work
    BY <1>8 DEF vars, modules
  <2>2. \A m : Coming(m) => Coming(m)'
    BY <2>1 DEF Coming
  <2> QED BY <1>1, <2>1, <2>2, ReachingStep
<1> QED BY <1>3, <1>4, <1>5, <1>6, <1>7, <1>8 DEF Next

\* The first entry of all is the only one to look at the list of modules.
LEMMA LoopingInit == ASSUME Init PROVE Looping
<1>1. Len(work) = 1 /\ At(work, 1).op = "modules"
  BY DEF Init, Owned, At
<1>2. \A h \in 1 .. Len(work) : h = 1 /\ At(work, h).op = "modules"
  BY <1>1
<1> QED BY <1>1, <1>2 DEF Looping

LEMMA LoopingKept ==
    ASSUME NEW w, NEW s, NEW owner, NEW part, NEW new, Moves(w, s, owner, part, new),
           \A h \in 1 .. Len(w) : At(w, h).op = "modules" <=> h = 1,
           Head(w).op # "modules", Lacks(s, "modules")
    PROVE  /\ \A h \in 1 .. Len(new) : At(new, h).op = "modules" <=> h = 1
           /\ Len(new) # 0
<1>1. Len(w) > 1 /\ Len(w) \in Nat /\ Len(s) \in Nat /\ Len(new) = Len(w) - 1 + Len(s)
  <2>1. Len(w) \in 1 .. Len(w)
    BY DEF Moves
  <2>2. Len(w) # 1
    BY <2>1 DEF Moves
  <2> QED BY <2>2 DEF Moves
<1>2. ASSUME NEW h \in 1 .. Len(new) PROVE At(new, h).op = "modules" <=> h = 1
  <2>1. CASE h \in 1 .. Len(w) - 1 /\ At(new, h) = At(w, h)
    <3>1. h \in 1 .. Len(w)
      BY <1>1, <2>1
    <3> QED BY <2>1, <3>1
  <2>2. CASE /\ h \in Len(w) .. Len(new) /\ Len(new) + 1 - h \in 1 .. Len(s)
             /\ At(new, h) = EntryFor(s[Len(new) + 1 - h], owner, part)
    <3>1. At(new, h).op # "modules"
      BY <2>2 DEF EntryFor, Lacks
    <3>2. h # 1
      BY <1>1, <2>2
    <3> QED BY <3>1, <3>2
  <2> QED BY <2>1, <2>2 DEF Moves
<1> QED BY <1>1, <1>2

\* The list of modules is looked at when nothing else is left.
LEMMA LoopingAgain ==
    ASSUME NEW w, NEW s, NEW owner, NEW part, NEW new, Moves(w, s, owner, part, new),
           \A h \in 1 .. Len(w) : At(w, h).op = "modules" <=> h = 1,
           Head(w).op = "modules", \A k \in 1 .. Len(s) : s[k].op = "modules" <=> k = Len(s)
    PROVE  \A h \in 1 .. Len(new) : At(new, h).op = "modules" <=> h = 1
<1>1. Len(w) = 1 /\ Len(s) \in Nat /\ Len(new) = Len(s)
  <2>1. Len(w) \in 1 .. Len(w)
    BY DEF Moves
  <2>2. Len(w) = 1
    BY <2>1 DEF Moves
  <2> QED BY <2>2 DEF Moves
<1>2. ASSUME NEW h \in 1 .. Len(new) PROVE At(new, h).op = "modules" <=> h = 1
  <2>1. /\ Len(new) + 1 - h \in 1 .. Len(s)
        /\ At(new, h) = EntryFor(s[Len(new) + 1 - h], owner, part)
    BY <1>1 DEF Moves
  <2>2. At(new, h).op = s[Len(new) + 1 - h].op
    BY <2>1 DEF EntryFor
  <2>3. Len(new) + 1 - h = Len(s) <=> h = 1
    BY <1>1
  <2> QED BY <2>1, <2>2, <2>3
<1> QED BY <1>2

LEMMA EnterOps ==
    ASSUME NEW s, NEW f, NEW owner, NEW part, NEW op, NEW b, NEW c,
           Enters(s, f, owner, part, op, b, c),
           NEW ops, \A k \in 1 .. Len(f) : f[k].op \in ops
    PROVE  \A k \in 1 .. Len(s) : s[k].op \in ops \cup {"submodules", b, c}
<1>1. \A k \in 1 .. Len(s) :
        k \in 1 .. Len(f) \/ k = Len(f) + 1 \/ k = Len(f) + 2 \/ k = Len(f) + 3
  BY DEF Enters, ThenList
<1> QED BY <1>1 DEF Enters, ThenList

LEMMA LoopingNext == ASSUME Sound, Looping, [Next]_vars PROVE Looping'
<1> DEFINE none == <<>>
<1>1. \A h \in 1 .. Len(work) : At(work, h).op = "modules" <=> h = 1
  BY DEF Looping
<1>2. ASSUME NEW s, NEW owner, NEW part, Moves(work, s, owner, part, work'),
             Head(work).op # "modules", Lacks(s, "modules")
      PROVE  Looping'
  <2>1. /\ \A h \in 1 .. Len(work') : At(work', h).op = "modules" <=> h = 1
        /\ Len(work') # 0
    BY <1>1, <1>2, LoopingKept
  <2>2. work' # <<>>
    BY <2>1
  <2> QED BY <2>1, <2>2 DEF Looping
<1>3. CASE GenerateModules
  <2>1. PICK s : Lists(s, "generate", MODULES \ MODULES_GENERATED, "modules")
    BY <1>3, ModulesStep
  <2>2. /\ Moves(work, s, Head(work).owner, Head(work).part, work')
        /\ Head(work).op = "modules"
        /\ \A k \in 1 .. Len(s) : s[k].op = "modules" <=> k = Len(s)
    BY <2>1 DEF Lists, AgainList
  <2>3. \A h \in 1 .. Len(work') : At(work', h).op = "modules" <=> h = 1
    BY <1>1, <2>2, LoopingAgain
  <2>4. MODULES' = {}
    BY <1>3 DEF GenerateModules
  <2> QED BY <2>3, <2>4 DEF Looping
<1>4. CASE GenerateSubmodules
  <2>1. PICK s : Lists(s, "submodule", SUBMODULES \ SUBMODULES_GENERATED, "submodules")
    BY <1>4, SubmodulesStep
  <2>2. /\ Moves(work, s, Head(work).owner, Head(work).part, work')
        /\ Head(work).op # "modules" /\ Lacks(s, "modules")
    BY <2>1 DEF Lists, AgainList, Lacks
  <2> QED BY <1>2, <2>2
<1>5. CASE GenerateModule
  <2> DEFINE f == project.files[Arg]
             ops == {"generate", "want", "part", "noparts", "set"}
  <2>1. /\ \A k \in 1 .. Len(f) : f[k].op \in ops
        /\ \E s : Enters(s, f, Arg, NONE, "generate", "define", "leave")
    BY <1>5, ModuleStep DEF Statement
  <2> HIDE DEF f, ops
  <2>2. PICK s : Enters(s, f, Arg, NONE, "generate", "define", "leave")
    BY <2>1
  <2>3. \A k \in 1 .. Len(s) : s[k].op \in ops \cup {"submodules", "define", "leave"}
    BY <2>1, <2>2, EnterOps
  <2>4. /\ Moves(work, s, Arg, NONE, work') /\ Head(work).op # "modules"
        /\ Lacks(s, "modules")
    BY <2>2, <2>3 DEF Enters, Lacks, ops
  <2> QED BY <1>2, <2>4
<1>6. CASE GenerateSubmodule
  <2> DEFINE f == project.parts[Path]
             owner == Head(work).owner
             part == Head(work).part \o Arg
             ops == {"part", "noparts", "set"}
  <2>1. /\ \A k \in 1 .. Len(f) : f[k].op \in ops
        /\ \E s : Enters(s, f, owner, part, "submodule", "append", "leave_sub")
    BY <1>6, SubmoduleStep DEF PartStatement
  <2> HIDE DEF f, owner, part, ops
  <2>2. PICK s : Enters(s, f, owner, part, "submodule", "append", "leave_sub")
    BY <2>1
  <2>3. \A k \in 1 .. Len(s) : s[k].op \in ops \cup {"submodules", "append", "leave_sub"}
    BY <2>1, <2>2, EnterOps
  <2>4. /\ Moves(work, s, owner, part, work') /\ Head(work).op # "modules"
        /\ Lacks(s, "modules")
    BY <2>2, <2>3 DEF Enters, Lacks, ops
  <2> QED BY <1>2, <2>4
<1>7. CASE \/ GeneratedAlready \/ LeaveModule \/ SubmoduleGeneratedAlready \/ DefineModule
           \/ LeaveSubmodule \/ Want \/ Part \/ NoParts \/ Set
  <2>1. PICK op : op # "modules" /\ Evaluate(op) /\ Do(<<>>)
    BY <1>7 DEF GeneratedAlready, LeaveModule, SubmoduleGeneratedAlready, DefineModule,
                LeaveSubmodule, Want, Part, NoParts, Set, Evaluate
  <2>2. /\ Moves(work, none, Head(work).owner, Head(work).part, work')
        /\ Head(work).op # "modules"
    BY <2>1, DropStep DEF Drops
  <2>3. Lacks(none, "modules")
    BY DEF Lacks
  <2> HIDE DEF none
  <2> QED BY <1>2, <2>2, <2>3
<1>8. CASE UNCHANGED vars
  BY <1>8 DEF vars, modules, Looping
<1> QED BY <1>3, <1>4, <1>5, <1>6, <1>7, <1>8 DEF Next

\* No rule twice; and at the end, what can be reached has been generated and
\* has its rules.
LEMMA ModulesOnce ==
    ASSUME Sound, Defining, Reaching, Looping
    PROVE  /\ \A i, j \in DOMAIN defined : defined[i] = defined[j] => i = j
           /\ work = <<>> => Defined = Reachable /\ MODULES_GENERATED = Reachable
<1>1. \A i, j \in DOMAIN defined : defined[i] = defined[j] => i = j
  BY DEF Defining, DefiningFor
<1>2. ASSUME work = <<>> PROVE Defined = Reachable /\ MODULES_GENERATED = Reachable
  <2>1. Len(work) = 0 /\ \A h \in 1 .. Len(work) : FALSE
    BY <1>2
  <2>2. MODULES = {} /\ \A m : ~ Listed(work, m)
    BY <1>2, <2>1 DEF Looping, Listed
  <2>3. \A m : Coming(m) => m \in MODULES_GENERATED
    BY <2>2 DEF Coming
  <2>4. MODULES_GENERATED \in SUBSET Files /\ project \in Projects
    BY DEF Sound, Typed
  <2>5. Closed(MODULES_GENERATED)
    BY <2>3 DEF Reaching, Closed
  <2>6. Reachable \subseteq MODULES_GENERATED
    BY <2>4, <2>5, ReachableFacts
  <2>7. MODULES_GENERATED \subseteq Reachable
    BY DEF Reaching
  <2>8. Defined = MODULES_GENERATED
    BY <2>1 DEF Defining, DefiningFor, Entered, Defined
  <2> QED BY <2>6, <2>7, <2>8
<1> QED BY <1>1, <1>2

-----------------------------------------------------------------------------
\* Queued looks only at what is below.
LEMMA QueuedKept ==
    ASSUME NEW w, NEW s, NEW owner, NEW part, NEW new, Moves(w, s, owner, part, new),
           NEW h \in 1 .. Len(w) - 1, Queued(w, h)
    PROVE  Queued(new, h)
<1>1. \A k \in 1 .. h : At(new, k) = At(w, k)
  <2>1. ASSUME NEW k \in 1 .. h PROVE At(new, k) = At(w, k)
    <3>1. k \in 1 .. Len(w) /\ k # Len(w)
      BY DEF Moves
    <3> QED BY <3>1 DEF Moves
  <2> QED BY <2>1
<1>2. PICK g \in 1 .. h :
        /\ At(w, g).op = "submodules"
        /\ \A k \in g .. h :
            /\ At(w, k).owner = At(w, h).owner /\ At(w, k).part = At(w, h).part
            /\ k # g => At(w, k).op \in {"part", "want", "set"}
  BY DEF Queued
<1>3. h \in 1 .. h /\ \A k \in g .. h : k \in 1 .. h
  OBVIOUS
<1>4. At(new, g).op = "submodules"
  BY <1>1, <1>2
<1>5. \A k \in g .. h :
        /\ At(new, k).owner = At(new, h).owner /\ At(new, k).part = At(new, h).part
        /\ k # g => At(new, k).op \in {"part", "want", "set"}
  BY <1>1, <1>2, <1>3
<1> QED BY <1>4, <1>5 DEF Queued

\* While something is queued, the head only adds to it, or looks at it.
LEMMA QueuedHead ==
    ASSUME NEW w, NEW s, NEW owner, NEW part, NEW new, Moves(w, s, owner, part, new),
           Queued(w, Len(w))
    PROVE  /\ Head(w).op \in {"submodules", "part", "want", "set"}
           /\ Head(w).op # "submodules" =>
                /\ Len(w) - 1 \in 1 .. Len(w) - 1 /\ Queued(w, Len(w) - 1)
                /\ Where(At(w, Len(w) - 1)) = Where(Top(w))
<1>1. Len(w) \in Nat \ {0} /\ Head(w) = At(w, Len(w))
  BY DEF Moves
<1>2. PICK g \in 1 .. Len(w) :
        /\ At(w, g).op = "submodules"
        /\ \A k \in g .. Len(w) :
            /\ At(w, k).owner = At(w, Len(w)).owner /\ At(w, k).part = At(w, Len(w)).part
            /\ k # g => At(w, k).op \in {"part", "want", "set"}
  BY DEF Queued
<1>3. Len(w) \in g .. Len(w)
  BY <1>1
<1>4. Head(w).op \in {"submodules", "part", "want", "set"}
  BY <1>1, <1>2, <1>3
<1>5. ASSUME Head(w).op # "submodules"
      PROVE  /\ Len(w) - 1 \in 1 .. Len(w) - 1 /\ Queued(w, Len(w) - 1)
             /\ Where(At(w, Len(w) - 1)) = Where(Top(w))
  <2>1. g # Len(w)
    BY <1>1, <1>2, <1>5
  <2>2. g \in 1 .. Len(w) - 1 /\ Len(w) - 1 \in 1 .. Len(w) - 1 /\ Len(w) - 1 \in g .. Len(w)
    BY <1>1, <2>1
  <2>3. \A k \in g .. Len(w) - 1 : k \in g .. Len(w)
    BY <1>1
  <2>4. /\ At(w, Len(w) - 1).owner = At(w, Len(w)).owner
        /\ At(w, Len(w) - 1).part = At(w, Len(w)).part
    BY <1>2, <2>2
  <2>5. \A k \in g .. Len(w) - 1 :
          /\ At(w, k).owner = At(w, Len(w) - 1).owner /\ At(w, k).part = At(w, Len(w) - 1).part
          /\ k # g => At(w, k).op \in {"part", "want", "set"}
    BY <1>2, <2>3, <2>4
  <2>6. Queued(w, Len(w) - 1)
    BY <1>2, <2>2, <2>5 DEF Queued
  <2> QED BY <2>2, <2>4, <2>6 DEF Where, Top
<1> QED BY <1>4, <1>5

\* The parts that a makefile names come before its "submodules", and nothing in
\* between but further parts and what does not touch them.
LEMMA QueuedFresh ==
    ASSUME NEW s, NEW f, NEW owner, NEW part, NEW op, NEW b, NEW c,
           Enters(s, f, owner, part, op, b, c),
           \A k \in 1 .. Len(f) : /\ f[k].op \in {"generate", "want", "part", "noparts", "set"}
                                  /\ LineOK(f, k),
           NEW k \in 1 .. Len(s), s[k].op = "part", b # "part", c # "part"
    PROVE  /\ Queued(work', Len(work') + 1 - k)
           /\ k \in 1 .. Len(f) /\ s[k] = f[k]
<1>1. /\ Len(f) \in Nat /\ Len(s) = Len(f) + 3
      /\ \A i \in 1 .. Len(f) : s[i] = f[i]
      /\ s[Len(f) + 1].op = "submodules" /\ s[Len(f) + 2].op = b /\ s[Len(f) + 3].op = c
  BY DEF Enters, ThenList
<1>2. k \in 1 .. Len(f) /\ s[k] = f[k] /\ f[k].op = "part"
  <2>1. k \in 1 .. Len(f) \/ k = Len(f) + 1 \/ k = Len(f) + 2 \/ k = Len(f) + 3
    BY <1>1
  <2> QED BY <1>1, <2>1
<1> DEFINE n == Len(work')
           h == n + 1 - k
           g == n - Len(f)
<1>3. Moves(work, s, owner, part, work')
  BY DEF Enters
<1>4. /\ n \in Nat /\ n >= Len(s)
      /\ \A i \in 1 .. Len(s) : At(work', n + 1 - i) = EntryFor(s[i], owner, part)
  BY <1>3 DEF Moves
<1> HIDE DEF n
<1>5. g \in 1 .. h /\ h \in g .. h /\ n + 1 - (Len(f) + 1) = g /\ Len(f) + 1 \in 1 .. Len(s)
  BY <1>1, <1>2, <1>4
<1>6. At(work', g).op = "submodules"
  <2>1. At(work', n + 1 - (Len(f) + 1)) = EntryFor(s[Len(f) + 1], owner, part)
    BY <1>4, <1>5
  <2> HIDE DEF g, h
  <2> QED BY <1>1, <1>5, <2>1 DEF EntryFor
<1>7. ASSUME NEW j \in g .. h
      PROVE  /\ At(work', j).owner = owner /\ At(work', j).part = part
             /\ j # g => At(work', j).op \in {"part", "want", "set"}
  <2> DEFINE i == n + 1 - j
  <2>1. i \in 1 .. Len(s) /\ i \in k .. Len(f) + 1 /\ n + 1 - i = j
    BY <1>1, <1>2, <1>4, <1>5
  <2>2. At(work', j) = EntryFor(s[i], owner, part)
    BY <1>4, <2>1
  <2>3. ASSUME j # g PROVE s[i].op \in {"part", "want", "set"}
    <3>1. i \in 1 .. Len(f) /\ k \in 1 .. i
      <4> HIDE DEF i, g
      <4>1. i # Len(f) + 1
        BY <1>5, <2>1, <2>3
      <4>2. i \in Int /\ i >= k /\ i <= Len(f) + 1
        BY <1>1, <1>2, <2>1
      <4> QED BY <1>1, <1>2, <4>1, <4>2
    <3>2. f[i].op \notin {"generate", "noparts"}
      BY <1>2, <3>1 DEF LineOK
    <3> QED BY <1>1, <3>1, <3>2
  <2> HIDE DEF i
  <2> QED BY <2>2, <2>3 DEF EntryFor
<1> HIDE DEF g, h
<1>8. At(work', h).owner = owner /\ At(work', h).part = part
  BY <1>5, <1>7
<1>9. Queued(work', h)
  BY <1>5, <1>6, <1>7, <1>8 DEF Queued
<1> QED BY <1>2, <1>9 DEF h, n

LEMMA AwaitsKept ==
    ASSUME NEW w, NEW s, NEW owner, NEW part, NEW new, Moves(w, s, owner, part, new),
           NEW c, NEW x
    PROVE  /\ Awaits(w, c, x) =>
                \/ Awaits(new, c, x)
                \/ Head(w).op \in {"part", "submodule"} /\ Head(w).arg = x /\ Where(Head(w)) = c
           /\ \A k \in 1 .. Len(s) :
                s[k].op \in {"part", "submodule"} /\ s[k].arg = x /\ Place(owner, part) = c
                  => Awaits(new, c, x)
<1>1. ASSUME Awaits(w, c, x),
             ~ (Head(w).op \in {"part", "submodule"} /\ Head(w).arg = x /\ Where(Head(w)) = c)
      PROVE  Awaits(new, c, x)
  <2>1. PICK h \in 1 .. Len(w) :
          At(w, h).op \in {"part", "submodule"} /\ At(w, h).arg = x /\ Where(At(w, h)) = c
    BY <1>1 DEF Awaits
  <2>2. h # Len(w)
    BY <1>1, <2>1 DEF Moves
  <2>3. h \in 1 .. Len(new) /\ At(new, h) = At(w, h)
    BY <2>2 DEF Moves
  <2> QED BY <2>1, <2>3 DEF Awaits
<1>2. ASSUME NEW k \in 1 .. Len(s), s[k].op \in {"part", "submodule"}, s[k].arg = x,
             Place(owner, part) = c
      PROVE  Awaits(new, c, x)
  <2> DEFINE h == Len(new) + 1 - k
  <2>1. h \in 1 .. Len(new) /\ At(new, h) = EntryFor(s[k], owner, part)
    BY DEF Moves
  <2> HIDE DEF h
  <2>2. /\ At(new, h).op \in {"part", "submodule"} /\ At(new, h).arg = x
        /\ Where(At(new, h)) = c
    BY <1>2, <2>1 DEF EntryFor, Where
  <2> QED BY <2>1, <2>2 DEF Awaits
<1> QED BY <1>1, <1>2

\* What the names of parts are, and what is never lost.
LEMMA PartFacts ==
    ASSUME Sound, NEW c \in Begun, NEW x \in PartsIn(c)
    PROVE  x \notin Paths /\ x \notin SUBMODULES_GENERATED /\ InOrder(x)
<1> DEFINE f == IF c[1] = "module" THEN project.files[c[2]] ELSE project.parts[c[2]]
<1>1. project \in Projects /\ MODULES_GENERATED \subseteq Files /\ SUBMODULES_GENERATED \subseteq Paths
  BY DEF Sound, Typed
<1>2. (c[1] = "module" /\ c[2] \in Files) \/ (c[1] # "module" /\ c[2] \in Paths)
  BY <1>1 DEF Begun
<1>3. \A k \in DOMAIN f : LineOK(f, k)
  <2>1. CASE c[1] = "module" /\ c[2] \in Files
    BY <1>1, <2>1, ProjectFacts, Lines
  <2>2. CASE c[1] # "module" /\ c[2] \in Paths
    BY <1>1, <2>2, ProjectFacts, Lines
  <2> QED BY <1>2, <2>1, <2>2
<1>4. x \in Args({"part"}, f)
  BY DEF PartsIn
<1> HIDE DEF f
<1>5. PICK k \in DOMAIN f : f[k].op = "part" /\ x = f[k].arg
  BY <1>4 DEF Args
<1>6. LineOK(f, k)
  BY <1>3
<1> QED BY <1>1, <1>5, <1>6 DEF LineOK

LEMMA PlacedStep ==
    ASSUME Placed, project' = project, Begun \subseteq Begun',
           NEW s, NEW owner, NEW part, Moves(work, s, owner, part, work'),
           \A k \in 1 .. Len(s) : s[k].op \in {"part", "submodule"} =>
               Place(owner, part) \in Begun' /\ s[k].arg \in PartsIn(Place(owner, part))
    PROVE  Placed'
<1>1. \A c : PartsIn(c)' = PartsIn(c)
  BY Constantly
<1>2. ASSUME NEW h \in 1 .. Len(work'), At(work', h).op \in {"part", "submodule"}
      PROVE  /\ Where(At(work', h)) \in Begun'
             /\ At(work', h).arg \in PartsIn(Where(At(work', h)))
  <2>1. CASE h \in 1 .. Len(work) - 1 /\ At(work', h) = At(work, h)
    <3>1. h \in 1 .. Len(work)
      BY <2>1 DEF Moves
    <3> QED BY <1>2, <2>1, <3>1 DEF Placed
  <2>2. CASE /\ Len(work') + 1 - h \in 1 .. Len(s)
             /\ At(work', h) = EntryFor(s[Len(work') + 1 - h], owner, part)
    <3> DEFINE k == Len(work') + 1 - h
    <3>1. s[k].op \in {"part", "submodule"} /\ k \in 1 .. Len(s)
      BY <1>2, <2>2 DEF EntryFor
    <3>2. Where(At(work', h)) = Place(owner, part) /\ At(work', h).arg = s[k].arg
      BY <2>2 DEF EntryFor, Where
    <3> HIDE DEF k
    <3> QED BY <3>1, <3>2
  <2> QED BY <2>1, <2>2 DEF Moves
<1> QED BY <1>1, <1>2 DEF Placed

LEMMA PartsQueuedStep ==
    ASSUME PartsQueued, NEW s, NEW owner, NEW part, Moves(work, s, owner, part, work'),
           \A k \in 1 .. Len(s) : s[k].op = "part" => Queued(work', Len(work') + 1 - k)
    PROVE  PartsQueued'
<1>1. ASSUME NEW h \in 1 .. Len(work'), At(work', h).op = "part"
      PROVE  Queued(work', h)
  <2>1. CASE h \in 1 .. Len(work) - 1 /\ At(work', h) = At(work, h)
    <3>1. h \in 1 .. Len(work)
      BY <2>1 DEF Moves
    <3>2. Queued(work, h)
      BY <1>1, <2>1, <3>1 DEF PartsQueued
    <3> QED BY <2>1, <3>2, QueuedKept
  <2>2. CASE /\ h \in Len(work) .. Len(work')
             /\ Len(work') + 1 - h \in 1 .. Len(s)
             /\ At(work', h) = EntryFor(s[Len(work') + 1 - h], owner, part)
    <3> DEFINE k == Len(work') + 1 - h
    <3>1. s[k].op = "part" /\ k \in 1 .. Len(s)
      BY <1>1, <2>2 DEF EntryFor
    <3>2. Len(work') + 1 - k = h
      BY <2>2 DEF Moves
    <3> HIDE DEF k
    <3> QED BY <3>1, <3>2
  <2> QED BY <2>1, <2>2 DEF Moves
<1> QED BY <1>1 DEF PartsQueued

\* When the head is none of those that only add to SUBMODULES or look at it,
\* SUBMODULES is empty.
LEMMA Idle ==
    ASSUME Gathering, NEW s, NEW owner, NEW part, Moves(work, s, owner, part, work'),
           Head(work).op \notin {"submodules", "part", "want", "set"}
    PROVE  SUBMODULES = {}
BY QueuedHead DEF Gathering

\* Where the head runs, if nothing takes its place and something is queued.
LEMMA QueuedDrop ==
    ASSUME NEW owner, NEW part, Moves(work, <<>>, owner, part, work'),
           Queued(work, Len(work)), Head(work).op # "submodules"
    PROVE  /\ work' # <<>> /\ Queued(work', Len(work'))
           /\ Where(Top(work')) = Where(Top(work))
<1> DEFINE none == <<>>
           n == Len(work) - 1
<1>1. Moves(work, none, owner, part, work') /\ Len(none) = 0
  OBVIOUS
<1> HIDE DEF none
<1>2. /\ n \in 1 .. n /\ Queued(work, n)
      /\ Where(At(work, n)) = Where(Top(work))
  BY <1>1, QueuedHead
<1>3. Queued(work', n)
  BY <1>1, <1>2, QueuedKept
<1>4. Len(work') = n
  BY <1>1, <1>2 DEF Moves
<1>5. At(work', n) = At(work, n)
  <2>1. n \in 1 .. Len(work) /\ n # Len(work)
    BY <1>1, <1>2 DEF Moves
  <2> QED BY <1>1, <2>1 DEF Moves
<1>6. work' # <<>>
  BY <1>2, <1>4
<1> QED BY <1>2, <1>3, <1>4, <1>5, <1>6 DEF Top

LEMMA ExpectingStep ==
    ASSUME Expecting, project' = project, SUBMODULES_GENERATED \subseteq SUBMODULES_GENERATED',
           NEW s, NEW owner, NEW part, Moves(work, s, owner, part, work'),
           \A c \in Begun : \A x \in PartsIn(c) :
               x \in SUBMODULES /\ Where(Top(work)) = c => Met(c, x)',
           \A c \in Begun : \A x \in PartsIn(c) :
               Head(work).op \in {"part", "submodule"} /\ Head(work).arg = x
                 /\ Where(Head(work)) = c => Met(c, x)',
           \A c \in Begun' \ Begun : \A x \in PartsIn(c) : Met(c, x)'
    PROVE  Expecting'
<1>1. \A c : PartsIn(c)' = PartsIn(c)
  BY Constantly
<1>2. ASSUME NEW c \in Begun, NEW x \in PartsIn(c) PROVE Met(c, x)'
  <2>1. CASE c[2] \o x \in SUBMODULES_GENERATED
    BY <2>1 DEF Met
  <2>2. CASE x \in SUBMODULES /\ Where(Top(work)) = c
    BY <2>2
  <2>3. CASE Awaits(work, c, x)
    <3>1. \/ Awaits(work', c, x)
          \/ Head(work).op \in {"part", "submodule"} /\ Head(work).arg = x /\ Where(Head(work)) = c
      BY <2>3, AwaitsKept
    <3>2. CASE Awaits(work', c, x)
      BY <3>2 DEF Met
    <3> QED BY <3>1, <3>2
  <2>4. Met(c, x)
    BY DEF Expecting
  <2> QED BY <2>1, <2>2, <2>3, <2>4 DEF Met
<1>3. \A c \in Begun' : \A x \in PartsIn(c) : Met(c, x)'
  BY <1>2
<1> QED BY <1>1, <1>3 DEF Expecting

LEMMA FoundedStep ==
    ASSUME Founded, project' = project, Begun \subseteq Begun',
           \A q \in SUBMODULES_GENERATED' \ SUBMODULES_GENERATED :
               \E c \in Begun' : \E x \in PartsIn(c) : q = c[2] \o x
    PROVE  Founded'
<1>1. \A c : PartsIn(c)' = PartsIn(c)
  BY Constantly
<1>2. \A q \in SUBMODULES_GENERATED' : \E c \in Begun' : \E x \in PartsIn(c) : q = c[2] \o x
  <2>1. ASSUME NEW q \in SUBMODULES_GENERATED
        PROVE  \E c \in Begun' : \E x \in PartsIn(c) : q = c[2] \o x
    <3>1. PICK c \in Begun : \E x \in PartsIn(c) : q = c[2] \o x
      BY DEF Founded
    <3> QED BY <3>1
  <2> QED BY <2>1
<1> QED BY <1>1, <1>2 DEF Founded

Same == UNCHANGED <<project, MODULES_GENERATED, SUBMODULES_GENERATED>>

LEMMA PartingInit == ASSUME Init PROVE Parting
<1>1. Len(work) = 1 /\ At(work, 1).op = "modules"
  BY DEF Init, Owned, At
<1>2. \A h \in 1 .. Len(work) : At(work, h).op = "modules"
  BY <1>1
<1>3. Begun = {} /\ SUBMODULES = {} /\ SUBMODULES_GENERATED = {}
  BY DEF Init, Begun
<1> QED BY <1>2, <1>3 DEF Parting, Placed, PartsQueued, Gathering, Expecting, Founded

\* A head that has nothing to do with parts makes way for others like it.
LEMMA PartingIdle ==
    ASSUME Parting, Same, SUBMODULES = {}, SUBMODULES' = {},
           NEW s, NEW owner, NEW part, Moves(work, s, owner, part, work'),
           Lacks(s, "part"), Lacks(s, "submodule"),
           Head(work).op = "part" => FALSE,
           Head(work).op = "submodule" => Where(Head(work))[2] \o Head(work).arg \in SUBMODULES_GENERATED
    PROVE  Parting'
<1>1. /\ Placed /\ PartsQueued /\ Gathering /\ Expecting /\ Founded
      /\ project' = project /\ SUBMODULES_GENERATED' = SUBMODULES_GENERATED
      /\ MODULES_GENERATED' = MODULES_GENERATED
  BY DEF Parting, Same
<1>2. Begun' = Begun
  BY <1>1 DEF Begun
<1>3. \A k \in 1 .. Len(s) : s[k].op # "part" /\ s[k].op # "submodule"
  BY DEF Lacks
<1>4. Placed'
  BY <1>1, <1>2, <1>3, PlacedStep
<1>5. PartsQueued'
  BY <1>1, <1>3, PartsQueuedStep
<1>6. Gathering'
  BY DEF Gathering
<1>7. Expecting'
  <2>1. ASSUME NEW c \in Begun, NEW x \in PartsIn(c),
               Head(work).op \in {"part", "submodule"}, Head(work).arg = x, Where(Head(work)) = c
        PROVE  Met(c, x)'
    BY <1>1, <2>1 DEF Met
  <2> QED BY <1>1, <1>2, <2>1, ExpectingStep
<1>8. Founded'
  BY <1>1, <1>2, FoundedStep
<1> QED BY <1>4, <1>5, <1>6, <1>7, <1>8 DEF Parting

\* The path that a submodule gets is what its makefile's place says.
LEMMA HeadPlace ==
    ASSUME Sound, Evaluate("submodule")
    PROVE  Where(Head(work))[2] \o Head(work).arg = Path
<1>1. /\ work # <<>> /\ Head(work).owner \in Name /\ Head(work).part \in Name
  BY EvaluateFacts
<1>2. ModuleName = Head(work).owner /\ SubmoduleName = FullName(Head(work))
  BY <1>1, HeadRuns
<1>3. CASE Head(work).part = NONE
  <2>1. Where(Head(work))[2] = ModuleName /\ SubmoduleName = NONE
    BY <1>2, <1>3 DEF Where, Place, FullName
  <2> QED BY <2>1 DEF Path, Arg
<1>4. CASE Head(work).part # NONE
  <2>1. Where(Head(work))[2] = SubmoduleName
    BY <1>2, <1>4 DEF Where, Place, FullName
  <2>2. SubmoduleName # NONE
    BY <1>1, <1>2, <1>4, Joined DEF FullName
  <2> QED BY <2>1, <2>2 DEF Path, Arg
<1> QED BY <1>3, <1>4

LEMMA PartingModules == ASSUME Sound, Parting, GenerateModules PROVE Parting'
<1>1. PICK s : Lists(s, "generate", MODULES \ MODULES_GENERATED, "modules")
  BY ModulesStep
<1>2. /\ Moves(work, s, Head(work).owner, Head(work).part, work')
      /\ Head(work).op = "modules"
      /\ Lacks(s, "part") /\ Lacks(s, "submodule")
  BY <1>1 DEF Lists, AgainList, Lacks
<1>3. SUBMODULES = {}
  BY <1>2, Idle DEF Parting
<1>4. Same /\ SUBMODULES' = SUBMODULES
  BY DEF GenerateModules, Same, submodules
<1> QED BY <1>2, <1>3, <1>4, PartingIdle

LEMMA PartingQuiet ==
    ASSUME Sound, Parting,
           \/ GeneratedAlready \/ DefineModule \/ LeaveModule \/ LeaveSubmodule
           \/ SubmoduleGeneratedAlready \/ NoParts
    PROVE  Parting'
<1> DEFINE none == <<>>
<1>1. PICK op \in {"generate", "define", "leave", "leave_sub", "submodule", "noparts"} :
        /\ Evaluate(op) /\ Do(<<>>)
        /\ op = "submodule" => Path \in SUBMODULES_GENERATED
  BY DEF GeneratedAlready, LeaveModule, SubmoduleGeneratedAlready, DefineModule,
         LeaveSubmodule, NoParts, Evaluate
<1>2. /\ Moves(work, none, Head(work).owner, Head(work).part, work')
      /\ Head(work).op = op
  BY <1>1, DropStep DEF Drops
<1>3. Lacks(none, "part") /\ Lacks(none, "submodule")
  BY DEF Lacks
<1> HIDE DEF none
<1>4. SUBMODULES = {}
  BY <1>2, Idle DEF Parting
<1>5. Same /\ SUBMODULES' = {}
  BY <1>4 DEF Same, GeneratedAlready, LeaveModule, SubmoduleGeneratedAlready, DefineModule,
              LeaveSubmodule, NoParts, modules, submodules
<1>6. op = "submodule" => Where(Head(work))[2] \o Head(work).arg \in SUBMODULES_GENERATED
  BY <1>1, HeadPlace
<1> QED BY <1>2, <1>3, <1>4, <1>5, <1>6, PartingIdle

\* A line that adds to SUBMODULES, or leaves it alone, in a makefile whose parts
\* are still to be looked at.
LEMMA PartingLine == ASSUME Sound, Parting, Part \/ Want \/ Set PROVE Parting'
<1> DEFINE none == <<>>
<1>1. PICK op \in {"part", "want", "set", "append"} :
        /\ Evaluate(op) /\ Do(<<>>)
        /\ SUBMODULES' = IF op = "part" THEN SUBMODULES \cup {Arg} ELSE SUBMODULES
  BY DEF Part, Want, Set, Evaluate, submodules
<1>2. /\ Moves(work, <<>>, Head(work).owner, Head(work).part, work')
      /\ Head(work).op = op /\ Head(work).arg = Arg
  BY <1>1, DropStep DEF Drops, Arg
<1>3. Moves(work, none, Head(work).owner, Head(work).part, work') /\ \A k \in 1 .. Len(none) : FALSE
  BY <1>2
<1> HIDE DEF none
<1>4. /\ Placed /\ PartsQueued /\ Gathering /\ Expecting /\ Founded
  BY DEF Parting
<1>5. /\ project' = project /\ MODULES_GENERATED' = MODULES_GENERATED
      /\ SUBMODULES_GENERATED' = SUBMODULES_GENERATED
  BY DEF Part, Want, Set, modules, submodules
<1>6. Begun' = Begun /\ \A c : PartsIn(c)' = PartsIn(c)
  BY <1>5, Constantly DEF Begun
<1>7. Len(work) \in 1 .. Len(work) /\ Head(work) = Top(work)
  BY <1>2 DEF Moves, Top
<1>8. SUBMODULES' # {} => Queued(work, Len(work))
  <2>1. op = "part" => Queued(work, Len(work))
    BY <1>2, <1>4, <1>7 DEF PartsQueued, Top
  <2>2. SUBMODULES # {} => Queued(work, Len(work))
    BY <1>4 DEF Gathering
  <2> QED BY <1>1, <2>1, <2>2
<1>9. SUBMODULES' # {} =>
        /\ work' # <<>> /\ Queued(work', Len(work'))
        /\ Where(Top(work')) = Where(Top(work))
  <2>1. Head(work).op # "submodules"
    BY <1>2
  <2> QED BY <1>2, <1>8, <2>1, QueuedDrop
<1>10. SUBMODULES' # {} =>
        Where(Top(work)) \in Begun /\ SUBMODULES' \subseteq PartsIn(Where(Top(work)))
  <2>1. op = "part" => Where(Top(work)) \in Begun /\ Arg \in PartsIn(Where(Top(work)))
    BY <1>2, <1>4, <1>7 DEF Placed, Top
  <2>2. SUBMODULES # {} =>
          Where(Top(work)) \in Begun /\ SUBMODULES \subseteq PartsIn(Where(Top(work)))
    BY <1>4 DEF Gathering
  <2> QED BY <1>1, <2>1, <2>2
<1>11. Gathering'
  BY <1>6, <1>9, <1>10 DEF Gathering, Top
<1>12. Placed'
  BY <1>3, <1>4, <1>5, <1>6, PlacedStep
<1>13. PartsQueued'
  BY <1>3, <1>4, PartsQueuedStep
<1>14. Expecting'
  <2>1. ASSUME NEW c \in Begun, NEW x \in PartsIn(c), x \in SUBMODULES, Where(Top(work)) = c
        PROVE  Met(c, x)'
    <3>1. x \in SUBMODULES'
      BY <1>1, <2>1
    <3> QED BY <1>9, <2>1, <3>1 DEF Met, Top
  <2>2. ASSUME NEW c \in Begun, NEW x \in PartsIn(c),
               Head(work).op \in {"part", "submodule"}, Head(work).arg = x, Where(Head(work)) = c
        PROVE  Met(c, x)'
    <3>1. x \in SUBMODULES'
      BY <1>1, <1>2, <2>2
    <3> QED BY <1>7, <1>9, <2>2, <3>1 DEF Met, Top
  <2> QED BY <1>3, <1>4, <1>5, <1>6, <2>1, <2>2, ExpectingStep
<1>15. Founded'
  BY <1>4, <1>5, <1>6, FoundedStep
<1> QED BY <1>11, <1>12, <1>13, <1>14, <1>15 DEF Parting

\* SUBMODULES is looked at.
LEMMA PartingSubmodules == ASSUME Sound, Parting, GenerateSubmodules PROVE Parting'
<1> DEFINE names == SUBMODULES \ SUBMODULES_GENERATED
           owner == Head(work).owner
           part == Head(work).part
<1>1. PICK s : Lists(s, "submodule", names, "submodules")
  BY SubmodulesStep
<1>2. /\ Moves(work, s, owner, part, work')
      /\ Head(work).op = "submodules"
      /\ AgainList(s, "submodule", names, "submodules")
  BY <1>1 DEF Lists
<1>3. \A k \in 1 .. Len(s) : s[k].op = "submodules" \/ (s[k].op = "submodule" /\ s[k].arg \in names)
  BY <1>2 DEF AgainList
<1>4. /\ Placed /\ PartsQueued /\ Gathering /\ Expecting /\ Founded
  BY DEF Parting
<1>5. /\ project' = project /\ MODULES_GENERATED' = MODULES_GENERATED
      /\ SUBMODULES_GENERATED' = SUBMODULES_GENERATED /\ SUBMODULES' = {}
  BY DEF GenerateSubmodules, modules
<1>6. Begun' = Begun /\ \A c : PartsIn(c)' = PartsIn(c)
  BY <1>5, Constantly DEF Begun
<1>7. Place(owner, part) = Where(Top(work))
  BY <1>2 DEF Moves, Top, Where
<1> HIDE DEF owner, part
<1>8. Placed'
  <2>1. \A k \in 1 .. Len(s) : s[k].op \in {"part", "submodule"} =>
               Place(owner, part) \in Begun' /\ s[k].arg \in PartsIn(Place(owner, part))
    BY <1>3, <1>4, <1>6, <1>7 DEF Gathering
  <2> QED BY <1>2, <1>4, <1>5, <1>6, <2>1, PlacedStep
<1>9. PartsQueued'
  <2>1. \A k \in 1 .. Len(s) : s[k].op # "part"
    BY <1>3
  <2> QED BY <1>2, <1>4, <2>1, PartsQueuedStep
<1>10. Gathering'
  BY <1>5 DEF Gathering
<1>11. Expecting'
  <2>1. ASSUME NEW c \in Begun, NEW x \in PartsIn(c), x \in SUBMODULES, Where(Top(work)) = c
        PROVE  Met(c, x)'
    <3>1. InOrder(x) /\ x \in names
      BY <2>1, PartFacts
    <3>2. PICK k \in 1 .. Len(s) : s[k].op = "submodule" /\ s[k].arg = x
      BY <1>2, <3>1 DEF AgainList
    <3>3. Awaits(work', c, x)
      BY <1>2, <1>7, <2>1, <3>2, AwaitsKept
    <3> QED BY <3>3 DEF Met
  <2> QED BY <1>2, <1>4, <1>5, <1>6, <2>1, ExpectingStep
<1>12. Founded'
  BY <1>4, <1>5, <1>6, FoundedStep
<1> QED BY <1>8, <1>9, <1>10, <1>11, <1>12 DEF Parting

\* A makefile begins, and its lines are under its name.
LEMMA PartingEnters ==
    ASSUME Sound, Parting, NEW s, NEW f, NEW owner, NEW part, NEW op, NEW b, NEW c,
           Enters(s, f, owner, part, op, b, c), op \in {"generate", "submodule"},
           b \in {"define", "append"}, c \in {"leave", "leave_sub"},
           DOMAIN f = 1 .. Len(f),
           \A k \in 1 .. Len(f) : /\ f[k].op \in {"generate", "want", "part", "noparts", "set"}
                                  /\ LineOK(f, k),
           NEW here, Place(owner, part) = here, PartsIn(here) = Args({"part"}, f),
           project' = project, SUBMODULES' = SUBMODULES,
           SUBMODULES_GENERATED \subseteq SUBMODULES_GENERATED', Begun' = Begun \cup {here},
           \A q \in SUBMODULES_GENERATED' \ SUBMODULES_GENERATED :
               \E d \in Begun' : \E x \in PartsIn(d) : q = d[2] \o x,
           op = "submodule" => Where(Head(work))[2] \o Head(work).arg \in SUBMODULES_GENERATED'
    PROVE  Parting'
<1>1. /\ Moves(work, s, owner, part, work') /\ Head(work).op = op
      /\ Placed /\ PartsQueued /\ Gathering /\ Expecting /\ Founded
  BY DEF Enters, Parting
<1>2. SUBMODULES = {}
  BY <1>1, Idle
<1>3. ASSUME NEW k \in 1 .. Len(s), s[k].op = "part"
      PROVE  Queued(work', Len(work') + 1 - k) /\ k \in 1 .. Len(f) /\ s[k] = f[k]
  <2>1. b # "part" /\ c # "part"
    OBVIOUS
  <2> QED BY <1>3, <2>1, QueuedFresh
<1>4. \A k \in 1 .. Len(s) : s[k].op # "submodule"
  <2> DEFINE ops == {"generate", "want", "part", "noparts", "set"}
  <2>1. \A k \in 1 .. Len(f) : f[k].op \in ops
    OBVIOUS
  <2> HIDE DEF ops
  <2>2. \A k \in 1 .. Len(s) : s[k].op \in ops \cup {"submodules", b, c}
    BY <2>1, EnterOps
  <2> QED BY <2>2 DEF ops
<1>5. Placed'
  <2>1. ASSUME NEW k \in 1 .. Len(s), s[k].op \in {"part", "submodule"}
        PROVE  Place(owner, part) \in Begun' /\ s[k].arg \in PartsIn(Place(owner, part))
    <3>1. s[k].op = "part" /\ k \in DOMAIN f /\ s[k] = f[k]
      BY <1>3, <1>4, <2>1
    <3>2. s[k].arg \in Args({"part"}, f)
      BY <3>1 DEF Args
    <3> QED BY <3>2
  <2> QED BY <1>1, <2>1, PlacedStep
<1>6. PartsQueued'
  BY <1>1, <1>3, PartsQueuedStep
<1>7. Gathering'
  BY <1>2 DEF Gathering
<1>8. Expecting'
  <2>1. ASSUME NEW d \in Begun, NEW x \in PartsIn(d),
               Head(work).op \in {"part", "submodule"}, Head(work).arg = x, Where(Head(work)) = d
        PROVE  Met(d, x)'
    <3>1. d[2] \o x \in SUBMODULES_GENERATED'
      BY <1>1, <2>1
    <3> QED BY <3>1 DEF Met
  <2>2. ASSUME NEW d \in Begun' \ Begun, NEW x \in PartsIn(d) PROVE Met(d, x)'
    <3>1. d = here /\ x \in Args({"part"}, f)
      BY <2>2
    <3>2. PICK k \in 1 .. Len(f) : f[k].op = "part" /\ f[k].arg = x
      BY <3>1 DEF Args
    <3>3. k \in 1 .. Len(s) /\ s[k] = f[k]
      BY <3>2 DEF Enters, ThenList
    <3>4. Awaits(work', here, x)
      BY <1>1, <3>2, <3>3, AwaitsKept
    <3> QED BY <3>1, <3>4 DEF Met
  <2> QED BY <1>1, <1>2, <2>1, <2>2, ExpectingStep
<1>9. Founded'
  BY <1>1, FoundedStep
<1> QED BY <1>5, <1>6, <1>7, <1>8, <1>9 DEF Parting

LEMMA PartingModule == ASSUME Sound, Parting, GenerateModule PROVE Parting'
<1> DEFINE f == project.files[Arg]
           here == <<"module", Arg>>
<1>1. /\ \A k \in 1 .. Len(f) : /\ f[k].op \in {"generate", "want", "part", "noparts", "set"}
                                /\ LineOK(f, k)
      /\ \E s : Enters(s, f, Arg, NONE, "generate", "define", "leave")
      /\ Arg \in Files
  BY ModuleStep DEF Statement
<1>2. DOMAIN f = 1 .. Len(f)
  BY <1>1, ProjectFacts DEF Sound, Typed
<1>3. PartsIn(here) = Args({"part"}, f)
  BY DEF PartsIn
<1>4. Place(Arg, NONE) = here
  BY DEF Place
<1>5. /\ project' = project /\ SUBMODULES' = SUBMODULES
      /\ SUBMODULES_GENERATED' = SUBMODULES_GENERATED
      /\ MODULES_GENERATED' = MODULES_GENERATED \cup {Arg}
  BY DEF GenerateModule, submodules
<1>6. Begun' = Begun \cup {here}
  BY <1>5 DEF Begun
<1> HIDE DEF f, here
<1>7. PICK s : Enters(s, f, Arg, NONE, "generate", "define", "leave")
  BY <1>1
<1> QED BY <1>1, <1>2, <1>3, <1>4, <1>5, <1>6, <1>7, PartingEnters

LEMMA PartingSubmodule == ASSUME Sound, Parting, GenerateSubmodule PROVE Parting'
<1> DEFINE f == project.parts[Path]
           owner == Head(work).owner
           part == Head(work).part \o Arg
           here == <<"submodule", Path>>
<1>1. /\ \A k \in 1 .. Len(f) : /\ f[k].op \in {"generate", "want", "part", "noparts", "set"}
                                /\ LineOK(f, k)
      /\ \E s : Enters(s, f, owner, part, "submodule", "append", "leave_sub")
      /\ Path \in Paths /\ Path = owner \o part /\ part # NONE
  BY SubmoduleStep DEF PartStatement
<1>2. DOMAIN f = 1 .. Len(f)
  BY <1>1, ProjectFacts DEF Sound, Typed
<1>3. PartsIn(here) = Args({"part"}, f)
  BY DEF PartsIn
<1>4. Place(owner, part) = here
  BY <1>1 DEF Place
<1>5. /\ project' = project /\ SUBMODULES' = SUBMODULES
      /\ SUBMODULES_GENERATED' = SUBMODULES_GENERATED \cup {Path}
      /\ MODULES_GENERATED' = MODULES_GENERATED
  BY DEF GenerateSubmodule, modules
<1>6. Begun' = Begun \cup {here}
  BY <1>5 DEF Begun
<1> HIDE DEF f, here, owner, part
<1>7. PICK s : Enters(s, f, owner, part, "submodule", "append", "leave_sub")
  BY <1>1
<1>8. Where(Head(work))[2] \o Head(work).arg = Path
  BY HeadPlace DEF GenerateSubmodule
<1>9. \E d \in Begun' : \E x \in PartsIn(d) : Path = d[2] \o x
  <2>1. Len(work) \in 1 .. Len(work) /\ Head(work) = At(work, Len(work)) /\ Head(work).op = "submodule"
    BY <1>7 DEF Enters, Moves
  <2>2. Where(Head(work)) \in Begun /\ Head(work).arg \in PartsIn(Where(Head(work)))
    BY <2>1 DEF Parting, Placed
  <2> QED BY <1>6, <1>8, <2>2
<1> QED BY <1>1, <1>2, <1>3, <1>4, <1>5, <1>6, <1>7, <1>8, <1>9, PartingEnters

LEMMA PartingNext == ASSUME Sound, Parting, [Next]_vars PROVE Parting'
<1>1. CASE GenerateModules
  BY <1>1, PartingModules
<1>2. CASE GenerateModule
  BY <1>2, PartingModule
<1>3. CASE GenerateSubmodules
  BY <1>3, PartingSubmodules
<1>4. CASE GenerateSubmodule
  BY <1>4, PartingSubmodule
<1>5. CASE Part \/ Want \/ Set
  BY <1>5, PartingLine
<1>6. CASE GeneratedAlready \/ DefineModule \/ LeaveModule \/ LeaveSubmodule
             \/ SubmoduleGeneratedAlready \/ NoParts
  BY <1>6, PartingQuiet
<1>7. CASE UNCHANGED vars
  <2>1. /\ work' = work /\ project' = project /\ SUBMODULES' = SUBMODULES
        /\ SUBMODULES_GENERATED' = SUBMODULES_GENERATED /\ MODULES_GENERATED' = MODULES_GENERATED
    BY <1>7 DEF vars, modules, submodules
  <2>2. Begun' = Begun /\ \A c : PartsIn(c)' = PartsIn(c)
    BY <2>1, Constantly DEF Begun
  <2> QED BY <2>1, <2>2 DEF Parting, Placed, PartsQueued, Gathering, Expecting, Founded, Met
<1> QED BY <1>1, <1>2, <1>3, <1>4, <1>5, <1>6, <1>7 DEF Next

\* At the end every part that a makefile names has been generated, and no other.
LEMMA PartsOnce ==
    ASSUME Sound, Parting, work = <<>>
    PROVE  SUBMODULES_GENERATED = PartsNamed
<1>1. \A c, x : ~ Awaits(work, c, x)
  BY DEF Awaits
<1>2. SUBMODULES = {}
  BY DEF Parting, Gathering
<1>3. \A c \in Begun : \A x \in PartsIn(c) : c[2] \o x \in SUBMODULES_GENERATED
  BY <1>1, <1>2 DEF Parting, Expecting, Met
<1>4. \A q \in SUBMODULES_GENERATED : \E c \in Begun : \E x \in PartsIn(c) : q = c[2] \o x
  BY DEF Parting, Founded
<1>5. ASSUME NEW q PROVE q \in PartsNamed <=> \E c \in Begun : \E x \in PartsIn(c) : q = c[2] \o x
  <2>1. ASSUME NEW m \in MODULES_GENERATED
        PROVE  /\ <<"module", m>> \in Begun
               /\ PartsIn(<<"module", m>>) = Args({"part"}, project.files[m])
    BY DEF Begun, PartsIn
  <2>2. ASSUME NEW p \in SUBMODULES_GENERATED
        PROVE  /\ <<"submodule", p>> \in Begun
               /\ PartsIn(<<"submodule", p>>) = Args({"part"}, project.parts[p])
    BY DEF Begun, PartsIn
  <2>3. ASSUME NEW c \in Begun
        PROVE  \/ \E m \in MODULES_GENERATED : c = <<"module", m>>
               \/ \E p \in SUBMODULES_GENERATED : c = <<"submodule", p>>
    BY DEF Begun
  <2>4. q \in PartsNamed <=>
          \/ \E m \in MODULES_GENERATED : \E x \in Args({"part"}, project.files[m]) : q = m \o x
          \/ \E p \in SUBMODULES_GENERATED : \E x \in Args({"part"}, project.parts[p]) : q = p \o x
    <3> DEFINE ofModules == {{m \o x : x \in Args({"part"}, project.files[m])} : m \in MODULES_GENERATED}
               ofSubmodules == {{p \o x : x \in Args({"part"}, project.parts[p])} :
                                 p \in SUBMODULES_GENERATED}
    <3>1. q \in PartsNamed <=> (q \in UNION ofModules \/ q \in UNION ofSubmodules)
      BY DEF PartsNamed
    <3>2. q \in UNION ofModules <=>
            \E m \in MODULES_GENERATED : \E x \in Args({"part"}, project.files[m]) : q = m \o x
      OBVIOUS
    <3>3. q \in UNION ofSubmodules <=>
            \E p \in SUBMODULES_GENERATED : \E x \in Args({"part"}, project.parts[p]) : q = p \o x
      OBVIOUS
    <3> QED BY <3>1, <3>2, <3>3
  <2>5. ASSUME q \in PartsNamed PROVE \E c \in Begun : \E x \in PartsIn(c) : q = c[2] \o x
    <3>1. CASE \E m \in MODULES_GENERATED : \E x \in Args({"part"}, project.files[m]) : q = m \o x
      <4>1. PICK m \in MODULES_GENERATED : \E x \in Args({"part"}, project.files[m]) : q = m \o x
        BY <3>1
      <4>2. <<"module", m>>[2] = m
        OBVIOUS
      <4> QED BY <2>1, <4>1, <4>2
    <3>2. CASE \E p \in SUBMODULES_GENERATED : \E x \in Args({"part"}, project.parts[p]) : q = p \o x
      <4>1. PICK p \in SUBMODULES_GENERATED :
              \E x \in Args({"part"}, project.parts[p]) : q = p \o x
        BY <3>2
      <4>2. <<"submodule", p>>[2] = p
        OBVIOUS
      <4> QED BY <2>2, <4>1, <4>2
    <3> QED BY <2>4, <2>5, <3>1, <3>2
  <2>6. ASSUME NEW c \in Begun, NEW x \in PartsIn(c), q = c[2] \o x PROVE q \in PartsNamed
    <3>1. CASE \E m \in MODULES_GENERATED : c = <<"module", m>>
      <4>1. PICK m \in MODULES_GENERATED : c = <<"module", m>>
        BY <3>1
      <4>2. c[2] = m /\ x \in Args({"part"}, project.files[m])
        BY <2>1, <4>1
      <4> QED BY <2>4, <2>6, <4>2
    <3>2. CASE \E p \in SUBMODULES_GENERATED : c = <<"submodule", p>>
      <4>1. PICK p \in SUBMODULES_GENERATED : c = <<"submodule", p>>
        BY <3>2
      <4>2. c[2] = p /\ x \in Args({"part"}, project.parts[p])
        BY <2>2, <4>1
      <4> QED BY <2>4, <2>6, <4>2
    <3> QED BY <2>3, <3>1, <3>2
  <2> QED BY <2>5, <2>6
<1>6. ASSUME NEW q PROVE q \in PartsNamed <=> q \in SUBMODULES_GENERATED
  <2>1. q \in PartsNamed <=> \E c \in Begun : \E x \in PartsIn(c) : q = c[2] \o x
    BY <1>5
  <2>2. (\E c \in Begun : \E x \in PartsIn(c) : q = c[2] \o x) <=> q \in SUBMODULES_GENERATED
    BY <1>3, <1>4
  <2> QED BY <2>1, <2>2
<1> QED BY <1>6

Once == Sound /\ Defining /\ Reaching /\ Looping /\ Parting

\* For every project: no module has its rules twice; and when Make has evaluated
\* everything, the modules that the first one reaches have been generated and have
\* their rules, no other, and of submodules exactly those that they name.
THEOREM ModulesGeneratedOnce == Spec => []EveryModuleOnce
<1>1. Init => Once
  BY SoundInit, DefiningInit, ReachingInit, LoopingInit, PartingInit DEF Once
<1>2. Once /\ [Next]_vars => Once'
  BY SoundNext, DefiningNext, ReachingNext, LoopingNext, PartingNext DEF Once
<1>3. Once => EveryModuleOnce
  BY ModulesOnce, PartsOnce DEF Once, EveryModuleOnce
<1> QED BY <1>1, <1>2, <1>3, PTL DEF Spec

-----------------------------------------------------------------------------
(***************************************************************************)
(* The part of GenerationEnds that needs no fairness.  A step generates a  *)
(* new module or submodule, of which a project has only so many, or lowers *)
(* a number: the entries left, where one that queues a name weighs as much *)
(* as all that the queue can make of it.                                   *)
(***************************************************************************)
Adding(w) == {h \in 1 .. Len(w) : At(w, h).op \in {"want", "part"}}
Weight(w, k) == Len(w) + (k + 1) * Cardinality(Adding(w))
Waiting(names, k) == IF names = {} THEN 0 ELSE k + 1

StepsLeft ==
    LET k == Len(project.order)
    IN Weight(work, k) + Waiting(MODULES, k) + Waiting(SUBMODULES, k)

Grows(generated, others) ==
    /\ generated' # generated /\ generated \subseteq generated'
    /\ others' = others

Progress ==
    \/ Grows(MODULES_GENERATED, SUBMODULES_GENERATED)
    \/ Grows(SUBMODULES_GENERATED, MODULES_GENERATED)
    \/ /\ UNCHANGED <<MODULES_GENERATED, SUBMODULES_GENERATED>>
       /\ StepsLeft' \in Nat /\ StepsLeft' < StepsLeft

\* Filter never lengthens a list.
LEMMA FilterShortens ==
    ASSUME NEW T, NEW list \in Seq(T), NEW names
    PROVE  Len(Filter(names, list)) <= Len(list)
<1>1. PICK f : Filters(f, T, names, list)
  BY FilterSteps
<1>2. /\ f \in [0 .. Len(list) -> Seq(T)]
      /\ f[0] = <<>>
      /\ \A n \in 1 .. Len(list) :
            f[n] = IF list[n] \in names THEN Append(f[n - 1], list[n]) ELSE f[n - 1]
      /\ Filter(names, list) = f[Len(list)]
  BY <1>1 DEF Filters
<1> DEFINE S == {n \in Nat : n <= Len(list) => Len(f[n]) <= n}
<1>3. 0 \in S
  BY <1>2
<1>4. ASSUME NEW n \in Nat, n \in S PROVE n + 1 \in S
  <2> SUFFICES ASSUME n + 1 <= Len(list) PROVE Len(f[n + 1]) <= n + 1
    OBVIOUS
  <2>1. /\ n \in 0 .. Len(list) /\ n + 1 \in 1 .. Len(list) /\ (n + 1) - 1 = n
        /\ Len(f[n]) <= n
    BY <1>4
  <2>2. f[n] \in Seq(T) /\ list[n + 1] \in T /\ Len(f[n]) \in Nat
    BY <1>2, <2>1
  <2>3. f[n + 1] = Append(f[n], list[n + 1]) \/ f[n + 1] = f[n]
    BY <1>2, <2>1
  <2>4. Len(Append(f[n], list[n + 1])) = Len(f[n]) + 1
    BY <2>2
  <2> HIDE DEF S
  <2>5. Len(f[n + 1]) \in {Len(f[n]), Len(f[n]) + 1}
    BY <2>3, <2>4
  <2> QED BY <2>1, <2>2, <2>5
<1>5. Len(list) \in S
  <2> HIDE DEF S
  <2>1. Nat \subseteq S
    BY <1>3, <1>4, Induction
  <2> QED BY <2>1
<1> QED BY <1>2, <1>5

\* What a generator puts into work: at most the whole order and itself.
LEMMA AgainShort ==
    ASSUME project \in Projects, NEW op \in Ops, NEW again \in Ops, NEW names
    PROVE  /\ Len(project.order) \in Nat
           /\ Len(Again(op, names, again)) \in 0 .. Len(project.order) + 1
           /\ names = {} => Len(Again(op, names, again)) = 0
<1> DEFINE sorted == Sorted(names)
           each == Each(op, sorted)
<1>1. /\ sorted \in Seq(Name) /\ project.order \in Seq(Name)
      /\ \A k \in 1 .. Len(sorted) : sorted[k] \in names
  BY SortedFacts, ProjectFacts
<1>2. Len(sorted) <= Len(project.order)
  <2>1. project.order \in Seq(Name)
    BY <1>1
  <2> HIDE DEF Name, sorted
  <2>2. Len(Filter(names, project.order)) <= Len(project.order)
    BY <2>1, FilterShortens
  <2> QED BY <2>2 DEF sorted, Sorted
<1> HIDE DEF sorted
<1>3. each \in Seq(Task) /\ Len(each) = Len(sorted)
  BY <1>1, EachFacts
<1> HIDE DEF each
<1>4. Len(sorted) \in Nat /\ Len(project.order) \in Nat
  BY <1>1
<1>5. CASE sorted = <<>>
  <2>1. Again(op, names, again) = <<>>
    BY <1>5 DEF Again, sorted
  <2>2. Len(Again(op, names, again)) = 0
    BY <2>1
  <2> QED BY <1>4, <2>2
<1>6. CASE sorted # <<>>
  <2>1. Again(op, names, again) = Append(each, [op |-> again, arg |-> NONE])
    BY <1>6 DEF Again, sorted, each
  <2>2. PICK last : last = [op |-> again, arg |-> NONE]
    OBVIOUS
  <2>3. last \in Task
    <3>1. NONE \in Name
      BY EmptySeq DEF Name, NONE
    <3> QED BY <2>2, <3>1 DEF Task
  <2>4. Len(Append(each, last)) = Len(each) + 1
    BY <1>3, <2>3
  <2>5. names # {}
    <3>1. Len(sorted) # 0
      BY <1>1, <1>6
    <3>2. 1 \in 1 .. Len(sorted)
      BY <1>4, <3>1
    <3> QED BY <1>1, <3>2
  <2> QED BY <1>2, <1>3, <1>4, <2>1, <2>2, <2>4, <2>5
<1> QED BY <1>5, <1>6

\* The entries that queue a name can be counted.
LEMMA AddingFacts ==
    ASSUME NEW w, Len(w) \in Nat
    PROVE  IsFiniteSet(Adding(w)) /\ Cardinality(Adding(w)) \in Nat
<1>1. IsFiniteSet(1 .. Len(w))
  BY FS_Interval
<1>2. Adding(w) \subseteq 1 .. Len(w)
  BY DEF Adding
<1>3. IsFiniteSet(Adding(w))
  BY <1>1, <1>2, FS_Subset
<1> QED BY <1>3, FS_CardinalityType

Queues(s) == \E k \in 1 .. Len(s) : s[k].op \in {"want", "part"}

Weighed(w, s, new, k) ==
    /\ Weight(w, k) \in Nat /\ Weight(new, k) \in Nat
    /\ Weight(new, k) = Weight(w, k) - 1 + Len(s)
         - (IF Head(w).op \in {"want", "part"} THEN k + 1 ELSE 0)

\* What an entry that makes way for others weighs.
LEMMA WeightMoves ==
    ASSUME NEW w, NEW s, NEW owner, NEW part, NEW new, Moves(w, s, owner, part, new),
           ~Queues(s), NEW k \in Nat
    PROVE  Weighed(w, s, new, k)
<1>1. /\ Len(w) \in Nat \ {0} /\ Len(s) \in Nat /\ Len(new) = Len(w) - 1 + Len(s)
      /\ Head(w) = At(w, Len(w)) /\ Len(new) \in Nat
  BY DEF Moves
<1>2. Adding(new) = Adding(w) \ {Len(w)}
  <2>1. ASSUME NEW h \in Adding(new) PROVE h \in Adding(w) \ {Len(w)}
    <3>1. h \in 1 .. Len(new) /\ At(new, h).op \in {"want", "part"}
      BY DEF Adding
    <3>2. CASE h \in 1 .. Len(w) - 1 /\ At(new, h) = At(w, h)
      BY <1>1, <3>1, <3>2 DEF Adding
    <3>3. CASE /\ Len(new) + 1 - h \in 1 .. Len(s)
               /\ At(new, h) = EntryFor(s[Len(new) + 1 - h], owner, part)
      BY <3>1, <3>3 DEF EntryFor, Queues
    <3> QED BY <3>1, <3>2, <3>3 DEF Moves
  <2>2. ASSUME NEW h \in Adding(w) \ {Len(w)} PROVE h \in Adding(new)
    <3>1. h \in 1 .. Len(w) /\ h # Len(w) /\ At(w, h).op \in {"want", "part"}
      BY DEF Adding
    <3>2. h \in 1 .. Len(new) /\ At(new, h) = At(w, h)
      BY <3>1 DEF Moves
    <3> QED BY <3>1, <3>2 DEF Adding
  <2> QED BY <2>1, <2>2
<1>3. PICK c : c = Cardinality(Adding(w))
  OBVIOUS
<1>4. PICK d : d = Cardinality(Adding(new))
  OBVIOUS
<1>5. c \in Nat /\ d \in Nat /\ IsFiniteSet(Adding(w))
  BY <1>1, <1>3, <1>4, AddingFacts
<1>6. Len(w) \in Adding(w) <=> Head(w).op \in {"want", "part"}
  BY <1>1 DEF Adding
<1>7. Weight(w, k) = Len(w) + (k + 1) * c /\ Weight(new, k) = Len(new) + (k + 1) * d
  BY <1>3, <1>4 DEF Weight
<1>8. CASE Head(w).op \in {"want", "part"}
  <2>1. d = c - 1
    BY <1>2, <1>3, <1>4, <1>5, <1>6, <1>8, FS_RemoveElement
  <2>2. (k + 1) * d = (k + 1) * c - (k + 1)
    BY <1>5, <2>1
  <2>3. (k + 1) * d \in Nat /\ (k + 1) * c \in Nat
    BY <1>5
  <2> QED BY <1>1, <1>7, <1>8, <2>2, <2>3 DEF Weighed
<1>9. CASE Head(w).op \notin {"want", "part"}
  <2>1. d = c
    BY <1>2, <1>3, <1>4, <1>6, <1>9
  <2>2. (k + 1) * c \in Nat
    BY <1>5
  <2> QED BY <1>1, <1>7, <1>9, <2>1, <2>2 DEF Weighed
<1> QED BY <1>8, <1>9

\* Dropping the head lowers the weight.
LEMMA DropProgress ==
    ASSUME Sound, NEW op, Evaluate(op), Do(<<>>), NEW k \in Nat
    PROVE  /\ Weight(work, k) \in Nat /\ Weight(work', k) \in Nat
           /\ Weight(work', k) = Weight(work, k) - 1
                - (IF op \in {"want", "part"} THEN k + 1 ELSE 0)
<1> DEFINE none == <<>>
<1>1. /\ Head(work).op = op
      /\ Moves(work, none, Head(work).owner, Head(work).part, work')
  BY DropStep DEF Drops
<1>2. Len(none) = 0 /\ ~Queues(none)
  BY DEF Queues
<1> HIDE DEF none
<1>3. Weighed(work, none, work', k)
  BY <1>1, <1>2, WeightMoves
<1> QED BY <1>1, <1>2, <1>3 DEF Weighed

\* A generator that turns a queue into entries.
LEMMA AgainProgress ==
    ASSUME Sound, NEW names, NEW op \in Ops, NEW again \in Ops,
           op # again, op \notin {"want", "part"}, again \notin {"want", "part"},
           Evaluate(again), Do(Again(op, names, again))
    PROVE  LET k == Len(project.order)
           IN /\ k \in Nat
              /\ Weight(work, k) \in Nat /\ Weight(work', k) \in Nat
              /\ Weight(work', k) <= Weight(work, k) + k
              /\ names = {} => Weight(work', k) < Weight(work, k)
<1> DEFINE k == Len(project.order)
           s == Again(op, names, again)
<1>1. project \in Projects
  BY DEF Sound, Typed
<1>2. k \in Nat /\ Len(s) \in 0 .. k + 1 /\ (names = {} => Len(s) = 0)
  BY <1>1, AgainShort
<1>3. AgainList(s, op, names, again)
  BY <1>1, AgainFacts
<1>4. work # <<>> /\ Head(work).op = again
  BY DEF Evaluate
<1>5. Do(s)
  OBVIOUS
<1> HIDE DEF s, k
<1>6. Replacement(work, s, Head(work).owner, Head(work).part, work')
  BY <1>3, <1>4, <1>5, DoReplaces DEF AgainList
<1>7. ~Queues(s)
  BY <1>3 DEF AgainList, Queues
<1>8. Moves(work, s, Head(work).owner, Head(work).part, work')
  BY <1>6, Moved
<1>9. Weighed(work, s, work', k)
  BY <1>2, <1>7, <1>8, WeightMoves
<1>10. /\ Weight(work, k) \in Nat /\ Weight(work', k) \in Nat
       /\ Weight(work', k) = Weight(work, k) - 1 + Len(s)
  BY <1>4, <1>9 DEF Weighed
<1>11. /\ k \in Nat
       /\ Weight(work, k) \in Nat /\ Weight(work', k) \in Nat
       /\ Weight(work', k) <= Weight(work, k) + k
       /\ names = {} => Weight(work', k) < Weight(work, k)
  BY <1>2, <1>10
<1> QED BY <1>11 DEF k

\* One step per action: what is generated grows, or the number falls.
LEMMA ProgressNext == ASSUME Sound, Next PROVE Progress
<1>1. PICK k : k = Len(project.order)
  OBVIOUS
<1>2. project \in Projects
  BY DEF Sound, Typed
<1>3. k \in Nat /\ project' = project
  <2>1. project' = project
    BY DEF Next, GenerateModules, GenerateModule, GeneratedAlready, DefineModule, LeaveModule,
           GenerateSubmodules, GenerateSubmodule, SubmoduleGeneratedAlready, LeaveSubmodule,
           Want, Part, NoParts, Set
  <2> QED BY <1>1, <1>2, <2>1, ProjectFacts
<1>4. /\ StepsLeft = Weight(work, k) + Waiting(MODULES, k) + Waiting(SUBMODULES, k)
      /\ StepsLeft' = Weight(work', k) + Waiting(MODULES', k) + Waiting(SUBMODULES', k)
  BY <1>1, <1>3 DEF StepsLeft
<1>5. \A names : Waiting(names, k) \in {0, k + 1} /\ (Waiting(names, k) = 0 <=> names = {})
  BY <1>3 DEF Waiting
<1>6. CASE GenerateModule
  <2>1. Arg \in MODULES_GENERATED' /\ Arg \notin MODULES_GENERATED
        /\ MODULES_GENERATED \subseteq MODULES_GENERATED'
        /\ SUBMODULES_GENERATED' = SUBMODULES_GENERATED
    BY <1>6 DEF GenerateModule, submodules
  <2>2. Grows(MODULES_GENERATED, SUBMODULES_GENERATED)
    BY <2>1 DEF Grows
  <2> QED BY <2>2 DEF Progress
<1>7. CASE GenerateSubmodule
  <2>1. Path \in SUBMODULES_GENERATED' /\ Path \notin SUBMODULES_GENERATED
        /\ SUBMODULES_GENERATED \subseteq SUBMODULES_GENERATED'
        /\ MODULES_GENERATED' = MODULES_GENERATED
    BY <1>7 DEF GenerateSubmodule, modules
  <2>2. Grows(SUBMODULES_GENERATED, MODULES_GENERATED)
    BY <2>1 DEF Grows
  <2> QED BY <2>2 DEF Progress
<1>8. CASE GenerateModules
  <2>1. PICK names : names = MODULES \ MODULES_GENERATED
    OBVIOUS
  <2>2. Evaluate("modules") /\ Do(Again("generate", names, "modules"))
    BY <1>8, <2>1 DEF GenerateModules, Again
  <2>3. "generate" \in Ops /\ "modules" \in Ops
    BY DEF Ops
  <2>4. /\ Weight(work, k) \in Nat /\ Weight(work', k) \in Nat
        /\ Weight(work', k) <= Weight(work, k) + k
        /\ names = {} => Weight(work', k) < Weight(work, k)
    BY <1>1, <2>2, <2>3, AgainProgress
  <2>5. /\ MODULES' = {} /\ SUBMODULES' = SUBMODULES
        /\ UNCHANGED <<MODULES_GENERATED, SUBMODULES_GENERATED>>
    BY <1>8 DEF GenerateModules, submodules
  <2>6. MODULES = {} => names = {}
    BY <2>1
  <2> QED BY <1>3, <1>4, <1>5, <2>4, <2>5, <2>6 DEF Progress
<1>9. CASE GenerateSubmodules
  <2>1. PICK names : names = SUBMODULES \ SUBMODULES_GENERATED
    OBVIOUS
  <2>2. Evaluate("submodules") /\ Do(Again("submodule", names, "submodules"))
    BY <1>9, <2>1 DEF GenerateSubmodules, Again
  <2>3. "submodule" \in Ops /\ "submodules" \in Ops
    BY DEF Ops
  <2>4. /\ Weight(work, k) \in Nat /\ Weight(work', k) \in Nat
        /\ Weight(work', k) <= Weight(work, k) + k
        /\ names = {} => Weight(work', k) < Weight(work, k)
    BY <1>1, <2>2, <2>3, AgainProgress
  <2>5. /\ SUBMODULES' = {} /\ MODULES' = MODULES
        /\ UNCHANGED <<MODULES_GENERATED, SUBMODULES_GENERATED>>
    BY <1>9 DEF GenerateSubmodules, modules
  <2>6. SUBMODULES = {} => names = {}
    BY <2>1
  <2> QED BY <1>3, <1>4, <1>5, <2>4, <2>5, <2>6 DEF Progress
<1>10. CASE Want \/ Part
  <2>1. PICK op \in {"want", "part"} : Evaluate(op) /\ Do(<<>>)
    BY <1>10 DEF Want, Part
  <2>2. /\ Weight(work, k) \in Nat /\ Weight(work', k) \in Nat
        /\ Weight(work', k) = Weight(work, k) - 1 - (k + 1)
    BY <1>3, <2>1, DropProgress
  <2>3. /\ UNCHANGED <<MODULES_GENERATED, SUBMODULES_GENERATED>>
        /\ MODULES' = MODULES \/ SUBMODULES' = SUBMODULES
    BY <1>10 DEF Want, Part, modules, submodules
  <2> QED BY <1>3, <1>4, <1>5, <2>2, <2>3 DEF Progress
<1>11. CASE \/ GeneratedAlready \/ LeaveModule \/ SubmoduleGeneratedAlready \/ DefineModule
            \/ LeaveSubmodule \/ NoParts \/ Set
  <2>1. PICK op : op \notin {"want", "part"} /\ Evaluate(op) /\ Do(<<>>)
    BY <1>11 DEF GeneratedAlready, LeaveModule, SubmoduleGeneratedAlready, DefineModule,
                 LeaveSubmodule, NoParts, Set
  <2>2. /\ Weight(work, k) \in Nat /\ Weight(work', k) \in Nat
        /\ Weight(work', k) = Weight(work, k) - 1
    BY <1>3, <2>1, DropProgress
  <2>3. /\ UNCHANGED <<MODULES_GENERATED, SUBMODULES_GENERATED>>
        /\ MODULES' = MODULES /\ SUBMODULES' \in {{}, SUBMODULES}
    BY <1>11 DEF GeneratedAlready, LeaveModule, SubmoduleGeneratedAlready, DefineModule,
                 LeaveSubmodule, NoParts, Set, modules, submodules
  <2>4. Waiting(SUBMODULES', k) <= Waiting(SUBMODULES, k)
    BY <1>3, <1>5, <2>3
  <2> QED BY <1>3, <1>4, <1>5, <2>2, <2>3, <2>4 DEF Progress
<1> QED BY <1>6, <1>7, <1>8, <1>9, <1>10, <1>11 DEF Next

\* Every step of Make generates a module or submodule that was not there, and forgets
\* none, or lowers a number: with the finitely many makefiles of a project, circular
\* uses cannot keep the generator busy for ever.
THEOREM GenerationRunsOut == Spec => [][Progress]_vars
<1>1. Sound /\ [Next]_vars => [Progress]_vars
  BY ProgressNext
<1> QED BY <1>1, AlwaysSound, PTL DEF Spec

-----------------------------------------------------------------------------
(***************************************************************************)
(* The kernel after its configuration.                                     *)
(***************************************************************************)
Makes(m) == Args({"generate"}, project.files[m])
Wants(m) == Args({"want"}, project.files[m])

\* Every entry is a generated module's or none's, and a line in its makefile.
Sourced ==
    \A h \in 1 .. Len(work) :
        LET e == At(work, h)
        IN /\ e.owner \in MODULES_GENERATED \cup {NONE}
           /\ e.op = "modules" => e.owner = NONE
           /\ e.op = "want" => e.owner # NONE /\ e.arg \in Wants(e.owner)
           /\ e.op = "generate" => e.owner = NONE \/ e.arg \in Makes(e.owner)

\* What the queue still has to generate waits for every makefile that runs.
Rounds ==
    \A g, h \in 1 .. Len(work) :
        At(work, g).op = "define" /\ At(work, h).owner = NONE => h < g

\* Nothing comes but the first module and what a generated one queues or generates.
Named ==
    /\ \A m \in MODULES : m = project.root \/ \E u \in MODULES_GENERATED : m \in Wants(u)
    /\ \A m : Coming(m) => m = project.root \/ \E u \in MODULES_GENERATED : m \in Uses(u)

Ahead(w, m) == \E h \in 1 .. Len(w) : At(w, h).op = "generate" /\ At(w, h).arg = m
Started(m) == m \in MODULES_GENERATED \/ Ahead(work, m)
OnlyQueued(m) == m # project.root /\ \A u \in Files : m \notin Makes(u)

\* A module that is only queued starts when one that queues it is done.
AfterUser ==
    \A m : OnlyQueued(m) /\ Started(m) => \E u \in Entered(defined) : m \in Wants(u)

\* Below the height h nothing is evaluated before arch is generated and done.
ArchFirst(w, h) ==
    \E g \in 1 .. Len(w) : h < g /\ \/ At(w, g).op = "generate" /\ At(w, g).arg = arch
                                    \/ At(w, g).op = "define" /\ At(w, g).owner = arch

\* The emulator, which generates the kernel, comes behind arch.
EmulatorLate ==
    arch \notin Entered(defined) =>
        /\ emulator \notin MODULES_GENERATED
        /\ \A h \in 1 .. Len(work) :
             At(work, h).op = "generate" /\ At(work, h).arg = emulator => ArchFirst(work, h)

KernelLate == Started(kernel) => arch \in Entered(defined)

Configuring ==
    /\ Sourced /\ Rounds /\ Named /\ AfterUser
    /\ kernel \in Files => EmulatorLate /\ KernelLate

-----------------------------------------------------------------------------
Separated(list, x, y) == \A j, k \in DOMAIN list : list[j] = x /\ list[k] = y => j < k
LedBy(out, x, y) ==
    \A k \in 1 .. Len(out) : out[k] = y => \E j \in 1 .. Len(out) : j < k /\ out[j] = x

\* Filter keeps the order: if x is in the list, always before y, and is wanted, then
\* no y is kept without an x before it.
LEMMA FilterOrder ==
    ASSUME NEW T, NEW list \in Seq(T), NEW names, NEW x \in names, NEW y,
           NEW i \in 1 .. Len(list), list[i] = x, Separated(list, x, y)
    PROVE  LedBy(Filter(names, list), x, y)
<1> DEFINE Has(out) == \E j \in 1 .. Len(out) : out[j] = x
           Led(out) == LedBy(out, x, y)
<1>0. PICK f : Filters(f, T, names, list)
  BY FilterSteps
<1>1. /\ f \in [0 .. Len(list) -> Seq(T)]
      /\ f[0] = <<>>
      /\ \A n \in 1 .. Len(list) :
            f[n] = IF list[n] \in names THEN Append(f[n - 1], list[n]) ELSE f[n - 1]
      /\ Filter(names, list) = f[Len(list)]
  BY <1>0 DEF Filters
<1>2. Len(list) \in Nat
  OBVIOUS
<1> DEFINE S == {n \in Nat : n <= Len(list) => (i <= n => Has(f[n])) /\ Led(f[n])}
<1>3. 0 \in S
  BY <1>1 DEF LedBy
<1>4. ASSUME NEW n \in Nat, n \in S PROVE n + 1 \in S
  <2> SUFFICES ASSUME n + 1 <= Len(list)
               PROVE  (i <= n + 1 => Has(f[n + 1])) /\ Led(f[n + 1])
    OBVIOUS
  <2>1. /\ n \in 0 .. Len(list) /\ n + 1 \in 1 .. Len(list) /\ (n + 1) - 1 = n
        /\ (i <= n => Has(f[n])) /\ Led(f[n])
    BY <1>2, <1>4
  <2>2. f[n] \in Seq(T) /\ list[n + 1] \in T
    BY <1>1, <2>1
  <2> HIDE DEF S
  <2>3. CASE list[n + 1] \in names
    <3>1. f[n + 1] = Append(f[n], list[n + 1])
      BY <1>1, <2>1, <2>3
    <3>2. /\ Len(f[n + 1]) = Len(f[n]) + 1
          /\ \A k \in 1 .. Len(f[n]) : f[n + 1][k] = f[n][k]
          /\ f[n + 1][Len(f[n]) + 1] = list[n + 1]
      BY <2>2, <3>1
    <3>3. Len(f[n]) \in Nat
      BY <2>2
    <3>4. ASSUME Has(f[n]) PROVE \E j \in 1 .. Len(f[n + 1]) : j <= Len(f[n]) /\ f[n + 1][j] = x
      <4>1. PICK j \in 1 .. Len(f[n]) : f[n][j] = x
        BY <3>4
      <4>2. j \in 1 .. Len(f[n + 1]) /\ j <= Len(f[n]) /\ f[n + 1][j] = x
        BY <3>2, <3>3, <4>1
      <4> QED BY <4>2
    <3>5. ASSUME i <= n + 1 PROVE Has(f[n + 1])
      <4>1. CASE i = n + 1
        <5>1. Len(f[n]) + 1 \in 1 .. Len(f[n + 1]) /\ f[n + 1][Len(f[n]) + 1] = x
          BY <3>2, <3>3, <4>1
        <5> QED BY <5>1
      <4>2. CASE i <= n
        BY <2>1, <3>4, <4>2
      <4> QED BY <2>1, <3>5, <4>1, <4>2
    <3>6. ASSUME NEW k \in 1 .. Len(f[n + 1]), f[n + 1][k] = y
          PROVE  \E j \in 1 .. Len(f[n + 1]) : j < k /\ f[n + 1][j] = x
      <4>1. CASE k = Len(f[n]) + 1
        <5>1. list[n + 1] = y
          BY <3>2, <3>6, <4>1
        <5>2. i <= n
          <6>1. i \in DOMAIN list /\ n + 1 \in DOMAIN list
            BY <1>2, <2>1
          <6>2. i < n + 1
            BY <5>1, <6>1 DEF Separated
          <6> QED BY <1>2, <6>2
        <5>3. PICK j \in 1 .. Len(f[n + 1]) : j <= Len(f[n]) /\ f[n + 1][j] = x
          BY <2>1, <3>4, <5>2
        <5> QED BY <3>3, <4>1, <5>3
      <4>2. CASE k # Len(f[n]) + 1
        <5>1. k \in 1 .. Len(f[n])
          BY <3>2, <3>3, <4>2
        <5>2. f[n][k] = y
          BY <3>2, <3>6, <5>1
        <5>3. PICK j \in 1 .. Len(f[n]) : j < k /\ f[n][j] = x
          BY <2>1, <5>1, <5>2 DEF LedBy
        <5>4. j \in 1 .. Len(f[n + 1]) /\ f[n + 1][j] = x
          BY <3>2, <3>3, <5>3
        <5> QED BY <5>3, <5>4
      <4> QED BY <4>1, <4>2
    <3> QED BY <3>5, <3>6 DEF LedBy
  <2>4. CASE list[n + 1] \notin names
    <3>1. f[n + 1] = f[n]
      BY <1>1, <2>1, <2>4
    <3>2. i # n + 1
      BY <2>4
    <3>3. i <= n + 1 => i <= n
      BY <2>1, <3>2
    <3> QED BY <2>1, <3>1, <3>3
  <2> QED BY <2>3, <2>4
<1>5. Len(list) \in S
  <2> HIDE DEF S
  <2> QED BY <1>2, <1>3, <1>4, Induction
<1>6. LedBy(f[Len(list)], x, y)
  <2>1. Len(list) <= Len(list)
    BY <1>2
  <2> QED BY <1>5, <2>1
<1> QED BY <1>1, <1>6

Precedes(s, op, x, y) ==
    \A k \in 1 .. Len(s) : s[k].op = op /\ s[k].arg = y =>
        \E j \in 1 .. Len(s) : j < k /\ s[j].op = op /\ s[j].arg = x

\* So does the list that a generator leaves.
LEMMA AgainOrder ==
    ASSUME project \in Projects, NEW op \in Ops, NEW again \in Ops, op # again,
           NEW names, NEW x \in names, NEW y, InOrder(x), Separated(project.order, x, y)
    PROVE  Precedes(Again(op, names, again), op, x, y)
<1> DEFINE sorted == Sorted(names)
           each == Each(op, sorted)
           last == [op |-> again, arg |-> NONE]
           s == Again(op, names, again)
           none == <<>>
<1>1. sorted \in Seq(Name) /\ project.order \in Seq(Name)
  BY SortedFacts, ProjectFacts
<1>2. PICK i \in 1 .. Len(project.order) : project.order[i] = x
  BY DEF InOrder
<1>3. LedBy(sorted, x, y)
  <2>1. Sorted(names) = Filter(names, project.order)
    BY DEF Sorted
  <2> HIDE DEF Name, sorted
  <2>2. LedBy(Filter(names, project.order), x, y)
    BY <1>1, <1>2, FilterOrder
  <2> QED BY <2>1, <2>2 DEF sorted
<1> HIDE DEF sorted
<1>4. /\ each \in Seq(Task) /\ Len(each) = Len(sorted)
      /\ \A k \in 1 .. Len(sorted) : each[k] = [op |-> op, arg |-> sorted[k]]
  BY <1>1, EachFacts
<1> HIDE DEF each
<1>5. \A k \in 1 .. Len(sorted) : each[k].op = op /\ each[k].arg = sorted[k]
  <2> SUFFICES ASSUME NEW k \in 1 .. Len(sorted) PROVE each[k].op = op /\ each[k].arg = sorted[k]
    OBVIOUS
  <2>1. each[k] = [op |-> op, arg |-> sorted[k]]
    BY <1>4
  <2> QED BY <2>1
<1>6. Len(sorted) \in Nat
  BY <1>1
<1>7. CASE sorted = <<>>
  <2>1. s = none
    BY <1>7 DEF Again, sorted
  <2> HIDE DEF s
  <2>2. Precedes(s, op, x, y)
    BY <2>1 DEF Precedes
  <2> QED BY <2>2 DEF s
<1>8. CASE sorted # <<>>
  <2>1. s = Append(each, last)
    BY <1>8 DEF Again, sorted, each
  <2>2. last \in Task /\ last.op = again
    <3>1. NONE \in Name
      BY EmptySeq DEF Name, NONE
    <3> QED BY <3>1 DEF Task
  <2> HIDE DEF last, s
  <2>3. /\ Len(s) = Len(each) + 1 /\ s[Len(each) + 1] = last
        /\ \A k \in 1 .. Len(each) : s[k] = each[k]
    BY <1>4, <2>1, <2>2
  <2>4. ASSUME NEW k \in 1 .. Len(s), s[k].op = op, s[k].arg = y
        PROVE  \E j \in 1 .. Len(s) : j < k /\ s[j].op = op /\ s[j].arg = x
    <3>1. k # Len(each) + 1
      BY <2>2, <2>3, <2>4
    <3>2. k \in 1 .. Len(sorted)
      BY <1>4, <1>6, <2>3, <3>1
    <3>3. sorted[k] = y
      BY <1>4, <1>5, <2>3, <2>4, <3>2
    <3>4. PICK j \in 1 .. Len(sorted) : j < k /\ sorted[j] = x
      BY <1>3, <3>2, <3>3 DEF LedBy
    <3>5. j \in 1 .. Len(s) /\ s[j].op = op /\ s[j].arg = x
      BY <1>4, <1>5, <1>6, <2>3, <3>4
    <3> QED BY <3>4, <3>5
  <2>5. Precedes(s, op, x, y)
    BY <2>4 DEF Precedes
  <2> QED BY <2>5 DEF s
<1> QED BY <1>7, <1>8

\* The queue is turned into entries in order.
LEMMA ModulesInOrder ==
    ASSUME Sound, GenerateModules, NEW x \in MODULES \ MODULES_GENERATED, NEW y, InOrder(x),
           Separated(project.order, x, y)
    PROVE  \E s : /\ Lists(s, "generate", MODULES \ MODULES_GENERATED, "modules")
                  /\ Precedes(s, "generate", x, y)
<1> DEFINE names == MODULES \ MODULES_GENERATED
           s == Again("generate", names, "modules")
<1>1. work # <<>> /\ Head(work).op = "modules"
  BY DEF GenerateModules, Evaluate
<1>2. Do(s)
  BY DEF GenerateModules, Again
<1>3. "generate" \in Ops /\ "modules" \in Ops /\ project \in Projects /\ x \in names
  BY DEF Ops, Sound, Typed
<1> HIDE DEF names
<1>4. AgainList(s, "generate", names, "modules") /\ Precedes(s, "generate", x, y)
  BY <1>3, AgainFacts, AgainOrder
<1> HIDE DEF s
<1>5. Replacement(work, s, Head(work).owner, Head(work).part, work')
  BY <1>1, <1>2, <1>4, DoReplaces DEF AgainList
<1>6. Lists(s, "generate", names, "modules")
  BY <1>1, <1>4, <1>5, Moved DEF Lists
<1> QED BY <1>4, <1>6 DEF names

-----------------------------------------------------------------------------
\* A step that is neither of the generators of modules: the head makes way for
\* entries of its makefile that use, define and start nothing.
Dull(s, part) ==
    /\ work # <<>> /\ Moves(work, s, Head(work).owner, part, work')
    /\ \A k \in 1 .. Len(s) : s[k].op \notin {"generate", "want", "define", "modules"}
    /\ project' = project /\ MODULES_GENERATED' = MODULES_GENERATED
    /\ Entered(defined) \subseteq Entered(defined')
    /\ \/ MODULES' = MODULES
       \/ Head(work).op = "want" /\ MODULES' = MODULES \cup {Head(work).arg}
    /\ Head(work).op = "generate" => Head(work).arg \in MODULES_GENERATED
    /\ Head(work).op = "define" => Head(work).owner \in Entered(defined')

\* Every step is dull or one of the two.
LEMMA StepKinds ==
    ASSUME Sound, Next
    PROVE  GenerateModules \/ GenerateModule \/ \E s, part : Dull(s, part)
<1> DEFINE none == <<>>
<1>1. CASE \/ GeneratedAlready \/ LeaveModule \/ SubmoduleGeneratedAlready \/ DefineModule
           \/ LeaveSubmodule \/ Want \/ Part \/ NoParts \/ Set
  <2>1. PICK op : /\ Evaluate(op) /\ Do(<<>>)
                  /\ op = "generate" => Arg \in MODULES_GENERATED
                  /\ op = "define" => defined' = Append(defined, ModuleName)
                  /\ op # "define" => defined' = defined
                  /\ project' = project /\ MODULES_GENERATED' = MODULES_GENERATED
                  /\ MODULES' = MODULES \/ (op = "want" /\ MODULES' = MODULES \cup {Arg})
    BY <1>1 DEF GeneratedAlready, LeaveModule, SubmoduleGeneratedAlready, DefineModule,
                LeaveSubmodule, Want, Part, NoParts, Set, Evaluate, modules
  <2>2. /\ Moves(work, none, Head(work).owner, Head(work).part, work')
        /\ work # <<>> /\ Head(work).op = op
    BY <2>1, DropStep DEF Drops
  <2>3. \A k \in 1 .. Len(none) : none[k].op \notin {"generate", "want", "define", "modules"}
    OBVIOUS
  <2> HIDE DEF none
  <2>4. /\ Entered(defined) \subseteq Entered(defined')
        /\ op = "define" => Head(work).owner \in Entered(defined')
    <3>1. CASE op # "define"
      BY <2>1, <3>1
    <3>2. CASE op = "define"
      <4>1. /\ ModuleName = Head(work).owner /\ ModuleName \in Files \cup {NONE}
            /\ defined \in Seq(Files \cup {NONE})
        BY <2>2, HeadRuns DEF Sound, Typed, Stacked
      <4>2. PICK list : list = defined'
        OBVIOUS
      <4>3. list = Append(defined, Head(work).owner)
        BY <2>1, <3>2, <4>1, <4>2
      <4>4. /\ DOMAIN defined = 1 .. Len(defined) /\ Len(defined) \in Nat
            /\ DOMAIN list = 1 .. Len(defined) + 1
            /\ list[Len(defined) + 1] = Head(work).owner
            /\ \A k \in 1 .. Len(defined) : list[k] = defined[k]
        BY <4>1, <4>3
      <4>5. Len(defined) + 1 \in DOMAIN list /\ \A k \in 1 .. Len(defined) : k \in DOMAIN list
        BY <4>4
      <4>6. Entered(defined) \subseteq Entered(list) /\ Head(work).owner \in Entered(list)
        BY <4>4, <4>5 DEF Entered
      <4> QED BY <4>2, <4>6
    <3> QED BY <3>1, <3>2
  <2>5. Dull(none, Head(work).part)
    BY <2>1, <2>2, <2>3, <2>4 DEF Dull, Arg
  <2> QED BY <2>5
<1>2. CASE GenerateSubmodules
  <2>1. PICK s : Lists(s, "submodule", SUBMODULES \ SUBMODULES_GENERATED, "submodules")
    BY <1>2, SubmodulesStep
  <2>2. \A k \in 1 .. Len(s) : s[k].op \notin {"generate", "want", "define", "modules"}
    BY <2>1 DEF Lists, AgainList
  <2>3. /\ work # <<>> /\ Moves(work, s, Head(work).owner, Head(work).part, work')
        /\ Head(work).op = "submodules"
    BY <2>1 DEF Lists
  <2>4. /\ project' = project /\ MODULES' = MODULES /\ MODULES_GENERATED' = MODULES_GENERATED
        /\ defined' = defined
    BY <1>2 DEF GenerateSubmodules, modules
  <2>5. Dull(s, Head(work).part)
    BY <2>2, <2>3, <2>4 DEF Dull
  <2> QED BY <2>5
<1>3. CASE GenerateSubmodule
  <2> DEFINE f == project.parts[Path]
             owner == Head(work).owner
             part == Head(work).part \o Arg
             ops == {"part", "noparts", "set"}
  <2>1. /\ \A k \in 1 .. Len(f) : f[k].op \in ops
        /\ \E s : Enters(s, f, owner, part, "submodule", "append", "leave_sub")
    BY <1>3, SubmoduleStep DEF PartStatement
  <2> HIDE DEF f, owner, part, ops
  <2>2. PICK s : Enters(s, f, owner, part, "submodule", "append", "leave_sub")
    BY <2>1
  <2>3. \A k \in 1 .. Len(s) : s[k].op \in ops \cup {"submodules", "append", "leave_sub"}
    BY <2>1, <2>2, EnterOps
  <2>4. \A k \in 1 .. Len(s) : s[k].op \notin {"generate", "want", "define", "modules"}
    BY <2>3 DEF ops
  <2>5. /\ work # <<>> /\ Moves(work, s, owner, part, work') /\ Head(work).op = "submodule"
    BY <2>2 DEF Enters
  <2>6. /\ project' = project /\ MODULES' = MODULES /\ MODULES_GENERATED' = MODULES_GENERATED
        /\ defined' = defined
    BY <1>3 DEF GenerateSubmodule, modules
  <2>7. Dull(s, part)
    BY <2>4, <2>5, <2>6 DEF Dull, owner
  <2> QED BY <2>7
<1> QED BY <1>1, <1>2, <1>3 DEF Next

\* The entries after a dull step.
LEMMA DullEntries ==
    ASSUME NEW s, NEW part, Dull(s, part)
    PROVE  /\ Len(work) \in 1 .. Len(work) /\ Head(work) = At(work, Len(work))
           /\ \A h \in 1 .. Len(work') :
                \/ h \in 1 .. Len(work) /\ h < Len(work) /\ At(work', h) = At(work, h)
                \/ /\ At(work', h).owner = Head(work).owner
                   /\ At(work', h).op \notin {"generate", "want", "define", "modules"}
           /\ \A h \in 1 .. Len(work) :
                h = Len(work) \/ (h \in 1 .. Len(work') /\ At(work', h) = At(work, h))
<1>1. Moves(work, s, Head(work).owner, part, work')
  BY DEF Dull
<1>2. Len(work) \in Nat \ {0} /\ Head(work) = At(work, Len(work))
  BY <1>1 DEF Moves
<1>3. ASSUME NEW h \in 1 .. Len(work')
      PROVE  \/ h \in 1 .. Len(work) /\ h < Len(work) /\ At(work', h) = At(work, h)
             \/ /\ At(work', h).owner = Head(work).owner
                /\ At(work', h).op \notin {"generate", "want", "define", "modules"}
  <2>1. CASE h \in 1 .. Len(work) - 1 /\ At(work', h) = At(work, h)
    BY <1>2, <2>1
  <2>2. CASE /\ Len(work') + 1 - h \in 1 .. Len(s)
             /\ At(work', h) = EntryFor(s[Len(work') + 1 - h], Head(work).owner, part)
    BY <2>2 DEF Dull, EntryFor
  <2> QED BY <1>1, <2>1, <2>2 DEF Moves
<1>4. \A h \in 1 .. Len(work) :
        h = Len(work) \/ (h \in 1 .. Len(work') /\ At(work', h) = At(work, h))
  BY <1>1 DEF Moves
<1> QED BY <1>2, <1>3, <1>4

\* If the head is nobody's, no makefile runs and every generated module is done.
LEMMA NobodyRuns ==
    ASSUME Defining, Rounds, Len(work) \in 1 .. Len(work), At(work, Len(work)).owner = NONE
    PROVE  /\ \A h \in 1 .. Len(work) : At(work, h).op # "define"
           /\ MODULES_GENERATED = Entered(defined)
<1>1. Len(work) \in Nat
  OBVIOUS
<1>2. ASSUME NEW h \in 1 .. Len(work), At(work, h).op = "define" PROVE FALSE
  <2>1. Len(work) < h
    BY <1>2 DEF Rounds
  <2> QED BY <1>1, <2>1
<1>3. MODULES_GENERATED \subseteq Entered(defined)
  BY <1>2 DEF Defining, DefiningFor
<1>4. Entered(defined) \subseteq MODULES_GENERATED
  BY DEF Defining, DefiningFor
<1> QED BY <1>2, <1>3, <1>4

\* What KernelAssumption says of the project.
LEMMA KernelFacts ==
    ASSUME project \in Projects, kernel \in Files
    PROVE  /\ project.root = product
           /\ \A u \in Files :
                /\ board \in Wants(u) <=> u = product
                /\ platform \in Wants(u) <=> u = board
                /\ arch \in Wants(u) <=> u = platform
                /\ kernel \in Wants(u) <=> u = arch
                /\ board \notin Makes(u) /\ platform \notin Makes(u) /\ arch \notin Makes(u)
                /\ kernel \in Makes(u) => u = emulator
                /\ emulator \notin Makes(u)
                /\ emulator \in Wants(u) =>
                     u # product /\ \A v \in Files : u \in Uses(v) => v = platform
           /\ platform \in Files
           /\ Separated(project.order, arch, emulator)
<1>1. PICK p : p = project
  OBVIOUS
<1>2. p \in Projects /\ kernel \in DOMAIN p.files
  BY <1>1 DEF Files
<1>3. /\ p.root = product
      /\ \A pair \in {<<product, board>>, <<board, platform>>, <<platform, arch>>} :
           UsersOf(p, "want", pair[2]) = {pair[1]} /\ UsersOf(p, "generate", pair[2]) = {}
      /\ UsersOf(p, "want", kernel) = {arch} /\ UsersOf(p, "generate", kernel) \subseteq {emulator}
      /\ UsersOf(p, "generate", emulator) = {}
      /\ \A u \in UsersOf(p, "want", emulator) :
           u # product /\ UsersOf(p, "want", u) = {} /\ UsersOf(p, "generate", u) \subseteq {platform}
      /\ \A j, k \in DOMAIN p.order : p.order[j] = arch /\ p.order[k] = emulator => j < k
  BY <1>2, KernelAssumption
<1>4. /\ UsersOf(p, "want", board) = {product} /\ UsersOf(p, "generate", board) = {}
      /\ UsersOf(p, "want", platform) = {board} /\ UsersOf(p, "generate", platform) = {}
      /\ UsersOf(p, "want", arch) = {platform} /\ UsersOf(p, "generate", arch) = {}
  <2>1. /\ <<product, board>>[1] = product /\ <<product, board>>[2] = board
        /\ <<board, platform>>[1] = board /\ <<board, platform>>[2] = platform
        /\ <<platform, arch>>[1] = platform /\ <<platform, arch>>[2] = arch
    OBVIOUS
  <2> QED BY <1>3, <2>1
<1>5. \A m, u : /\ u \in UsersOf(p, "want", m) <=> u \in Files /\ m \in Wants(u)
                /\ u \in UsersOf(p, "generate", m) <=> u \in Files /\ m \in Makes(u)
  BY <1>1 DEF UsersOf, Files, Wants, Makes
<1>6. \A m, u : m \in Uses(u) => m \in Wants(u) \/ m \in Makes(u)
  BY DEF Uses, Wants, Makes, Args
<1>7. project.root = product /\ Separated(project.order, arch, emulator)
  BY <1>1, <1>3 DEF Separated
<1>8. platform \in Files
  BY <1>4, <1>5
<1> HIDE DEF product, board, platform, arch, emulator, kernel
<1>9. ASSUME NEW u \in Files
      PROVE  /\ board \in Wants(u) <=> u = product
             /\ platform \in Wants(u) <=> u = board
             /\ arch \in Wants(u) <=> u = platform
             /\ kernel \in Wants(u) <=> u = arch
             /\ board \notin Makes(u) /\ platform \notin Makes(u) /\ arch \notin Makes(u)
             /\ kernel \in Makes(u) => u = emulator
             /\ emulator \notin Makes(u)
             /\ emulator \in Wants(u) =>
                  u # product /\ \A v \in Files : u \in Uses(v) => v = platform
  <2>1. /\ board \in Wants(u) <=> u = product
        /\ platform \in Wants(u) <=> u = board
        /\ arch \in Wants(u) <=> u = platform
    BY <1>4, <1>5
  <2>2. kernel \in Wants(u) <=> u = arch
    BY <1>3, <1>5
  <2>3. board \notin Makes(u) /\ platform \notin Makes(u) /\ arch \notin Makes(u)
    BY <1>4, <1>5
  <2>4. (kernel \in Makes(u) => u = emulator) /\ emulator \notin Makes(u)
    BY <1>3, <1>5
  <2>5. ASSUME emulator \in Wants(u)
        PROVE  u # product /\ \A v \in Files : u \in Uses(v) => v = platform
    <3>1. /\ u # product /\ UsersOf(p, "want", u) = {}
          /\ UsersOf(p, "generate", u) \subseteq {platform}
      BY <1>3, <1>5, <2>5
    <3> QED BY <1>5, <1>6, <3>1
  <2> QED BY <2>1, <2>2, <2>3, <2>4, <2>5
<1> QED BY <1>7, <1>8, <1>9

\* The makefiles stay what they are.
LEMMA SameFiles ==
    ASSUME project' = project
    PROVE  /\ \A m : Makes(m)' = Makes(m) /\ Wants(m)' = Wants(m) /\ Uses(m)' = Uses(m)
           /\ Files' = Files /\ project.root' = project.root
BY DEF Makes, Wants, Uses, Args, Files

\* A use is one of two kinds.
LEMMA UseKinds == \A u, m : m \in Uses(u) <=> m \in Wants(u) \/ m \in Makes(u)
BY DEF Uses, Wants, Makes, Args

\* What a dull step leaves as it is.
LEMMA DullKeeps ==
    ASSUME Sourced, NEW s, NEW part, Dull(s, part)
    PROVE  /\ \A m : Started(m)' => Started(m)
           /\ \A m : Coming(m)' => Coming(m)
           /\ Entered(defined) \subseteq Entered(defined)'
<1>1. /\ Len(work) \in 1 .. Len(work) /\ Head(work) = At(work, Len(work))
      /\ \A h \in 1 .. Len(work') :
           \/ h \in 1 .. Len(work) /\ h < Len(work) /\ At(work', h) = At(work, h)
           \/ /\ At(work', h).owner = Head(work).owner
              /\ At(work', h).op \notin {"generate", "want", "define", "modules"}
  BY DullEntries
<1>2. ASSUME NEW m, Ahead(work', m) PROVE Ahead(work, m)
  <2>1. PICK h \in 1 .. Len(work') : At(work', h).op = "generate" /\ At(work', h).arg = m
    BY <1>2 DEF Ahead
  <2>2. h \in 1 .. Len(work) /\ At(work', h) = At(work, h)
    BY <1>1, <2>1
  <2> QED BY <2>1, <2>2 DEF Ahead
<1>3. ASSUME NEW m, Listed(work', m) PROVE Listed(work, m)
  <2>1. PICK h \in 1 .. Len(work') :
            At(work', h).op \in {"generate", "want"} /\ At(work', h).arg = m
    BY <1>3 DEF Listed
  <2>2. h \in 1 .. Len(work) /\ At(work', h) = At(work, h)
    BY <1>1, <2>1
  <2> QED BY <2>1, <2>2 DEF Listed
<1>4. MODULES_GENERATED' = MODULES_GENERATED /\ Entered(defined) \subseteq Entered(defined')
  BY DEF Dull
<1>5. \A m \in MODULES' : m \in MODULES \/ Listed(work, m)
  BY <1>1 DEF Dull, Listed
<1>6. \A m : Started(m)' => Started(m)
  BY <1>2, <1>4 DEF Started
<1>7. \A m : Coming(m)' => Coming(m)
  BY <1>3, <1>4, <1>5 DEF Coming
<1>8. Entered(defined) \subseteq Entered(defined)'
  BY <1>4 DEF Entered
<1> QED BY <1>6, <1>7, <1>8

\* The parts of Configuring, kept by a dull step.
LEMMA SourcedDull == ASSUME Sourced, NEW s, NEW part, Dull(s, part) PROVE Sourced'
<1>1. /\ Len(work) \in 1 .. Len(work) /\ Head(work) = At(work, Len(work))
      /\ \A h \in 1 .. Len(work') :
           \/ h \in 1 .. Len(work) /\ h < Len(work) /\ At(work', h) = At(work, h)
           \/ /\ At(work', h).owner = Head(work).owner
              /\ At(work', h).op \notin {"generate", "want", "define", "modules"}
  BY DullEntries
<1>2. project' = project /\ MODULES_GENERATED' = MODULES_GENERATED
  BY DEF Dull
<1>3. Head(work).owner \in MODULES_GENERATED \cup {NONE}
  BY <1>1 DEF Sourced
<1>4. ASSUME NEW h \in 1 .. Len(work')
      PROVE  /\ At(work', h).owner \in MODULES_GENERATED' \cup {NONE}
             /\ At(work', h).op = "modules" => At(work', h).owner = NONE
             /\ At(work', h).op = "want" =>
                  At(work', h).owner # NONE /\ At(work', h).arg \in Wants(At(work', h).owner)
             /\ At(work', h).op = "generate" =>
                  At(work', h).owner = NONE \/ At(work', h).arg \in Makes(At(work', h).owner)
  <2>1. CASE h \in 1 .. Len(work) /\ At(work', h) = At(work, h)
    BY <1>2, <2>1 DEF Sourced
  <2>2. CASE /\ At(work', h).owner = Head(work).owner
             /\ At(work', h).op \notin {"generate", "want", "define", "modules"}
    BY <1>2, <1>3, <2>2
  <2> QED BY <1>1, <2>1, <2>2
<1>5. \A m : Makes(m)' = Makes(m) /\ Wants(m)' = Wants(m)
  BY <1>2, SameFiles
<1> QED BY <1>4, <1>5 DEF Sourced, NONE, At

LEMMA RoundsDull == ASSUME Rounds, NEW s, NEW part, Dull(s, part) PROVE Rounds'
<1>1. /\ Len(work) \in 1 .. Len(work) /\ Head(work) = At(work, Len(work))
      /\ \A h \in 1 .. Len(work') :
           \/ h \in 1 .. Len(work) /\ h < Len(work) /\ At(work', h) = At(work, h)
           \/ /\ At(work', h).owner = Head(work).owner
              /\ At(work', h).op \notin {"generate", "want", "define", "modules"}
  BY DullEntries
<1>2. ASSUME NEW g \in 1 .. Len(work'), NEW h \in 1 .. Len(work'),
             At(work', g).op = "define", At(work', h).owner = NONE
      PROVE  h < g
  <2>1. g \in 1 .. Len(work) /\ g < Len(work) /\ At(work, g).op = "define"
    BY <1>1, <1>2
  <2>2. CASE h \in 1 .. Len(work) /\ At(work', h) = At(work, h)
    BY <1>2, <2>1, <2>2 DEF Rounds
  <2>3. CASE At(work', h).owner = Head(work).owner
    <3>1. Len(work) < g
      BY <1>1, <1>2, <2>1, <2>3 DEF Rounds
    <3>2. FALSE
      BY <1>1, <2>1, <3>1
    <3> QED BY <3>2
  <2> QED BY <1>1, <2>2, <2>3
<1> QED BY <1>2 DEF Rounds, NONE, At

LEMMA NamedDull == ASSUME Sourced, Named, NEW s, NEW part, Dull(s, part) PROVE Named'
<1>1. project' = project /\ MODULES_GENERATED' = MODULES_GENERATED
  BY DEF Dull
<1>2. /\ \A m : Makes(m)' = Makes(m) /\ Wants(m)' = Wants(m) /\ Uses(m)' = Uses(m)
      /\ project.root' = project.root
  BY <1>1, SameFiles
<1>3. Len(work) \in 1 .. Len(work) /\ Head(work) = At(work, Len(work))
  BY DullEntries
<1>4. ASSUME NEW m \in MODULES'
      PROVE  m = project.root \/ \E u \in MODULES_GENERATED : m \in Wants(u)
  <2>1. CASE m \in MODULES
    BY <2>1 DEF Named
  <2>2. CASE Head(work).op = "want" /\ m = Head(work).arg
    <3>1. Head(work).owner \in MODULES_GENERATED /\ m \in Wants(Head(work).owner)
      BY <1>3, <2>2 DEF Sourced
    <3> QED BY <3>1
  <2> QED BY <2>1, <2>2 DEF Dull
<1>5. \A m : Coming(m)' => m = project.root \/ \E u \in MODULES_GENERATED : m \in Uses(u)
  BY DullKeeps DEF Named
<1> QED BY <1>1, <1>2, <1>4, <1>5 DEF Named

LEMMA AfterUserDull ==
    ASSUME Sourced, AfterUser, NEW s, NEW part, Dull(s, part)
    PROVE  AfterUser'
<1>1. project' = project
  BY DEF Dull
<1>2. /\ \A m : Makes(m)' = Makes(m) /\ Wants(m)' = Wants(m)
      /\ Files' = Files /\ project.root' = project.root
  BY <1>1, SameFiles
<1>3. \A m : OnlyQueued(m)' <=> OnlyQueued(m)
  BY <1>2 DEF OnlyQueued
<1>4. (\A m : Started(m)' => Started(m)) /\ Entered(defined) \subseteq Entered(defined)'
  BY DullKeeps
<1> QED BY <1>2, <1>3, <1>4 DEF AfterUser

LEMMA LateDull ==
    ASSUME Sound, Defining, Sourced, Rounds, EmulatorLate, KernelLate, kernel \in Files,
           NEW s, NEW part, Dull(s, part)
    PROVE  EmulatorLate' /\ KernelLate'
<1>1. /\ Len(work) \in 1 .. Len(work) /\ Head(work) = At(work, Len(work))
      /\ \A h \in 1 .. Len(work') :
           \/ h \in 1 .. Len(work) /\ h < Len(work) /\ At(work', h) = At(work, h)
           \/ /\ At(work', h).owner = Head(work).owner
              /\ At(work', h).op \notin {"generate", "want", "define", "modules"}
      /\ \A h \in 1 .. Len(work) :
           h = Len(work) \/ (h \in 1 .. Len(work') /\ At(work', h) = At(work, h))
  BY DullEntries
<1>2. /\ \A m : Started(m)' => Started(m)
      /\ Entered(defined) \subseteq Entered(defined)'
      /\ MODULES_GENERATED' = MODULES_GENERATED
  BY DullKeeps DEF Dull
<1>3. arch' = arch /\ kernel' = kernel /\ emulator' = emulator
  BY DEF arch, kernel, emulator
<1>4. KernelLate'
  BY <1>2, <1>3 DEF KernelLate
<1>5. ASSUME arch \notin Entered(defined)'
      PROVE  ~ \/ Head(work).op = "generate" /\ Head(work).arg = arch
               \/ Head(work).op = "define" /\ Head(work).owner = arch
  <2>1. Head(work).op = "define" => Head(work).owner \in Entered(defined')
    BY DEF Dull
  <2>2. CASE Head(work).op = "generate" /\ Head(work).arg = arch
    <3>1. arch \in MODULES_GENERATED
      BY <2>2 DEF Dull
    <3>2. Head(work).owner # NONE
      BY <1>1, <1>2, <1>5, <3>1, NobodyRuns
    <3>3. arch \in Makes(Head(work).owner) /\ Head(work).owner \in MODULES_GENERATED
      BY <1>1, <2>2, <3>2 DEF Sourced
    <3>4. Head(work).owner \in Files /\ project \in Projects
      BY <3>3 DEF Sound, Typed
    <3> QED BY <3>3, <3>4, KernelFacts
  <2> QED BY <1>5, <2>1, <2>2 DEF Entered
<1>6. ASSUME arch \notin Entered(defined)', NEW h \in 1 .. Len(work'),
             At(work', h).op = "generate", At(work', h).arg = emulator
      PROVE  ArchFirst(work', h)
  <2>1. h \in 1 .. Len(work) /\ At(work', h) = At(work, h)
    BY <1>1, <1>6
  <2>2. ArchFirst(work, h)
    BY <1>2, <1>6, <2>1 DEF EmulatorLate
  <2>3. PICK g \in 1 .. Len(work) :
            h < g /\ \/ At(work, g).op = "generate" /\ At(work, g).arg = arch
                     \/ At(work, g).op = "define" /\ At(work, g).owner = arch
    BY <2>2 DEF ArchFirst
  <2>4. g # Len(work)
    BY <1>1, <1>5, <1>6, <2>3
  <2>5. g \in 1 .. Len(work') /\ At(work', g) = At(work, g)
    BY <1>1, <2>4
  <2> QED BY <2>3, <2>5 DEF ArchFirst
<1>7. arch \notin Entered(defined)' => emulator \notin MODULES_GENERATED'
  BY <1>2 DEF EmulatorLate
<1>8. EmulatorLate'
  BY <1>3, <1>6, <1>7 DEF EmulatorLate, ArchFirst, At
<1> QED BY <1>4, <1>8

-----------------------------------------------------------------------------
\* The entries after a module's makefile has been entered.
EntersModule(x) ==
    /\ x \in Files /\ x = Head(work).arg /\ Head(work).op = "generate"
    /\ Len(work) \in 1 .. Len(work) /\ Head(work) = At(work, Len(work))
    /\ \A h \in 1 .. Len(work') :
         \/ h \in 1 .. Len(work) /\ h < Len(work) /\ At(work', h) = At(work, h)
         \/ /\ At(work', h).owner = x /\ h >= Len(work)
            /\ At(work', h).op # "modules"
            /\ At(work', h).op = "want" => At(work', h).arg \in Wants(x)
            /\ At(work', h).op = "generate" => At(work', h).arg \in Makes(x)
    /\ \A h \in 1 .. Len(work) :
         h = Len(work) \/ (h \in 1 .. Len(work') /\ At(work', h) = At(work, h))
    /\ \E h \in 1 .. Len(work') :
         h >= Len(work) /\ At(work', h).op = "define" /\ At(work', h).owner = x
    /\ project' = project /\ MODULES' = MODULES /\ defined' = defined
    /\ MODULES_GENERATED' = MODULES_GENERATED \cup {x}

LEMMA EnterFacts == ASSUME Sound, GenerateModule PROVE \E x : EntersModule(x)
<1> DEFINE f == project.files[Arg]
<1>1. /\ Arg \in Files
      /\ \A k \in 1 .. Len(f) : f[k] \in Statement
      /\ \E s : Enters(s, f, Arg, NONE, "generate", "define", "leave")
  BY ModuleStep
<1>2. \A k \in 1 .. Len(f) :
        /\ f[k].op \in {"generate", "want", "part", "noparts", "set"}
        /\ f[k].op = "want" => f[k].arg \in Wants(Arg)
        /\ f[k].op = "generate" => f[k].arg \in Makes(Arg)
  <2>1. DOMAIN f = 1 .. Len(f)
    BY <1>1, ProjectFacts DEF Sound, Typed
  <2>2. Wants(Arg) = Args({"want"}, f) /\ Makes(Arg) = Args({"generate"}, f)
    BY DEF Wants, Makes
  <2> HIDE DEF f
  <2> QED BY <1>1, <2>1, <2>2 DEF Statement, Args
<1> HIDE DEF f
<1>3. PICK s : Enters(s, f, Arg, NONE, "generate", "define", "leave")
  BY <1>1
<1>4. /\ Moves(work, s, Arg, NONE, work') /\ Head(work).op = "generate"
      /\ ThenList(s, f, "submodules", "define", "leave")
  BY <1>3 DEF Enters
<1>5. Len(work) \in Nat \ {0} /\ Head(work) = At(work, Len(work))
  BY <1>4 DEF Moves
<1>6. ASSUME NEW k \in 1 .. Len(s)
      PROVE  /\ s[k].op # "modules"
             /\ s[k].op = "want" => s[k].arg \in Wants(Arg)
             /\ s[k].op = "generate" => s[k].arg \in Makes(Arg)
  <2>1. k \in 1 .. Len(f) \/ k = Len(f) + 1 \/ k = Len(f) + 2 \/ k = Len(f) + 3
    BY <1>4 DEF ThenList
  <2>2. CASE k \in 1 .. Len(f)
    <3>1. s[k] = f[k]
      BY <1>4, <2>2 DEF ThenList
    <3> QED BY <1>2, <2>2, <3>1
  <2>3. CASE k = Len(f) + 1 \/ k = Len(f) + 2 \/ k = Len(f) + 3
    <3>1. s[k].op \in {"submodules", "define", "leave"}
      BY <1>4, <2>3 DEF ThenList
    <3> QED BY <3>1
  <2> QED BY <2>1, <2>2, <2>3
<1>7. ASSUME NEW h \in 1 .. Len(work')
      PROVE  \/ h \in 1 .. Len(work) /\ h < Len(work) /\ At(work', h) = At(work, h)
             \/ /\ At(work', h).owner = Arg /\ h >= Len(work)
                /\ At(work', h).op # "modules"
                /\ At(work', h).op = "want" => At(work', h).arg \in Wants(Arg)
                /\ At(work', h).op = "generate" => At(work', h).arg \in Makes(Arg)
  <2>1. CASE h \in 1 .. Len(work) - 1 /\ At(work', h) = At(work, h)
    BY <1>5, <2>1
  <2>2. CASE /\ h \in Len(work) .. Len(work') /\ Len(work') + 1 - h \in 1 .. Len(s)
             /\ At(work', h) = EntryFor(s[Len(work') + 1 - h], Arg, NONE)
    <3>1. h >= Len(work)
      BY <1>5, <2>2
    <3>2. PICK k \in 1 .. Len(s) : At(work', h) = EntryFor(s[k], Arg, NONE)
      BY <2>2
    <3>3. /\ At(work', h).op = s[k].op /\ At(work', h).arg = s[k].arg
          /\ At(work', h).owner = Arg
      BY <3>2 DEF EntryFor
    <3> QED BY <1>6, <3>1, <3>3
  <2> QED BY <1>4, <2>1, <2>2 DEF Moves
<1>8. \A h \in 1 .. Len(work) :
        h = Len(work) \/ (h \in 1 .. Len(work') /\ At(work', h) = At(work, h))
  BY <1>4 DEF Moves
<1>9. \E h \in 1 .. Len(work') :
        h >= Len(work) /\ At(work', h).op = "define" /\ At(work', h).owner = Arg
  <2>1. Len(f) + 2 \in 1 .. Len(s) /\ s[Len(f) + 2].op = "define"
    BY <1>4 DEF ThenList
  <2>2. PICK d \in 1 .. Len(s) : s[d].op = "define"
    BY <2>1
  <2>3. PICK h : h = Len(work') + 1 - d
    OBVIOUS
  <2>4. /\ h \in 1 .. Len(work') /\ h >= Len(work)
        /\ At(work', h) = EntryFor(s[d], Arg, NONE)
    BY <1>4, <2>3 DEF Moves
  <2>5. At(work', h).op = "define" /\ At(work', h).owner = Arg
    BY <2>2, <2>4 DEF EntryFor
  <2> QED BY <2>4, <2>5
<1>10. /\ project' = project /\ MODULES' = MODULES /\ defined' = defined
       /\ MODULES_GENERATED' = MODULES_GENERATED \cup {Arg}
  BY DEF GenerateModule
<1>11. Len(work) \in 1 .. Len(work) /\ Arg = Head(work).arg
  BY <1>5 DEF Arg
<1>12. EntersModule(Arg)
  BY <1>1, <1>4, <1>5, <1>7, <1>8, <1>9, <1>10, <1>11 DEF EntersModule
<1> QED BY <1>12

\* The parts of Configuring, kept when a makefile is entered.
LEMMA SourcedEnter == ASSUME Sound, Sourced, NEW x, EntersModule(x) PROVE Sourced'
<1>1. x # NONE /\ project' = project /\ MODULES_GENERATED' = MODULES_GENERATED \cup {x}
  BY ApartFacts DEF EntersModule, NamesApart, Sound, Typed
<1>2. \A m : Makes(m)' = Makes(m) /\ Wants(m)' = Wants(m)
  BY <1>1, SameFiles
<1>3. ASSUME NEW h \in 1 .. Len(work')
      PROVE  /\ At(work', h).owner \in MODULES_GENERATED' \cup {NONE}
             /\ At(work', h).op = "modules" => At(work', h).owner = NONE
             /\ At(work', h).op = "want" =>
                  At(work', h).owner # NONE /\ At(work', h).arg \in Wants(At(work', h).owner)
             /\ At(work', h).op = "generate" =>
                  At(work', h).owner = NONE \/ At(work', h).arg \in Makes(At(work', h).owner)
  <2>1. CASE h \in 1 .. Len(work) /\ At(work', h) = At(work, h)
    BY <1>1, <2>1 DEF Sourced
  <2>2. CASE /\ At(work', h).owner = x
             /\ At(work', h).op # "modules"
             /\ At(work', h).op = "want" => At(work', h).arg \in Wants(x)
             /\ At(work', h).op = "generate" => At(work', h).arg \in Makes(x)
    BY <1>1, <2>2
  <2> QED BY <2>1, <2>2 DEF EntersModule
<1> QED BY <1>2, <1>3 DEF Sourced, NONE, At

LEMMA RoundsEnter == ASSUME Sound, Rounds, NEW x, EntersModule(x) PROVE Rounds'
<1>1. x # NONE
  BY ApartFacts DEF EntersModule, NamesApart, Sound, Typed
<1>2. ASSUME NEW g \in 1 .. Len(work'), NEW h \in 1 .. Len(work'),
             At(work', g).op = "define", At(work', h).owner = NONE
      PROVE  h < g
  <2>1. h \in 1 .. Len(work) /\ h < Len(work) /\ At(work', h) = At(work, h)
    BY <1>1, <1>2 DEF EntersModule
  <2>2. CASE g \in 1 .. Len(work) /\ At(work', g) = At(work, g)
    BY <1>2, <2>1, <2>2 DEF Rounds
  <2>3. CASE g >= Len(work)
    <3>1. Len(work) \in Nat
      BY DEF EntersModule
    <3> QED BY <2>1, <2>3, <3>1
  <2> QED BY <2>2, <2>3 DEF EntersModule
<1> QED BY <1>2 DEF Rounds, NONE, At

LEMMA NamedEnter == ASSUME Sound, Named, NEW x, EntersModule(x) PROVE Named'
<1>1. /\ project' = project /\ MODULES_GENERATED' = MODULES_GENERATED \cup {x}
      /\ MODULES' = MODULES
  BY DEF EntersModule
<1>2. /\ \A m : Makes(m)' = Makes(m) /\ Wants(m)' = Wants(m) /\ Uses(m)' = Uses(m)
      /\ project.root' = project.root
  BY <1>1, SameFiles
<1>3. ASSUME NEW m, Coming(m)'
      PROVE  m = project.root \/ \E u \in MODULES_GENERATED' : m \in Uses(u)
  <2>1. Coming(m) \/ m \in Uses(x)
    <3>1. CASE m \in MODULES \cup MODULES_GENERATED
      BY <3>1 DEF Coming
    <3>2. CASE m = x
      <4>1. Listed(work, x)
        BY DEF Listed, EntersModule
      <4> QED BY <3>2, <4>1 DEF Coming
    <3>3. CASE Listed(work', m)
      <4>1. PICK h \in 1 .. Len(work') :
                At(work', h).op \in {"generate", "want"} /\ At(work', h).arg = m
        BY <3>3 DEF Listed
      <4>2. CASE h \in 1 .. Len(work) /\ At(work', h) = At(work, h)
        BY <4>1, <4>2 DEF Listed, Coming
      <4>3. CASE /\ At(work', h).op = "want" => At(work', h).arg \in Wants(x)
                 /\ At(work', h).op = "generate" => At(work', h).arg \in Makes(x)
        BY <4>1, <4>3, UseKinds
      <4> QED BY <4>2, <4>3 DEF EntersModule
    <3> QED BY <1>1, <1>3, <3>1, <3>2, <3>3 DEF Coming
  <2> QED BY <1>1, <2>1 DEF Named
<1>4. \A m \in MODULES' : m = project.root \/ \E u \in MODULES_GENERATED' : m \in Wants(u)
  BY <1>1 DEF Named
<1> QED BY <1>2, <1>3, <1>4 DEF Named

\* What starts when a makefile is entered: what it generates.
LEMMA StartedEnter ==
    ASSUME NEW x, EntersModule(x), NEW m, Started(m)'
    PROVE  Started(m) \/ m \in Makes(x)
<1>1. CASE m \in MODULES_GENERATED
  BY <1>1 DEF Started
<1>2. CASE m = x
  <2>1. Ahead(work, x)
    BY DEF Ahead, EntersModule
  <2> QED BY <1>2, <2>1 DEF Started
<1>3. CASE Ahead(work', m)
  <2>1. PICK h \in 1 .. Len(work') : At(work', h).op = "generate" /\ At(work', h).arg = m
    BY <1>3 DEF Ahead
  <2>2. CASE h \in 1 .. Len(work) /\ At(work', h) = At(work, h)
    BY <2>1, <2>2 DEF Ahead, Started
  <2>3. CASE At(work', h).op = "generate" => At(work', h).arg \in Makes(x)
    BY <2>1, <2>3
  <2> QED BY <2>2, <2>3 DEF EntersModule
<1>4. MODULES_GENERATED' = MODULES_GENERATED \cup {x}
  BY DEF EntersModule
<1> QED BY <1>1, <1>2, <1>3, <1>4 DEF Started

LEMMA AfterUserEnter == ASSUME AfterUser, NEW x, EntersModule(x) PROVE AfterUser'
<1>1. project' = project /\ x \in Files /\ defined' = defined
  BY DEF EntersModule
<1>2. /\ \A m : Makes(m)' = Makes(m) /\ Wants(m)' = Wants(m)
      /\ Files' = Files /\ project.root' = project.root
  BY <1>1, SameFiles
<1>3. \A m : OnlyQueued(m)' <=> OnlyQueued(m)
  BY <1>2 DEF OnlyQueued
<1>4. Entered(defined)' = Entered(defined)
  BY <1>1 DEF Entered
<1>5. \A m : Started(m)' => Started(m) \/ m \in Makes(x)
  BY StartedEnter
<1>6. \A m : OnlyQueued(m) => m \notin Makes(x)
  BY <1>1 DEF OnlyQueued
<1> QED BY <1>2, <1>3, <1>4, <1>5, <1>6 DEF AfterUser

LEMMA LateEnter ==
    ASSUME Sound, EmulatorLate, KernelLate, kernel \in Files, NEW x, EntersModule(x)
    PROVE  EmulatorLate' /\ KernelLate'
<1>1. /\ x \in Files /\ defined' = defined /\ MODULES_GENERATED' = MODULES_GENERATED \cup {x}
      /\ x = Head(work).arg /\ Head(work).op = "generate"
      /\ Len(work) \in 1 .. Len(work) /\ Head(work) = At(work, Len(work))
  BY DEF EntersModule
<1>2. arch' = arch /\ kernel' = kernel /\ emulator' = emulator
  BY DEF arch, kernel, emulator
<1>3. Entered(defined)' = Entered(defined)
  BY <1>1 DEF Entered
<1>4. (kernel \in Makes(x) => x = emulator) /\ emulator \notin Makes(x)
  BY <1>1, KernelFacts DEF Sound, Typed
<1>5. x = emulator => arch \in Entered(defined)
  <2>1. ~ ArchFirst(work, Len(work))
    <3>1. Len(work) \in Nat
      BY <1>1
    <3> QED BY <3>1 DEF ArchFirst
  <2> QED BY <1>1, <2>1 DEF EmulatorLate
<1>6. KernelLate'
  <2>1. Started(kernel)' => Started(kernel) \/ kernel \in Makes(x)
    BY StartedEnter
  <2> QED BY <1>2, <1>3, <1>4, <1>5, <2>1 DEF KernelLate
<1>7. ASSUME arch \notin Entered(defined), NEW h \in 1 .. Len(work'),
             At(work', h).op = "generate", At(work', h).arg = emulator
      PROVE  ArchFirst(work', h)
  <2>1. h \in 1 .. Len(work) /\ h < Len(work) /\ At(work', h) = At(work, h)
    BY <1>4, <1>7 DEF EntersModule
  <2>2. ArchFirst(work, h)
    BY <1>7, <2>1 DEF EmulatorLate
  <2>3. PICK g \in 1 .. Len(work) :
            h < g /\ \/ At(work, g).op = "generate" /\ At(work, g).arg = arch
                     \/ At(work, g).op = "define" /\ At(work, g).owner = arch
    BY <2>2 DEF ArchFirst
  <2>4. CASE g = Len(work)
    <3>1. x = arch
      BY <1>1, <2>3, <2>4
    <3>2. PICK d \in 1 .. Len(work') :
              d >= Len(work) /\ At(work', d).op = "define" /\ At(work', d).owner = x
      BY DEF EntersModule
    <3>3. h < d
      BY <1>1, <2>1, <3>2
    <3> QED BY <3>1, <3>2, <3>3 DEF ArchFirst
  <2>5. CASE g # Len(work)
    <3>1. g \in 1 .. Len(work') /\ At(work', g) = At(work, g)
      BY <2>5 DEF EntersModule
    <3> QED BY <2>3, <3>1 DEF ArchFirst
  <2> QED BY <2>4, <2>5
<1>8. arch \notin Entered(defined) => emulator \notin MODULES_GENERATED'
  BY <1>1, <1>5 DEF EmulatorLate
<1>9. EmulatorLate'
  BY <1>2, <1>3, <1>7, <1>8 DEF EmulatorLate, ArchFirst, At
<1> QED BY <1>6, <1>9

-----------------------------------------------------------------------------
\* The entries after the queue has been turned into them: nothing else is left.
QueueEntries ==
    /\ Len(work) \in 1 .. Len(work) /\ At(work, Len(work)).owner = NONE
    /\ \A m : ~ Listed(work, m)
    /\ \A h \in 1 .. Len(work') :
         /\ At(work', h).owner = NONE
         /\ \/ At(work', h).op = "modules"
            \/ At(work', h).op = "generate" /\ At(work', h).arg \in MODULES \ MODULES_GENERATED
    /\ project' = project /\ MODULES' = {} /\ defined' = defined
    /\ MODULES_GENERATED' = MODULES_GENERATED

LEMMA QueueFacts ==
    ASSUME Looping, Sourced, GenerateModules, NEW s,
           Lists(s, "generate", MODULES \ MODULES_GENERATED, "modules")
    PROVE  /\ QueueEntries
           /\ Len(work') = Len(s)
           /\ \A k \in 1 .. Len(s) : /\ Len(work') + 1 - k \in 1 .. Len(work')
                                     /\ At(work', Len(work') + 1 - k).op = s[k].op
                                     /\ At(work', Len(work') + 1 - k).arg = s[k].arg
<1>1. /\ Moves(work, s, Head(work).owner, Head(work).part, work')
      /\ Head(work).op = "modules"
      /\ AgainList(s, "generate", MODULES \ MODULES_GENERATED, "modules")
  BY DEF Lists
<1>2. Len(work) \in Nat \ {0} /\ Head(work) = At(work, Len(work)) /\ Len(work) \in 1 .. Len(work)
  BY <1>1 DEF Moves
<1>3. Len(work) = 1
  BY <1>1, <1>2 DEF Looping
<1>4. Head(work).owner = NONE
  BY <1>1, <1>2 DEF Sourced
<1>5. \A m : ~ Listed(work, m)
  <2>1. \A h \in 1 .. Len(work) : At(work, h).op = "modules"
    BY <1>3 DEF Looping
  <2> QED BY <2>1 DEF Listed
<1>6. ASSUME NEW h \in 1 .. Len(work')
      PROVE  /\ At(work', h).owner = NONE
             /\ \/ At(work', h).op = "modules"
                \/ At(work', h).op = "generate" /\ At(work', h).arg \in MODULES \ MODULES_GENERATED
  <2>1. ~ (h \in 1 .. Len(work) - 1)
    BY <1>3
  <2>2. PICK k \in 1 .. Len(s) : At(work', h) = EntryFor(s[k], Head(work).owner, Head(work).part)
    BY <1>1, <2>1 DEF Moves
  <2>3. /\ At(work', h).op = s[k].op /\ At(work', h).arg = s[k].arg
        /\ At(work', h).owner = NONE
    BY <1>4, <2>2 DEF EntryFor
  <2>4. \/ s[k].op = "generate" /\ s[k].arg \in MODULES \ MODULES_GENERATED
        \/ s[k].op = "modules"
    BY <1>1 DEF AgainList
  <2> QED BY <2>3, <2>4
<1>7. Len(work') = Len(s)
  BY <1>1, <1>3 DEF Moves
<1>8. ASSUME NEW k \in 1 .. Len(s)
      PROVE  /\ Len(work') + 1 - k \in 1 .. Len(work')
             /\ At(work', Len(work') + 1 - k).op = s[k].op
             /\ At(work', Len(work') + 1 - k).arg = s[k].arg
  <2>1. PICK h : h = Len(work') + 1 - k
    OBVIOUS
  <2>2. /\ h \in 1 .. Len(work')
        /\ At(work', h) = EntryFor(s[k], Head(work).owner, Head(work).part)
    BY <1>1, <2>1 DEF Moves
  <2>3. At(work', h).op = s[k].op /\ At(work', h).arg = s[k].arg
    BY <2>2 DEF EntryFor
  <2> QED BY <2>1, <2>2, <2>3
<1>9. /\ project' = project /\ MODULES' = {} /\ defined' = defined
      /\ MODULES_GENERATED' = MODULES_GENERATED
  BY DEF GenerateModules
<1>10. At(work, Len(work)).owner = NONE
  BY <1>2, <1>4
<1>11. QueueEntries
  BY <1>2, <1>5, <1>6, <1>9, <1>10 DEF QueueEntries
<1> QED BY <1>7, <1>8, <1>11

\* What has started then had started before, or was in the queue.
LEMMA StartedQueue ==
    ASSUME QueueEntries
    PROVE  /\ \A m : Started(m)' => Started(m) \/ m \in MODULES
           /\ \A m : Coming(m)' => Coming(m)
           /\ Entered(defined)' = Entered(defined)
<1>1. ASSUME NEW m, Listed(work', m) PROVE m \in MODULES
  <2>1. PICK h \in 1 .. Len(work') :
            At(work', h).op \in {"generate", "want"} /\ At(work', h).arg = m
    BY <1>1 DEF Listed
  <2>2. At(work', h).op # "modules"
    BY <2>1
  <2> QED BY <2>1, <2>2 DEF QueueEntries
<1>2. \A m : Ahead(work', m) => Listed(work', m)
  BY DEF Ahead, Listed
<1>3. MODULES' = {} /\ MODULES_GENERATED' = MODULES_GENERATED /\ defined' = defined
  BY DEF QueueEntries
<1>4. \A m : Started(m)' => Started(m) \/ m \in MODULES
  BY <1>1, <1>2, <1>3 DEF Started
<1>5. \A m : Coming(m)' => Coming(m)
  BY <1>1, <1>3 DEF Coming
<1>6. Entered(defined)' = Entered(defined)
  BY <1>3 DEF Entered
<1> QED BY <1>4, <1>5, <1>6

\* The parts of Configuring, kept when the queue is taken up.
LEMMA SourcesQueue ==
    ASSUME QueueEntries, Named, AfterUser, Defining, Rounds
    PROVE  Sourced' /\ Rounds' /\ Named' /\ AfterUser'
<1>1. /\ project' = project /\ MODULES' = {} /\ defined' = defined
      /\ MODULES_GENERATED' = MODULES_GENERATED
  BY DEF QueueEntries
<1>2. /\ \A m : Makes(m)' = Makes(m) /\ Wants(m)' = Wants(m) /\ Uses(m)' = Uses(m)
      /\ Files' = Files /\ project.root' = project.root
  BY <1>1, SameFiles
<1>3. \A h \in 1 .. Len(work') :
        At(work', h).owner = NONE /\ At(work', h).op \in {"modules", "generate"}
  BY DEF QueueEntries
<1>4. Sourced'
  BY <1>3 DEF Sourced, NONE, At
<1>5. Rounds'
  BY <1>3 DEF Rounds, At
<1>6. /\ \A m : Started(m)' => Started(m) \/ m \in MODULES
      /\ \A m : Coming(m)' => Coming(m)
      /\ Entered(defined)' = Entered(defined)
  BY StartedQueue
<1>7. Named'
  BY <1>1, <1>2, <1>6 DEF Named
<1>8. MODULES_GENERATED = Entered(defined)
  BY NobodyRuns DEF QueueEntries
<1>9. \A m : OnlyQueued(m)' <=> OnlyQueued(m)
  BY <1>2 DEF OnlyQueued
<1>10. ASSUME NEW m, OnlyQueued(m), Started(m)' PROVE \E u \in Entered(defined) : m \in Wants(u)
  <2>1. CASE Started(m)
    BY <1>10, <2>1 DEF AfterUser
  <2>2. CASE m \in MODULES
    BY <1>8, <1>10, <2>2 DEF Named, OnlyQueued
  <2> QED BY <1>6, <1>10, <2>1, <2>2
<1>11. AfterUser'
  BY <1>2, <1>6, <1>9, <1>10 DEF AfterUser
<1> QED BY <1>4, <1>5, <1>7, <1>11

LEMMA LateQueue ==
    ASSUME Sound, Defining, Reaching, Looping, Sourced, Rounds, Named, GenerateModules,
           EmulatorLate, KernelLate, kernel \in Files
    PROVE  EmulatorLate' /\ KernelLate'
<1>1. PICK s : Lists(s, "generate", MODULES \ MODULES_GENERATED, "modules")
  BY ModulesStep
<1>2. QueueEntries
  BY <1>1, QueueFacts
<1>3. MODULES_GENERATED = Entered(defined)
  BY <1>2, NobodyRuns DEF QueueEntries
<1>4. /\ \A m : Started(m)' => Started(m) \/ m \in MODULES
      /\ Entered(defined)' = Entered(defined)
      /\ MODULES_GENERATED' = MODULES_GENERATED
  BY <1>2, StartedQueue DEF QueueEntries
<1>5. arch' = arch /\ kernel' = kernel /\ emulator' = emulator
  BY DEF arch, kernel, emulator
<1>6. MODULES_GENERATED \subseteq Files /\ project \in Projects
  BY DEF Sound, Typed
<1>7. /\ project.root = product /\ kernel # product /\ emulator # product
      /\ \A u \in Files : kernel \in Wants(u) <=> u = arch
      /\ \A u \in Files : emulator \in Wants(u) =>
           u # product /\ \A v \in Files : u \in Uses(v) => v = platform
      /\ platform \in Files /\ arch \in Wants(platform)
      /\ Separated(project.order, arch, emulator)
  <2>1. kernel # product /\ emulator # product
    BY DEF kernel, product, emulator
  <2> HIDE DEF kernel, product, emulator, platform, arch, board
  <2> QED BY <1>6, <2>1, KernelFacts
<1>8. kernel \in MODULES => arch \in Entered(defined)
  BY <1>3, <1>6, <1>7 DEF Named
<1>9. KernelLate'
  BY <1>4, <1>5, <1>8 DEF KernelLate
<1>10. ASSUME emulator \in MODULES, arch \notin Entered(defined)
       PROVE  arch \in MODULES \ MODULES_GENERATED
  <2>1. PICK u \in MODULES_GENERATED : emulator \in Wants(u)
    BY <1>7, <1>10 DEF Named
  <2>2. Coming(u) /\ u # project.root
    BY <1>6, <1>7, <2>1 DEF Coming
  <2>3. PICK v \in MODULES_GENERATED : u \in Uses(v)
    BY <2>2 DEF Named
  <2>4. platform \in MODULES_GENERATED
    BY <1>6, <1>7, <2>1, <2>3
  <2>5. Coming(arch)
    BY <1>7, <2>4, UseKinds DEF Reaching
  <2> QED BY <1>2, <1>3, <1>10, <2>5 DEF Coming, QueueEntries
<1>11. ASSUME arch \notin Entered(defined), NEW h \in 1 .. Len(work'),
              At(work', h).op = "generate", At(work', h).arg = emulator
       PROVE  ArchFirst(work', h)
  <2>1. emulator \in MODULES
    BY <1>2, <1>11 DEF QueueEntries
  <2>2. arch \in MODULES \ MODULES_GENERATED /\ InOrder(arch)
    <3>1. arch \in MODULES \ MODULES_GENERATED
      BY <1>10, <1>11, <2>1
    <3>2. arch \in Files
      BY <3>1 DEF Sound, Typed
    <3> QED BY <1>6, <3>1, <3>2, ProjectFacts
  <2> HIDE DEF arch, emulator, kernel, platform, product
  <2>3. PICK t : /\ Lists(t, "generate", MODULES \ MODULES_GENERATED, "modules")
                 /\ Precedes(t, "generate", arch, emulator)
    BY <1>7, <2>2, ModulesInOrder
  <2>4. /\ Len(work') = Len(t)
        /\ \A k \in 1 .. Len(t) : /\ Len(work') + 1 - k \in 1 .. Len(work')
                                  /\ At(work', Len(work') + 1 - k).op = t[k].op
                                  /\ At(work', Len(work') + 1 - k).arg = t[k].arg
    BY <2>3, QueueFacts
  <2>5. Len(t) \in Nat
    BY <2>3 DEF Lists, Moves
  <2>6. PICK k : k = Len(work') + 1 - h
    OBVIOUS
  <2>7. k \in 1 .. Len(t) /\ h = Len(work') + 1 - k
    BY <2>4, <2>5, <2>6
  <2>8. t[k].op = "generate" /\ t[k].arg = emulator
    BY <1>11, <2>4, <2>7
  <2>9. PICK j \in 1 .. Len(t) : j < k /\ t[j].op = "generate" /\ t[j].arg = arch
    BY <2>3, <2>7, <2>8 DEF Precedes
  <2>10. PICK g : g = Len(work') + 1 - j
    OBVIOUS
  <2>11. /\ g \in 1 .. Len(work') /\ At(work', g).op = "generate" /\ At(work', g).arg = arch
    BY <2>4, <2>9, <2>10
  <2>12. h < g
    BY <2>4, <2>5, <2>7, <2>9, <2>10
  <2> QED BY <2>11, <2>12 DEF ArchFirst
<1>12. EmulatorLate'
  <2>1. arch \notin Entered(defined) => emulator \notin MODULES_GENERATED
    BY DEF EmulatorLate
  <2> QED BY <1>4, <1>5, <1>11, <2>1 DEF EmulatorLate, ArchFirst, At
<1> QED BY <1>9, <1>12

LEMMA ConfiguringInit == ASSUME Init PROVE Configuring
<1>1. /\ Len(work) = 1 /\ At(work, 1).op = "modules" /\ At(work, 1).owner = NONE
      /\ MODULES = {project.root} /\ MODULES_GENERATED = {} /\ project \in Projects
  BY DEF Init, Owned, At
<1>2. \A h \in 1 .. Len(work) : At(work, h).op = "modules" /\ At(work, h).owner = NONE
  BY <1>1
<1>3. \A m : ~ Ahead(work, m) /\ ~ Listed(work, m)
  BY <1>2 DEF Ahead, Listed
<1>4. \A m : ~ Started(m)
  BY <1>1, <1>3 DEF Started
<1>5. Sourced /\ Rounds
  BY <1>2 DEF Sourced, Rounds
<1>6. Named /\ AfterUser
  BY <1>1, <1>3, <1>4 DEF Named, Coming, AfterUser
<1>7. EmulatorLate /\ KernelLate
  BY <1>1, <1>2, <1>4 DEF EmulatorLate, KernelLate
<1> QED BY <1>5, <1>6, <1>7 DEF Configuring

LEMMA ConfiguringNext ==
    ASSUME Sound, Defining, Reaching, Looping, Configuring, [Next]_vars
    PROVE  Configuring'
<1>1. Sourced /\ Rounds /\ Named /\ AfterUser /\ (kernel \in Files => EmulatorLate /\ KernelLate)
  BY DEF Configuring
<1>2. ASSUME project' = project PROVE (kernel \in Files)' <=> kernel \in Files
  BY <1>2, SameFiles DEF kernel
<1>3. CASE GenerateModules
  <2>1. PICK s : Lists(s, "generate", MODULES \ MODULES_GENERATED, "modules")
    BY <1>3, ModulesStep
  <2>2. QueueEntries
    BY <1>1, <1>3, <2>1, QueueFacts
  <2>3. Sourced' /\ Rounds' /\ Named' /\ AfterUser'
    BY <1>1, <2>2, SourcesQueue
  <2>4. kernel \in Files => EmulatorLate' /\ KernelLate'
    BY <1>1, <1>3, LateQueue
  <2>5. project' = project
    BY <2>2 DEF QueueEntries
  <2> QED BY <1>2, <2>3, <2>4, <2>5 DEF Configuring
<1>4. CASE GenerateModule
  <2>1. PICK x : EntersModule(x)
    BY <1>4, EnterFacts
  <2>2. Sourced' /\ Rounds' /\ Named' /\ AfterUser'
    BY <1>1, <2>1, SourcedEnter, RoundsEnter, NamedEnter, AfterUserEnter
  <2>3. kernel \in Files => EmulatorLate' /\ KernelLate'
    BY <1>1, <2>1, LateEnter
  <2>4. project' = project
    BY <2>1 DEF EntersModule
  <2> QED BY <1>2, <2>2, <2>3, <2>4 DEF Configuring
<1>5. ASSUME NEW s, NEW part, Dull(s, part) PROVE Configuring'
  <2>1. Sourced' /\ Rounds' /\ Named' /\ AfterUser'
    BY <1>1, <1>5, SourcedDull, RoundsDull, NamedDull, AfterUserDull
  <2>2. kernel \in Files => EmulatorLate' /\ KernelLate'
    BY <1>1, <1>5, LateDull
  <2>3. project' = project
    BY <1>5 DEF Dull
  <2> QED BY <1>2, <2>1, <2>2, <2>3 DEF Configuring
<1>6. CASE UNCHANGED vars
  <2>1. /\ project' = project /\ work' = work /\ MODULES' = MODULES
        /\ MODULES_GENERATED' = MODULES_GENERATED /\ defined' = defined
    BY <1>6 DEF vars, modules
  <2>2. /\ \A m : Makes(m)' = Makes(m) /\ Wants(m)' = Wants(m) /\ Uses(m)' = Uses(m)
        /\ Files' = Files /\ project.root' = project.root
    BY <2>1, SameFiles
  <2>3. /\ \A m : (Coming(m)' <=> Coming(m)) /\ (Started(m)' <=> Started(m))
        /\ Entered(defined)' = Entered(defined)
    BY <2>1 DEF Coming, Started, Entered, Listed, Ahead
  <2>4. \A m : OnlyQueued(m)' <=> OnlyQueued(m)
    BY <2>2 DEF OnlyQueued
  <2>5. Sourced'
    BY <1>1, <2>1, <2>2 DEF Sourced, NONE, At
  <2>6. Rounds'
    BY <1>1, <2>1 DEF Rounds, NONE, At
  <2>7. Named'
    BY <1>1, <2>1, <2>2, <2>3 DEF Named
  <2>8. AfterUser'
    BY <1>1, <2>2, <2>3, <2>4 DEF AfterUser
  <2>9. (EmulatorLate <=> EmulatorLate') /\ (KernelLate <=> KernelLate')
    <3>1. arch' = arch /\ kernel' = kernel /\ emulator' = emulator
      BY DEF arch, kernel, emulator
    <3> QED BY <2>1, <2>3, <3>1 DEF EmulatorLate, KernelLate, ArchFirst, At
  <2> QED BY <1>1, <1>2, <2>1, <2>5, <2>6, <2>7, <2>8, <2>9 DEF Configuring
<1> QED BY <1>3, <1>4, <1>5, <1>6, StepKinds

\* The kernel's makefile is entered after the four others are done.
LEMMA Configured ==
    ASSUME Sound, Defining, Configuring
    PROVE  ConfiguredBeforeKernel
<1>1. SUFFICES ASSUME work # <<>>, Head(work).owner = kernel
               PROVE  {product, board, platform, arch} \subseteq Defined
  BY DEF ConfiguredBeforeKernel
<1>2. /\ Sourced /\ AfterUser
      /\ Entered(defined) \subseteq MODULES_GENERATED /\ MODULES_GENERATED \subseteq Files
      /\ project \in Projects /\ work \in Seq(Entry)
  BY DEF Configuring, Defining, DefiningFor, Sound, Typed, WorkOK
<1>3. Len(work) \in 1 .. Len(work) /\ Head(work) = At(work, Len(work))
  BY <1>1, <1>2, HeadFacts
<1>4. kernel \in MODULES_GENERATED
  <2>1. kernel # NONE
    BY DEF kernel, NONE
  <2> QED BY <1>1, <1>2, <1>3, <2>1 DEF Sourced
<1>5. arch \in Entered(defined)
  BY <1>2, <1>4 DEF Configuring, KernelLate, Started
<1>6. board # product /\ platform # product /\ arch # product
  BY DEF board, platform, arch, product
<1> HIDE DEF kernel, product, emulator, platform, arch, board
<1>7. /\ OnlyQueued(board) /\ OnlyQueued(platform) /\ OnlyQueued(arch)
      /\ \A u \in Files : /\ board \in Wants(u) <=> u = product
                          /\ platform \in Wants(u) <=> u = board
                          /\ arch \in Wants(u) <=> u = platform
  <2>1. kernel \in Files
    BY <1>2, <1>4
  <2> QED BY <1>2, <1>6, <2>1, KernelFacts DEF OnlyQueued
<1>8. ASSUME NEW m, OnlyQueued(m), m \in Entered(defined)
      PROVE  \E u \in Entered(defined) : u \in Files /\ m \in Wants(u)
  BY <1>2, <1>8 DEF AfterUser, Started
<1>9. platform \in Entered(defined)
  BY <1>5, <1>7, <1>8
<1>10. board \in Entered(defined)
  BY <1>7, <1>8, <1>9
<1>11. product \in Entered(defined)
  BY <1>7, <1>8, <1>10
<1> QED BY <1>5, <1>9, <1>10, <1>11 DEF Defined, Entered

\* Before a line of the kernel's makefile is evaluated, those of product, board,
\* platform and arch have been evaluated to the end: for every project whose makefiles
\* lead to the kernel's as this repository's do, whatever else they contain.
THEOREM KernelConfigured == Spec => []ConfiguredBeforeKernel
<1>1. Init => Sound /\ Defining /\ Reaching /\ Looping /\ Configuring
  BY SoundInit, DefiningInit, ReachingInit, LoopingInit, ConfiguringInit
<1>2. /\ Sound /\ Defining /\ Reaching /\ Looping /\ Configuring /\ [Next]_vars
      => Sound' /\ Defining' /\ Reaching' /\ Looping' /\ Configuring'
  BY SoundNext, DefiningNext, ReachingNext, LoopingNext, ConfiguringNext
<1>3. Sound /\ Defining /\ Configuring => ConfiguredBeforeKernel
  BY Configured
<1> QED BY <1>1, <1>2, <1>3, PTL DEF Spec
=============================================================================
