----------------------------- MODULE Induction -----------------------------
(***************************************************************************)
(* Induction without a predicate as parameter, and the existence of what a *)
(* recursion defines: what the proofs about the functions that keep no     *)
(* state rest on.  A predicate is given as the set of what satisfies it.   *)
(***************************************************************************)
EXTENDS Integers, SequencesExt, WellFoundedInduction, TLAPS

Below == {p \in Nat \X Nat : p[1] < p[2]}

LEMMA BelowIsWellFounded == IsWellFoundedOn(Below, Nat)
<1>1. IsWellFoundedOn({p \in Nat \X Nat : p[1] < p[2]}, Nat)
  BY NatLessThanWellFounded DEF OpToRel
<1>2. QED
  BY <1>1 DEF Below

\* A set of numbers that is not empty has a least one.
LEMMA LeastNatural ==
  ASSUME NEW S \in SUBSET Nat, S # {}
  PROVE  \E n \in S : \A m \in S : n <= m
<1>1. PICK n \in S : \A m \in S : ~(<<m, n>> \in Below)
  BY BelowIsWellFounded, WFMin
<1>2. ASSUME NEW m \in S PROVE n <= m
  <2>1. m \in Nat /\ n \in Nat
    OBVIOUS
  <2>2. <<m, n>> \in Nat \X Nat /\ ~(<<m, n>> \in Below)
    BY <1>1, <2>1
  <2>3. ~(m < n)
    BY <2>2 DEF Below
  <2>4. QED
    BY <2>1, <2>3
<1>3. QED
  BY <1>2

LEMMA SetInduction ==
  ASSUME NEW A, 0 \in A, \A n \in Nat : n \in A => n + 1 \in A
  PROVE  Nat \subseteq A
<1> SUFFICES ASSUME Nat \ A # {} PROVE FALSE
  OBVIOUS
<1>1. PICK n \in Nat \ A : \A m \in Nat \ A : n <= m
  <2> DEFINE S == Nat \ A
  <2>1. S \in SUBSET Nat /\ S # {}
    OBVIOUS
  <2> HIDE DEF S
  <2>2. \E n \in S : \A m \in S : n <= m
    BY <2>1, LeastNatural
  <2>3. QED
    BY <2>2 DEF S
<1>2. n # 0 /\ n - 1 \in Nat /\ n - 1 \in A
  BY <1>1
<1>3. QED
  BY <1>1, <1>2

\* The same with all smaller numbers at hand.
LEMMA StrongInduction ==
  ASSUME NEW A, \A n \in Nat : (\A m \in Nat : m < n => m \in A) => n \in A
  PROVE  Nat \subseteq A
<1> SUFFICES ASSUME Nat \ A # {} PROVE FALSE
  OBVIOUS
<1>1. PICK n \in Nat \ A : \A m \in Nat \ A : n <= m
  <2> DEFINE S == Nat \ A
  <2>1. S \in SUBSET Nat /\ S # {}
    OBVIOUS
  <2> HIDE DEF S
  <2>2. \E n \in S : \A m \in S : n <= m
    BY <2>1, LeastNatural
  <2>3. QED
    BY <2>2 DEF S
<1>2. ASSUME NEW m \in Nat, m < n PROVE m \in A
  BY <1>1, <1>2
<1>3. QED
  BY <1>1, <1>2

----------------------------------------------------------------------------
\* f is what N steps make of the base: step[n][x] is what step n makes of x.
IsIteration(f, N, base, step) ==
  f = [n \in 0 .. N |-> IF n = 0 THEN base ELSE step[n][f[n - 1]]]

LEMMA IterationExists ==
  ASSUME NEW N \in Nat, NEW base, NEW step
  PROVE  \E f : IsIteration(f, N, base, step)
<1> DEFINE A == {n \in Nat : \E f : IsIteration(f, n, base, step)}
<1>1. 0 \in A
  <2>1. IsIteration([n \in 0 .. 0 |-> base], 0, base, step)
    BY DEF IsIteration
  <2>2. QED
    BY <2>1
<1>2. ASSUME NEW n \in Nat, n \in A PROVE n + 1 \in A
  <2>1. PICK f : IsIteration(f, n, base, step)
    BY <1>2
  <2> DEFINE g == [i \in 0 .. n + 1 |-> IF i = n + 1 THEN step[n + 1][f[n]] ELSE f[i]]
  <2>2. \A i \in 0 .. n : f[i] = IF i = 0 THEN base ELSE step[i][f[i - 1]]
    BY <2>1 DEF IsIteration
  <2>3. ASSUME NEW i \in 0 .. n + 1
        PROVE  g[i] = IF i = 0 THEN base ELSE step[i][g[i - 1]]
    <3>1. CASE i = n + 1
      BY <3>1
    <3>2. CASE i \in 0 .. n
      BY <2>2, <3>2
    <3>3. QED
      BY <3>1, <3>2
  <2>4. g = [i \in 0 .. n + 1 |-> IF i = 0 THEN base ELSE step[i][g[i - 1]]]
    <3>1. g = [i \in 0 .. n + 1 |-> g[i]]
      OBVIOUS
    <3> HIDE DEF g
    <3>2. QED
      BY <2>3, <3>1
  <2>5. IsIteration(g, n + 1, base, step)
    BY <2>4 DEF IsIteration
  <2>6. QED
    BY <2>5
<1> HIDE DEF A
<1>3. Nat \subseteq A
  BY <1>1, <1>2, SetInduction
<1>4. QED
  BY <1>3 DEF A

\* The same for steps within a set.
IsStepwise(f, N, S, base, step) ==
  /\ f \in [0 .. N -> S]
  /\ f[0] = base
  /\ \A n \in 1 .. N : f[n] = step[n][f[n - 1]]

LEMMA LoopExists ==
  ASSUME NEW N \in Nat, NEW S, NEW base \in S, NEW step \in [1 .. N -> [S -> S]]
  PROVE  \E f : IsStepwise(f, N, S, base, step)
<1>1. PICK f : IsIteration(f, N, base, step)
  BY IterationExists
<1>2. f = [n \in 0 .. N |-> f[n]]
  BY <1>1 DEF IsIteration
<1>3. f[0] = base /\ \A n \in 1 .. N : f[n] = step[n][f[n - 1]]
  BY <1>1 DEF IsIteration
<1>4. \A n \in 0 .. N : f[n] \in S
  <2> DEFINE A == {n \in Nat : n <= N => f[n] \in S}
  <2>1. 0 \in A
    BY <1>3
  <2>2. ASSUME NEW n \in Nat, n \in A PROVE n + 1 \in A
    <3>1. CASE n + 1 <= N
      <4>1. n + 1 \in 1 .. N /\ f[n] \in S /\ (n + 1) - 1 = n
        BY <2>2, <3>1
      <4>2. f[n + 1] = step[n + 1][f[n]]
        BY <1>3, <4>1
      <4>3. QED
        BY <4>1, <4>2
    <3>2. CASE ~(n + 1 <= N)
      BY <3>2
    <3>3. QED
      BY <3>1, <3>2
  <2> HIDE DEF A
  <2>3. Nat \subseteq A
    BY <2>1, <2>2, SetInduction
  <2>4. QED
    BY <2>3 DEF A
<1>5. QED
  BY <1>2, <1>3, <1>4 DEF IsStepwise

\* What holds of the base and is kept by each step holds all along.
LEMMA LoopInduction ==
  ASSUME NEW N \in Nat, NEW A, 0 \in A,
         \A n \in 1 .. N : n - 1 \in A => n \in A
  PROVE  \A n \in 0 .. N : n \in A
<1> DEFINE B == {n \in Nat : n <= N => n \in A}
<1>1. 0 \in B
  OBVIOUS
<1>2. ASSUME NEW n \in Nat, n \in B PROVE n + 1 \in B
  <2>1. CASE n + 1 <= N
    <3>1. n + 1 \in 1 .. N /\ (n + 1) - 1 = n /\ n \in A
      BY <1>2, <2>1
    <3>2. QED
      BY <3>1
  <2>2. CASE ~(n + 1 <= N)
    BY <2>2
  <2>3. QED
    BY <2>1, <2>2
<1> HIDE DEF B
<1>3. Nat \subseteq B
  BY <1>1, <1>2, SetInduction
<1>4. QED
  BY <1>3 DEF B

\* A recursion that ends in a value or goes on with another argument defines a
\* function, whether or not it ends: what it ends in is in every set that
\* contains the argument and what follows it.
IsTailRecursion(f, D, stop, val, next) ==
  f = [x \in D |-> IF x \in stop THEN val[x] ELSE f[next[x]]]

LEMMA TailRecursionExists ==
  ASSUME NEW D, NEW stop \in SUBSET D, NEW val, NEW next \in [D -> D]
  PROVE  \E f : IsTailRecursion(f, D, stop, val, next)
<1> DEFINE Closed(C) == \A z \in C : z \notin stop => next[z] \in C
           Ends(x) == {y \in stop : \A C \in SUBSET D : x \in C /\ Closed(C) => y \in C}
           f == [x \in D |-> val[CHOOSE y : y \in Ends(x)]]
<1>1. ASSUME NEW x \in stop PROVE Ends(x) = {x}
  <2>1. {x} \in SUBSET D /\ x \in {x} /\ Closed({x})
    OBVIOUS
  <2>2. Ends(x) \subseteq {x}
    BY <2>1
  <2>3. QED
    BY <2>2
<1>2. ASSUME NEW x \in D, x \notin stop PROVE Ends(x) = Ends(next[x])
  <2>1. ASSUME NEW y \in Ends(x), NEW C \in SUBSET D, next[x] \in C, Closed(C)
        PROVE  y \in C
    <3>1. C \cup {x} \in SUBSET D /\ x \in C \cup {x} /\ Closed(C \cup {x})
      BY <2>1
    <3>2. y \in C \cup {x}
      BY <3>1
    <3>3. QED
      BY <1>2, <3>2
  <2>2. ASSUME NEW y \in Ends(next[x]), NEW C \in SUBSET D, x \in C, Closed(C)
        PROVE  y \in C
    BY <1>2, <2>2
  <2>3. QED
    BY <2>1, <2>2
<1> HIDE DEF Ends
<1>3. ASSUME NEW x \in D
      PROVE  f[x] = IF x \in stop THEN val[x] ELSE f[next[x]]
  <2>1. CASE x \in stop
    <3>1. (CHOOSE y : y \in Ends(x)) \in Ends(x)
      BY <1>1, <2>1
    <3>2. QED
      BY <1>1, <2>1, <3>1
  <2>2. CASE x \notin stop
    BY <1>2, <2>2
  <2>3. QED
    BY <2>1, <2>2
<1>4. f = [x \in D |-> IF x \in stop THEN val[x] ELSE f[next[x]]]
  <2>1. f = [x \in D |-> f[x]]
    OBVIOUS
  <2> HIDE DEF f
  <2>2. QED
    BY <1>3, <2>1
<1>5. QED
  BY <1>4 DEF IsTailRecursion

----------------------------------------------------------------------------
(* Sequences one after the other *)

IsFlatten(f, seqs) ==
  f = [i \in 1 .. Len(seqs) |-> IF i = 1 THEN seqs[i] ELSE f[i - 1] \o seqs[i]]

\* FlattenSeq adds one sequence after the other.
LEMMA FlattenIs ==
  ASSUME NEW T, NEW N \in Nat, NEW seqs \in [1 .. N -> Seq(T)]
  PROVE  \E g \in [0 .. N -> Seq(T)] :
           /\ g[0] = <<>>
           /\ \A n \in 1 .. N : g[n] = g[n - 1] \o seqs[n]
           /\ FlattenSeq(seqs) = g[N]
<1>1. Len(seqs) = N /\ seqs \in Seq(Seq(T))
  OBVIOUS
<1>2. CASE N = 0
  <2>1. FlattenSeq(seqs) = <<>>
    BY <1>1, <1>2 DEF FlattenSeq
  <2> DEFINE g == [n \in 0 .. N |-> <<>>]
  <2>2. g \in [0 .. N -> Seq(T)]
    OBVIOUS
  <2>3. g[0] = <<>> /\ (\A n \in 1 .. N : g[n] = g[n - 1] \o seqs[n]) /\ g[N] = <<>>
    BY <1>2
  <2> HIDE DEF g
  <2>4. QED
    BY <2>1, <2>2, <2>3
<1>3. CASE N # 0
  <2> DEFINE step == [n \in 1 .. N |-> [s \in Seq(T) |-> s \o seqs[n]]]
  <2>1. PICK g \in [0 .. N -> Seq(T)] :
          g[0] = <<>> /\ \A n \in 1 .. N : g[n] = step[n][g[n - 1]]
    <3> DEFINE S == Seq(T)
               base == <<>>
    <3>1. base \in S /\ step \in [1 .. N -> [S -> S]]
      OBVIOUS
    <3> HIDE DEF step, S, base
    <3>2. \E g : IsStepwise(g, N, S, base, step)
      BY <3>1, LoopExists
    <3>3. QED
      BY <3>2 DEF IsStepwise, S, base
  <2>2. ASSUME NEW n \in 1 .. N PROVE g[n] = g[n - 1] \o seqs[n]
    <3>1. n - 1 \in 0 .. N /\ g[n - 1] \in Seq(T)
      OBVIOUS
    <3>2. step[n][g[n - 1]] = g[n - 1] \o seqs[n]
      BY <3>1
    <3>3. QED
      BY <2>1, <3>2
  <2>a. g[1] = seqs[1]
    <3>1. 1 \in 1 .. N
      BY <1>3
    <3>2. g[1] = g[0] \o seqs[1]
      BY <2>2, <3>1
    <3>3. seqs[1] \in Seq(T) /\ g[0] = <<>>
      BY <2>1, <3>1
    <3>4. <<>> \o seqs[1] = seqs[1]
      BY <3>3
    <3>5. QED
      BY <3>2, <3>3, <3>4
  <2> DEFINE f == [n \in 1 .. N |-> g[n]]
  <2>3. IsFlatten(f, seqs)
    <3> DEFINE h == [i \in 1 .. N |-> IF i = 1 THEN seqs[i] ELSE f[i - 1] \o seqs[i]]
    <3>1. ASSUME NEW n \in 1 .. N PROVE g[n] = h[n]
      <4>1. CASE n = 1
        BY <2>a, <4>1
      <4>2. CASE n # 1
        <5>1. n - 1 \in 1 .. N
          BY <4>2
        <5>2. QED
          BY <2>2, <4>2, <5>1
      <4>3. QED
        BY <4>1, <4>2
    <3>2. f = h
      BY <3>1
    <3> HIDE DEF f
    <3>3. QED
      BY <1>1, <3>2 DEF IsFlatten
  <2>4. FlattenSeq(seqs) = (CHOOSE e : IsFlatten(e, seqs))[N]
    BY <1>1, <1>3 DEF FlattenSeq, IsFlatten
  <2> DEFINE e == CHOOSE e : IsFlatten(e, seqs)
  <2>5. IsFlatten(e, seqs)
    BY <2>3
  <2> HIDE DEF e
  <2>6. \A n \in 1 .. N : e[n] = IF n = 1 THEN seqs[n] ELSE e[n - 1] \o seqs[n]
    BY <1>1, <2>5 DEF IsFlatten
  <2>7. \A n \in 0 .. N : n # 0 => e[n] = g[n]
    <3> DEFINE A == {n \in 0 .. N : n # 0 => e[n] = g[n]}
    <3>1. 0 \in A
      OBVIOUS
    <3>2. ASSUME NEW n \in 1 .. N, n - 1 \in A PROVE n \in A
      <4>1. CASE n = 1
        BY <2>a, <2>6, <4>1
      <4>2. CASE n # 1
        <5>1. n - 1 \in 0 .. N /\ n - 1 # 0 /\ e[n - 1] = g[n - 1]
          BY <3>2, <4>2
        <5>2. e[n] = e[n - 1] \o seqs[n]
          BY <2>6, <4>2
        <5>3. g[n] = g[n - 1] \o seqs[n]
          BY <2>2
        <5>4. e[n] = g[n]
          BY <5>1, <5>2, <5>3
        <5>5. QED
          BY <5>4
      <4>3. QED
        BY <4>1, <4>2
    <3> HIDE DEF A
    <3>3. \A n \in 0 .. N : n \in A
      BY <3>1, <3>2, LoopInduction
    <3>4. QED
      BY <3>3 DEF A
  <2>8. e[N] = g[N]
    BY <1>3, <2>7
  <2>9. QED
    BY <2>1, <2>2, <2>4, <2>8 DEF e
<1>4. QED
  BY <1>2, <1>3

LEMMA FlattenAppend ==
  ASSUME NEW T, NEW N \in Nat, NEW seqs \in [1 .. N -> Seq(T)],
         NEW more \in [1 .. N + 1 -> Seq(T)], \A n \in 1 .. N : more[n] = seqs[n]
  PROVE  FlattenSeq(more) = FlattenSeq(seqs) \o more[N + 1]
<1>1. PICK g \in [0 .. N -> Seq(T)] :
        /\ g[0] = <<>>
        /\ \A n \in 1 .. N : g[n] = g[n - 1] \o seqs[n]
        /\ FlattenSeq(seqs) = g[N]
  BY FlattenIs
<1>2. PICK h \in [0 .. N + 1 -> Seq(T)] :
        /\ h[0] = <<>>
        /\ \A n \in 1 .. N + 1 : h[n] = h[n - 1] \o more[n]
        /\ FlattenSeq(more) = h[N + 1]
  <2>1. N + 1 \in Nat
    OBVIOUS
  <2>2. QED
    BY <2>1, FlattenIs
<1> DEFINE A == {n \in 0 .. N : h[n] = g[n]}
<1>3. 0 \in A
  BY <1>1, <1>2
<1>4. ASSUME NEW n \in 1 .. N, n - 1 \in A PROVE n \in A
  <2>1. h[n - 1] = g[n - 1] /\ n \in 1 .. N + 1 /\ n \in 0 .. N
    BY <1>4
  <2>2. h[n] = h[n - 1] \o more[n] /\ g[n] = g[n - 1] \o seqs[n] /\ more[n] = seqs[n]
    BY <1>1, <1>2, <2>1
  <2>3. h[n] = g[n]
    BY <2>1, <2>2
  <2>4. QED
    BY <2>1, <2>3
<1> HIDE DEF A
<1>5. \A n \in 0 .. N : n \in A
  BY <1>3, <1>4, LoopInduction
<1>6. h[N] = g[N]
  BY <1>5 DEF A
<1>7. h[N + 1] = h[N] \o more[N + 1]
  <2>1. N + 1 \in 1 .. N + 1 /\ (N + 1) - 1 = N
    OBVIOUS
  <2>2. QED
    BY <1>2, <2>1
<1>8. QED
  BY <1>1, <1>2, <1>6, <1>7

LEMMA FlattenNothing ==
  ASSUME NEW T, NEW N \in Nat, NEW seqs \in [1 .. N -> Seq(T)],
         \A n \in 1 .. N : seqs[n] = <<>>
  PROVE  FlattenSeq(seqs) = <<>>
<1>1. PICK g \in [0 .. N -> Seq(T)] :
        /\ g[0] = <<>>
        /\ \A n \in 1 .. N : g[n] = g[n - 1] \o seqs[n]
        /\ FlattenSeq(seqs) = g[N]
  BY FlattenIs
<1> DEFINE A == {n \in 0 .. N : g[n] = <<>>}
<1>2. 0 \in A
  BY <1>1
<1>3. ASSUME NEW n \in 1 .. N, n - 1 \in A PROVE n \in A
  <2>1. g[n - 1] = <<>> /\ n \in 0 .. N
    BY <1>3
  <2>2. g[n] = <<>> \o <<>>
    BY <1>1, <2>1
  <2>3. <<>> \o <<>> = <<>>
    OBVIOUS
  <2>4. QED
    BY <2>1, <2>2, <2>3
<1> HIDE DEF A
<1>4. \A n \in 0 .. N : n \in A
  BY <1>2, <1>3, LoopInduction
<1>5. QED
  BY <1>1, <1>4 DEF A

LEMMA FlattenInSeq ==
  ASSUME NEW T, NEW N \in Nat, NEW seqs \in [1 .. N -> Seq(T)]
  PROVE  FlattenSeq(seqs) \in Seq(T)
<1>1. PICK g \in [0 .. N -> Seq(T)] :
        /\ g[0] = <<>>
        /\ \A n \in 1 .. N : g[n] = g[n - 1] \o seqs[n]
        /\ FlattenSeq(seqs) = g[N]
  BY FlattenIs
<1>2. QED
  BY <1>1
=============================================================================
