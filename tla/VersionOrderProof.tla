------------------------- MODULE VersionOrderProof -------------------------
(***************************************************************************)
(* CompareVersions is a total preorder of all versions: a sort or a        *)
(* maximum by it does not depend on the order of its input.  And where the *)
(* epoch is a number that fits it is the order of the Debian policy.       *)
(***************************************************************************)
EXTENDS VersionOrder, Induction, SequenceTheorems

Strings == Seq(Runes)
Results == {-1, 0, 1}

\* What a comparison may say of a and c, having said x of a and b and y of b and
\* c: equals may be exchanged, and two steps in one direction lead there.
Consistent(x, y, z) == (x = 0 => z = y) /\ (y = 0 => z = x) /\ (x = y => z = x)

\* The first result that decides.
Lex(x, y) == IF x # 0 THEN x ELSE y

\* A comparison of the members of S as a total preorder.
Orders(cmp, S) ==
  \A a, b, c \in S :
    /\ cmp[<<a, b>>] \in Results
    /\ cmp[<<b, a>>] = -cmp[<<a, b>>]
    /\ Consistent(cmp[<<a, b>>], cmp[<<b, c>>], cmp[<<a, c>>])

LEMMA LexConsistent ==
  ASSUME NEW x1 \in Results, NEW y1 \in Results, NEW z1 \in Results,
         NEW x2 \in Results, NEW y2 \in Results, NEW z2 \in Results,
         Consistent(x1, y1, z1), Consistent(x2, y2, z2)
  PROVE  Consistent(Lex(x1, x2), Lex(y1, y2), Lex(z1, z2))
BY DEF Consistent, Lex, Results

LEMMA SignOrders ==
  ASSUME NEW x \in Int, NEW y \in Int, NEW z \in Int
  PROVE  /\ Sign(x, y) \in Results
         /\ Sign(y, x) = -Sign(x, y)
         /\ Consistent(Sign(x, y), Sign(y, z), Sign(x, z))
BY DEF Sign, Results, Consistent

\* Two comparisons one after the other.
LEMMA LexOrders ==
  ASSUME NEW S, NEW first, NEW second, NEW cmp,
         Orders(first, S), Orders(second, S),
         \A a, b \in S : cmp[<<a, b>>] = Lex(first[<<a, b>>], second[<<a, b>>])
  PROVE  Orders(cmp, S)
<1> SUFFICES ASSUME NEW a \in S, NEW b \in S, NEW c \in S
             PROVE  /\ cmp[<<a, b>>] \in Results
                    /\ cmp[<<b, a>>] = -cmp[<<a, b>>]
                    /\ Consistent(cmp[<<a, b>>], cmp[<<b, c>>], cmp[<<a, c>>])
  BY DEF Orders
<1>1. \A u, v \in S : first[<<u, v>>] \in Results /\ second[<<u, v>>] \in Results
  BY DEF Orders
<1>2. cmp[<<a, b>>] \in Results
  BY <1>1 DEF Lex
<1>3. cmp[<<b, a>>] = -cmp[<<a, b>>]
  <2>1. first[<<b, a>>] = -first[<<a, b>>] /\ second[<<b, a>>] = -second[<<a, b>>]
    BY DEF Orders
  <2>2. cmp[<<a, b>>] = Lex(first[<<a, b>>], second[<<a, b>>])
        /\ cmp[<<b, a>>] = Lex(first[<<b, a>>], second[<<b, a>>])
    OBVIOUS
  <2>3. first[<<a, b>>] \in Results /\ second[<<a, b>>] \in Results
    BY <1>1
  <2>4. QED
    BY <2>1, <2>2, <2>3 DEF Lex, Results
<1>4. Consistent(cmp[<<a, b>>], cmp[<<b, c>>], cmp[<<a, c>>])
  <2>1. Consistent(first[<<a, b>>], first[<<b, c>>], first[<<a, c>>])
        /\ Consistent(second[<<a, b>>], second[<<b, c>>], second[<<a, c>>])
    BY DEF Orders
  <2>2. Consistent(Lex(first[<<a, b>>], second[<<a, b>>]),
                   Lex(first[<<b, c>>], second[<<b, c>>]),
                   Lex(first[<<a, c>>], second[<<a, c>>]))
    BY <1>1, <2>1, LexConsistent
  <2>3. QED
    BY <2>2
<1>5. QED
  BY <1>2, <1>3, <1>4

\* A comparison of what is taken from two strings.
LEMMA ImageOrders ==
  ASSUME NEW S, NEW T, NEW image \in [S -> T], NEW cmp, NEW onImages,
         Orders(onImages, T),
         \A a, b \in S : cmp[<<a, b>>] = onImages[<<image[a], image[b]>>]
  PROVE  Orders(cmp, S)
<1> SUFFICES ASSUME NEW a \in S, NEW b \in S, NEW c \in S
             PROVE  /\ cmp[<<a, b>>] \in Results
                    /\ cmp[<<b, a>>] = -cmp[<<a, b>>]
                    /\ Consistent(cmp[<<a, b>>], cmp[<<b, c>>], cmp[<<a, c>>])
  BY DEF Orders
<1>1. PICK u \in T, v \in T, w \in T : u = image[a] /\ v = image[b] /\ w = image[c]
  OBVIOUS
<1>2. /\ onImages[<<u, v>>] \in Results
      /\ onImages[<<v, u>>] = -onImages[<<u, v>>]
      /\ Consistent(onImages[<<u, v>>], onImages[<<v, w>>], onImages[<<u, w>>])
  BY DEF Orders
<1>3. QED
  BY <1>1, <1>2

\* A loop that compares the heads of two strings and goes on with what follows
\* while they are equal, until both have ended.
LEMMA LoopOrders ==
  ASSUME NEW S, NEW end \in S, NEW head, NEW cmp,
         NEW next \in [S -> S], NEW size \in [S -> Nat],
         Orders(head, S),
         next[end] = end,
         \A s \in S : s # end => size[next[s]] < size[s],
         cmp[<<end, end>>] = 0,
         \A a, b \in S :
           cmp[<<a, b>>] = Lex(head[<<a, b>>], cmp[<<next[a], next[b]>>])
  PROVE  Orders(cmp, S)
<1> DEFINE Holds(a, b, c) ==
             /\ cmp[<<a, b>>] \in Results
             /\ cmp[<<b, a>>] = -cmp[<<a, b>>]
             /\ Consistent(cmp[<<a, b>>], cmp[<<b, c>>], cmp[<<a, c>>])
           Total(a, b, c) == size[a] + size[b] + size[c]
           A == {n \in Nat : \A a, b, c \in S : Total(a, b, c) = n => Holds(a, b, c)}
<1>1. \A a, b, c \in S : Total(a, b, c) \in Nat
  OBVIOUS
<1>2. \A s \in S : size[next[s]] <= size[s] /\ size[next[s]] \in Nat /\ size[s] \in Nat
                   /\ next[s] \in S
  OBVIOUS
<1>3. ASSUME NEW n \in Nat, \A m \in Nat : m < n => m \in A
      PROVE  n \in A
  <2> SUFFICES ASSUME NEW a \in S, NEW b \in S, NEW c \in S, Total(a, b, c) = n
               PROVE  Holds(a, b, c)
    OBVIOUS
  <2>1. CASE a = end /\ b = end /\ c = end
    BY <2>1 DEF Results, Consistent
  <2>2. CASE ~(a = end /\ b = end /\ c = end)
    <3> DEFINE m == Total(next[a], next[b], next[c])
    <3>1. m \in Nat /\ m < n
      BY <1>2, <2>2
    <3>2. Holds(next[a], next[b], next[c])
      BY <1>2, <1>3, <3>1
    <3>3. Total(next[b], next[c], next[a]) = m /\ Total(next[a], next[c], next[b]) = m
      BY <1>2
    <3>4. Holds(next[b], next[c], next[a]) /\ Holds(next[a], next[c], next[b])
      BY <1>2, <1>3, <3>1, <3>3
    <3>5. /\ head[<<a, b>>] \in Results /\ head[<<b, c>>] \in Results
          /\ head[<<a, c>>] \in Results
          /\ head[<<b, a>>] = -head[<<a, b>>]
          /\ Consistent(head[<<a, b>>], head[<<b, c>>], head[<<a, c>>])
      BY DEF Orders
    <3> HIDE DEF Total, A, m
    <3>6. cmp[<<a, b>>] = Lex(head[<<a, b>>], cmp[<<next[a], next[b]>>])
          /\ cmp[<<b, a>>] = Lex(head[<<b, a>>], cmp[<<next[b], next[a]>>])
          /\ cmp[<<b, c>>] = Lex(head[<<b, c>>], cmp[<<next[b], next[c]>>])
          /\ cmp[<<a, c>>] = Lex(head[<<a, c>>], cmp[<<next[a], next[c]>>])
      OBVIOUS
    <3>7. cmp[<<a, b>>] \in Results
      BY <3>2, <3>5, <3>6 DEF Lex
    <3>8. cmp[<<b, a>>] = -cmp[<<a, b>>]
      BY <3>2, <3>5, <3>6 DEF Lex, Results
    <3>9. Consistent(cmp[<<a, b>>], cmp[<<b, c>>], cmp[<<a, c>>])
      <4>1. Consistent(Lex(head[<<a, b>>], cmp[<<next[a], next[b]>>]),
                       Lex(head[<<b, c>>], cmp[<<next[b], next[c]>>]),
                       Lex(head[<<a, c>>], cmp[<<next[a], next[c]>>]))
        BY <3>2, <3>4, <3>5, LexConsistent
      <4>2. QED
        BY <3>6, <4>1
    <3>10. QED
      BY <3>7, <3>8, <3>9
  <2>3. QED
    BY <2>1, <2>2
<1> HIDE DEF A
<1>4. Nat \subseteq A
  BY <1>3, StrongInduction
<1>5. \A a, b, c \in S : Holds(a, b, c)
  BY <1>1, <1>4 DEF A
<1>6. QED
  BY <1>5 DEF Orders

----------------------------------------------------------------------------
(* Texts *)

LEMMA RestOf ==
  ASSUME NEW s \in Strings
  PROVE  /\ Rest(s) \in Strings /\ nextRune(s) \in Runes
         /\ s # <<>> => Len(Rest(s)) < Len(s)
<1>1. CASE s = <<>>
  BY <1>1 DEF Rest, nextRune, Runes
<1>2. CASE s # <<>>
  <2>1. Tail(s) \in Seq(Runes) /\ Head(s) \in Runes /\ Len(Tail(s)) < Len(s)
    BY <1>2 DEF Strings
  <2>2. QED
    BY <1>2, <2>1 DEF Rest, nextRune, Strings
<1>3. QED
  BY <1>1, <1>2

LEMMA OrderOfRune == ASSUME NEW r \in Runes PROVE nonDigitOrder(r) \in Int
BY DEF nonDigitOrder, Runes

ByRune == [p \in Pairs |->
             Sign(nonDigitOrder(nextRune(p[1])), nonDigitOrder(nextRune(p[2])))]

IsNonDigit(f) ==
  f = [p \in Pairs |->
         LET cmp == Sign(nonDigitOrder(nextRune(p[1])), nonDigitOrder(nextRune(p[2])))
         IN IF p = << <<>>, <<>> >> THEN 0
            ELSE IF cmp # 0 THEN cmp
            ELSE f[<<Rest(p[1]), Rest(p[2])>>]]

LEMMA NonDigitDefined == IsNonDigit(compareNonDigit)
<1> DEFINE stop == {p \in Pairs : p = << <<>>, <<>> >> \/ ByRune[p] # 0}
           val  == [p \in Pairs |-> IF p = << <<>>, <<>> >> THEN 0 ELSE ByRune[p]]
           next == [p \in Pairs |-> <<Rest(p[1]), Rest(p[2])>>]
<1>1. stop \in SUBSET Pairs
  OBVIOUS
<1>2. next \in [Pairs -> Pairs]
  BY RestOf DEF Pairs, Strings
<1>3. PICK f : IsTailRecursion(f, Pairs, stop, val, next)
  <2> HIDE DEF stop, val, next
  <2>1. QED
    BY <1>1, <1>2, TailRecursionExists
<1>4. IsNonDigit(f)
  <2> DEFINE g == [p \in Pairs |->
         LET cmp == Sign(nonDigitOrder(nextRune(p[1])), nonDigitOrder(nextRune(p[2])))
         IN IF p = << <<>>, <<>> >> THEN 0
            ELSE IF cmp # 0 THEN cmp
            ELSE f[<<Rest(p[1]), Rest(p[2])>>]]
  <2>1. ASSUME NEW p \in Pairs
        PROVE  (IF p \in stop THEN val[p] ELSE f[next[p]]) = g[p]
    BY DEF ByRune
  <2>2. g = [p \in Pairs |-> g[p]]
    OBVIOUS
  <2> HIDE DEF stop, val, next, g
  <2>3. f = g
    BY <1>3, <2>1, <2>2 DEF IsTailRecursion
  <2>4. QED
    BY <2>3 DEF IsNonDigit, g
<1>5. compareNonDigit = CHOOSE g : IsNonDigit(g)
  BY DEF compareNonDigit, IsNonDigit
<1>6. QED
  BY <1>4, <1>5

LEMMA NonDigitOrders == Orders(compareNonDigit, Strings)
<1> DEFINE next == [s \in Strings |-> Rest(s)]
           size == [s \in Strings |-> Len(s)]
<1>1. next \in [Strings -> Strings] /\ size \in [Strings -> Nat]
  BY RestOf DEF Strings
<1>2. Orders(ByRune, Strings)
  <2>1. \A a, b \in Strings :
          ByRune[<<a, b>>] = Sign(nonDigitOrder(nextRune(a)), nonDigitOrder(nextRune(b)))
    BY DEF ByRune, Pairs, Strings
  <2>2. \A a \in Strings : nonDigitOrder(nextRune(a)) \in Int
    BY RestOf, OrderOfRune
  <2>3. QED
    BY <2>1, <2>2, SignOrders, ZenonT(60) DEF Orders
<1>3. <<>> \in Strings /\ next[<<>>] = <<>>
  BY DEF Strings, Rest
<1>4. \A s \in Strings : s # <<>> => size[next[s]] < size[s]
  BY RestOf
<1>5. \A a, b \in Strings :
        /\ <<a, b>> \in Pairs
        /\ compareNonDigit[<<a, b>>] =
             IF a = <<>> /\ b = <<>> THEN 0
             ELSE Lex(ByRune[<<a, b>>], compareNonDigit[<<Rest(a), Rest(b)>>])
  BY NonDigitDefined DEF IsNonDigit, ByRune, Pairs, Strings, Lex
<1>6. compareNonDigit[<< <<>>, <<>> >>] = 0 /\ ByRune[<< <<>>, <<>> >>] = 0
  <2>1. compareNonDigit[<< <<>>, <<>> >>] = 0
    BY <1>3, <1>5
  <2>2. ByRune[<< <<>>, <<>> >>] = 0
    <3>1. nonDigitOrder(0) \in Int
      BY OrderOfRune DEF Runes
    <3>2. QED
      BY <1>3, <1>5, <3>1 DEF ByRune, nextRune, Sign
  <2>3. QED
    BY <2>1, <2>2
<1>7. \A a, b \in Strings :
        compareNonDigit[<<a, b>>] =
          Lex(ByRune[<<a, b>>], compareNonDigit[<<next[a], next[b]>>])
  <2> SUFFICES ASSUME NEW a \in Strings, NEW b \in Strings
               PROVE  compareNonDigit[<<a, b>>] =
                        Lex(ByRune[<<a, b>>], compareNonDigit[<<next[a], next[b]>>])
    OBVIOUS
  <2>1. CASE a = <<>> /\ b = <<>>
    BY <1>3, <1>6, <2>1 DEF Lex
  <2>2. CASE ~(a = <<>> /\ b = <<>>)
    <3>1. next[a] = Rest(a) /\ next[b] = Rest(b)
      OBVIOUS
    <3>2. QED
      BY <1>5, <2>2, <3>1
  <2>3. QED
    BY <2>1, <2>2
<1> HIDE DEF next, size
<1>8. QED
  BY <1>1, <1>2, <1>3, <1>4, <1>6, <1>7, LoopOrders

----------------------------------------------------------------------------
(* Numbers *)

LEMMA TakeWhile ==
  ASSUME NEW s \in Strings, NEW predicate
  PROVE  LET parts == takeWhile(s, predicate)
         IN  /\ parts[1] \in Strings /\ parts[2] \in Strings
             /\ Len(parts[2]) <= Len(s)
             /\ s # <<>> /\ s[1] \in predicate => Len(parts[2]) < Len(s)
             /\ s # <<>> /\ s[1] \notin predicate => parts[2] = s
             /\ s = <<>> => parts[1] = <<>> /\ parts[2] = <<>>
<1> DEFINE I == {i \in 1 .. Len(s) : s[i] \notin predicate}
           stop == SelectInSeq(s, LAMBDA r : r \notin predicate)
<1>1. Len(s) \in Nat /\ \A i \in 1 .. Len(s) : s[i] \in Runes
  BY DEF Strings
<1>2. \/ stop = 0 /\ \A i \in 1 .. Len(s) : s[i] \in predicate
      \/ /\ stop \in 1 .. Len(s) /\ s[stop] \notin predicate
         /\ \A i \in 1 .. Len(s) : i < stop => s[i] \in predicate
  <2>1. CASE I = {}
    BY <2>1 DEF SelectInSeq
  <2>2. CASE I # {}
    <3>1. \E n \in I : \A m \in I : n <= m
      <4>1. I \in SUBSET Nat
        BY <1>1
      <4> HIDE DEF I
      <4>2. QED
        BY <2>2, <4>1, LeastNatural
    <3>2. stop = Min(I)
      BY <2>2 DEF SelectInSeq
    <3>3. Min(I) \in I /\ \A m \in I : Min(I) <= m
      BY <3>1 DEF Min
    <3>4. stop \in I /\ \A m \in I : stop <= m
      BY <3>2, <3>3
    <3> HIDE DEF stop
    <3>5. stop \in 1 .. Len(s) /\ s[stop] \notin predicate
      BY <3>4
    <3>6. ASSUME NEW i \in 1 .. Len(s), i < stop PROVE s[i] \in predicate
      BY <1>1, <3>4, <3>5, <3>6
    <3>7. QED
      BY <3>5, <3>6
  <2>3. QED
    BY <2>1, <2>2
<1>3. takeWhile(s, predicate) =
        IF stop = 0 THEN <<s, <<>>>>
        ELSE <<SubSeq(s, 1, stop - 1), SubSeq(s, stop, Len(s))>>
  BY DEF takeWhile
<1> HIDE DEF stop, I
<1>4. CASE stop = 0
  BY <1>1, <1>2, <1>3, <1>4 DEF Strings
<1>5. CASE stop # 0
  <2> DEFINE text == SubSeq(s, 1, stop - 1)
             rest == SubSeq(s, stop, Len(s))
  <2>1. text \in Strings /\ rest \in Strings /\ Len(rest) = Len(s) - stop + 1
    BY <1>1, <1>2, <1>5 DEF Strings
  <2>2. stop = 1 => rest = s
    BY <1>1 DEF Strings
  <2>3. s # <<>> /\ (s[1] \in predicate => stop > 1) /\ (s[1] \notin predicate => stop = 1)
    BY <1>1, <1>2, <1>5
  <2>4. takeWhile(s, predicate) = <<text, rest>>
    BY <1>3, <1>5
  <2> HIDE DEF text, rest
  <2>5. QED
    BY <1>1, <1>2, <1>5, <2>1, <2>2, <2>3, <2>4
<1>6. QED
  BY <1>4, <1>5

\* Where two strings differ first, or that they do not.
LEMMA FirstDifferenceIs ==
  ASSUME NEW T, NEW a \in Seq(T), NEW b \in Seq(T)
  PROVE  \/ /\ FirstDifference(a, b) = 0
            /\ \A i \in Nat : At(a, i) = At(b, i)
         \/ \E m \in Nat :
              /\ FirstDifference(a, b) = Sign(At(a, m), At(b, m))
              /\ At(a, m) # At(b, m)
              /\ \A i \in Nat : i < m => At(a, i) = At(b, i)
<1> DEFINE differ == {i \in 1 .. (Len(a) + Len(b)) : At(a, i) # At(b, i)}
<1>1. Len(a) \in Nat /\ Len(b) \in Nat
      /\ DOMAIN a = 1 .. Len(a) /\ DOMAIN b = 1 .. Len(b)
  OBVIOUS
<1>2. \A i \in Nat : i \notin 1 .. (Len(a) + Len(b)) => At(a, i) = At(b, i)
  BY <1>1 DEF At
<1>3. CASE differ = {}
  BY <1>2, <1>3 DEF FirstDifference
<1>4. CASE differ # {}
  <2>1. \E n \in differ : \A m \in differ : n <= m
    <3>1. differ \in SUBSET Nat
      BY <1>1
    <3> HIDE DEF differ
    <3>2. QED
      BY <1>4, <3>1, LeastNatural
  <2>2. PICK m : m = Min(differ)
    OBVIOUS
  <2>3. m \in differ /\ \A i \in differ : m <= i
    BY <2>1, <2>2 DEF Min
  <2>4. FirstDifference(a, b) = Sign(At(a, m), At(b, m))
    BY <1>4, <2>2 DEF FirstDifference
  <2>5. m \in Nat /\ At(a, m) # At(b, m)
    BY <1>1, <2>3
  <2>6. ASSUME NEW i \in Nat, i < m PROVE At(a, i) = At(b, i)
    <3>1. i \in differ => m <= i
      BY <2>3
    <3>2. i \notin differ
      BY <2>5, <2>6, <3>1
    <3>3. QED
      BY <1>2, <3>2
  <2>7. QED
    BY <2>4, <2>5, <2>6
<1>5. QED
  BY <1>3, <1>4

LEMMA AtIsInt == ASSUME NEW s \in Strings, NEW i \in Nat PROVE At(s, i) \in Int
<1>1. \A j \in DOMAIN s : s[j] \in Runes
  BY DEF Strings
<1>2. QED
  BY <1>1 DEF At, Runes

ByDigit == [p \in Pairs |-> FirstDifference(p[1], p[2])]

LEMMA FirstDifferenceOrders == Orders(ByDigit, Strings)
<1> SUFFICES ASSUME NEW a \in Strings, NEW b \in Strings, NEW c \in Strings
             PROVE  /\ FirstDifference(a, b) \in Results
                    /\ FirstDifference(b, a) = -FirstDifference(a, b)
                    /\ Consistent(FirstDifference(a, b), FirstDifference(b, c),
                                  FirstDifference(a, c))
  <2>1. \A a, b \in Strings : ByDigit[<<a, b>>] = FirstDifference(a, b)
    BY DEF ByDigit, Pairs, Strings
  <2>2. QED
    BY <2>1, ZenonT(60) DEF Orders
<1> DEFINE Same(s, t, n) == \A i \in Nat : i < n => At(s, i) = At(t, i)
           Equal(s, t)   == \A i \in Nat : At(s, i) = At(t, i)
           FirstAt(s, t, m) == /\ FirstDifference(s, t) = Sign(At(s, m), At(t, m))
                               /\ At(s, m) # At(t, m)
                               /\ Same(s, t, m)
<1>1. \A s, t \in Strings :
        \/ FirstDifference(s, t) = 0 /\ Equal(s, t)
        \/ \E m \in Nat : FirstAt(s, t, m)
  BY FirstDifferenceIs DEF Strings
<1>2. \A s \in Strings, i \in Nat : At(s, i) \in Int
  BY AtIsInt
<1>3. ASSUME NEW s \in Strings, NEW t \in Strings, Equal(s, t)
      PROVE  FirstDifference(s, t) = 0
  BY <1>1, <1>3
<1>4. ASSUME NEW s \in Strings, NEW t \in Strings, NEW m \in Nat,
             At(s, m) # At(t, m), Same(s, t, m)
      PROVE  FirstDifference(s, t) = Sign(At(s, m), At(t, m))
  <2>1. PICK n \in Nat : FirstAt(s, t, n)
    BY <1>1, <1>4
  <2>2. ~(n < m) /\ ~(m < n)
    BY <1>4, <2>1
  <2>3. n = m
    BY <2>2
  <2>4. QED
    BY <2>1, <2>3
<1>5. \A s, t \in Strings : \A m \in Nat :
        /\ Sign(At(s, m), At(t, m)) \in Results
        /\ Sign(At(t, m), At(s, m)) = -Sign(At(s, m), At(t, m))
        /\ At(s, m) # At(t, m) => Sign(At(s, m), At(t, m)) # 0
  BY <1>2 DEF Sign, Results
<1>6. FirstDifference(a, b) \in Results
  BY <1>1, <1>5 DEF Results
<1>7. FirstDifference(b, a) = -FirstDifference(a, b)
  <2>1. CASE Equal(a, b)
    BY <1>3, <2>1
  <2>2. CASE \E m \in Nat : FirstAt(a, b, m)
    <3>1. PICK m \in Nat : FirstAt(a, b, m)
      BY <2>2
    <3>2. At(b, m) # At(a, m) /\ Same(b, a, m)
      BY <3>1
    <3>3. FirstDifference(b, a) = Sign(At(b, m), At(a, m))
      BY <1>4, <3>2
    <3>4. QED
      BY <1>5, <3>1, <3>3
  <2>3. QED
    BY <1>1, <2>1, <2>2
<1>8. Consistent(FirstDifference(a, b), FirstDifference(b, c), FirstDifference(a, c))
  <2>1. CASE Equal(a, b)
    <3>1. FirstDifference(a, c) = FirstDifference(b, c)
      <4>1. CASE Equal(b, c)
        BY <1>3, <2>1, <4>1
      <4>2. CASE \E m \in Nat : FirstAt(b, c, m)
        <5>1. PICK m \in Nat : FirstAt(b, c, m)
          BY <4>2
        <5>2. At(a, m) # At(c, m) /\ Same(a, c, m) /\ At(a, m) = At(b, m)
          BY <2>1, <5>1
        <5>3. FirstDifference(a, c) = Sign(At(a, m), At(c, m))
          BY <1>4, <5>2
        <5>4. QED
          BY <5>1, <5>2, <5>3
      <4>3. QED
        BY <1>1, <4>1, <4>2
    <3>2. FirstDifference(a, b) = 0
      BY <1>3, <2>1
    <3>3. QED
      BY <3>1, <3>2 DEF Consistent
  <2>2. CASE Equal(b, c)
    <3>1. FirstDifference(a, c) = FirstDifference(a, b)
      <4>1. CASE Equal(a, b)
        BY <1>3, <2>2, <4>1
      <4>2. CASE \E m \in Nat : FirstAt(a, b, m)
        <5>1. PICK m \in Nat : FirstAt(a, b, m)
          BY <4>2
        <5>2. At(a, m) # At(c, m) /\ Same(a, c, m) /\ At(b, m) = At(c, m)
          BY <2>2, <5>1
        <5>3. FirstDifference(a, c) = Sign(At(a, m), At(c, m))
          BY <1>4, <5>2
        <5>4. QED
          BY <5>1, <5>2, <5>3
      <4>3. QED
        BY <1>1, <4>1, <4>2
    <3>2. FirstDifference(b, c) = 0
      BY <1>3, <2>2
    <3>3. QED
      BY <3>1, <3>2 DEF Consistent
  <2>3. CASE (\E m \in Nat : FirstAt(a, b, m)) /\ (\E m \in Nat : FirstAt(b, c, m))
    <3>1. PICK m \in Nat : FirstAt(a, b, m)
      BY <2>3
    <3>2. PICK n \in Nat : FirstAt(b, c, n)
      BY <2>3
    <3>3. FirstDifference(a, b) # 0 /\ FirstDifference(b, c) # 0
      BY <1>5, <3>1, <3>2
    <3>4. ASSUME FirstDifference(a, b) = FirstDifference(b, c)
          PROVE  FirstDifference(a, c) = FirstDifference(a, b)
      <4>1. CASE m < n
        <5>1. At(b, m) = At(c, m) /\ Same(a, c, m)
          BY <3>1, <3>2, <4>1
        <5>2. FirstDifference(a, c) = Sign(At(a, m), At(c, m))
          BY <1>4, <3>1, <5>1
        <5>3. QED
          BY <3>1, <5>1, <5>2
      <4>2. CASE n < m
        <5>1. At(a, n) = At(b, n) /\ Same(a, c, n)
          BY <3>1, <3>2, <4>2
        <5>2. FirstDifference(a, c) = Sign(At(a, n), At(c, n))
          BY <1>4, <3>2, <5>1
        <5>3. QED
          BY <3>2, <3>4, <5>1, <5>2
      <4>3. CASE m = n
        <5>1. /\ At(a, m) \in Int /\ At(b, m) \in Int /\ At(c, m) \in Int
              /\ Sign(At(a, m), At(b, m)) = Sign(At(b, m), At(c, m))
              /\ At(a, m) # At(b, m)
          BY <1>2, <3>1, <3>2, <3>4, <4>3
        <5>2. At(a, m) # At(c, m) /\ Sign(At(a, m), At(c, m)) = Sign(At(a, m), At(b, m))
          BY <5>1 DEF Sign
        <5>3. Same(a, c, m)
          BY <3>1, <3>2, <4>3
        <5>4. FirstDifference(a, c) = Sign(At(a, m), At(c, m))
          BY <1>4, <5>2, <5>3
        <5>5. QED
          BY <3>1, <5>2, <5>4
      <4>4. QED
        BY <4>1, <4>2, <4>3
    <3>5. QED
      BY <3>3, <3>4 DEF Consistent
  <2>4. QED
    BY <1>1, <2>1, <2>2, <2>3
<1>9. QED
  BY <1>6, <1>7, <1>8

Digit == [p \in Pairs |-> compareDigit(p[1], p[2])]

LEMMA DigitOrders == Orders(Digit, Strings)
<1> DEFINE trim(s)  == takeWhile(s, {Zero})[2]
           byLength == [p \in Pairs |-> Sign(Len(trim(p[1])), Len(trim(p[2])))]
           byValue  == [p \in Pairs |-> ByDigit[<<trim(p[1]), trim(p[2])>>]]
<1>1. \A s \in Strings : trim(s) \in Strings /\ Len(trim(s)) \in Int
  <2>1. ASSUME NEW s \in Strings PROVE trim(s) \in Strings
    BY TakeWhile
  <2>2. \A s \in Strings : Len(s) \in Int
    BY DEF Strings
  <2>3. QED
    BY <2>1, <2>2
<1>2. \A a, b \in Strings :
        /\ <<a, b>> \in Pairs
        /\ Digit[<<a, b>>] = compareDigit(a, b)
        /\ byLength[<<a, b>>] = Sign(Len(trim(a)), Len(trim(b)))
        /\ byValue[<<a, b>>] = FirstDifference(trim(a), trim(b))
        /\ byValue[<<a, b>>] = ByDigit[<<trim(a), trim(b)>>]
  BY <1>1 DEF Digit, ByDigit, Pairs, Strings
<1>3. Orders(byLength, Strings)
  BY <1>1, <1>2, SignOrders, ZenonT(60) DEF Orders
<1>4. Orders(byValue, Strings)
  <2> DEFINE image == [s \in Strings |-> trim(s)]
  <2>1. image \in [Strings -> Strings]
    BY <1>1
  <2>2. \A a, b \in Strings : byValue[<<a, b>>] = ByDigit[<<image[a], image[b]>>]
    BY <1>2
  <2> HIDE DEF image, byValue
  <2>3. QED
    BY <2>1, <2>2, FirstDifferenceOrders, ImageOrders
<1>5. \A a, b \in Strings :
        compareDigit(a, b) = Lex(Sign(Len(trim(a)), Len(trim(b))),
                                 FirstDifference(trim(a), trim(b)))
  <2> SUFFICES ASSUME NEW a \in Strings, NEW b \in Strings
               PROVE  compareDigit(a, b) = Lex(Sign(Len(trim(a)), Len(trim(b))),
                                               FirstDifference(trim(a), trim(b)))
    OBVIOUS
  <2>1. Len(trim(a)) \in Int /\ Len(trim(b)) \in Int
    BY <1>1
  <2>2. compareDigit(a, b) =
          IF Len(trim(a)) # Len(trim(b)) THEN Sign(Len(trim(a)), Len(trim(b)))
          ELSE FirstDifference(trim(a), trim(b))
    BY DEF compareDigit
  <2>3. QED
    BY <2>1, <2>2 DEF Lex, Sign
<1> HIDE DEF byLength, byValue
<1>6. \A a, b \in Strings : Digit[<<a, b>>] = Lex(byLength[<<a, b>>], byValue[<<a, b>>])
  BY <1>2, <1>5, ZenonT(60)
<1>7. QED
  BY <1>3, <1>4, <1>6, LexOrders

----------------------------------------------------------------------------
(* Parts *)

LEMMA PartOf ==
  ASSUME NEW s \in Strings
  PROVE  /\ textOf(s) \in Strings /\ numberOf(s) \in Strings /\ afterOf(s) \in Strings
         /\ s # <<>> => Len(afterOf(s)) < Len(s)
         /\ s = <<>> => textOf(s) = <<>> /\ numberOf(s) = <<>> /\ afterOf(s) = <<>>
<1> DEFINE rest == takeWhile(s, Others)[2]
<1>1. /\ textOf(s) \in Strings /\ rest \in Strings /\ Len(rest) <= Len(s)
      /\ s # <<>> /\ s[1] \in Others => Len(rest) < Len(s)
      /\ s # <<>> /\ s[1] \notin Others => rest = s
      /\ s = <<>> => textOf(s) = <<>> /\ rest = <<>>
  BY TakeWhile DEF textOf
<1>2. numberOf(s) = takeWhile(rest, Digits)[1] /\ afterOf(s) = takeWhile(rest, Digits)[2]
  BY DEF numberOf, afterOf
<1> HIDE DEF rest
<1>3. /\ numberOf(s) \in Strings /\ afterOf(s) \in Strings
      /\ Len(afterOf(s)) <= Len(rest)
      /\ rest # <<>> /\ rest[1] \in Digits => Len(afterOf(s)) < Len(rest)
      /\ rest = <<>> => numberOf(s) = <<>> /\ afterOf(s) = <<>>
  BY <1>1, <1>2, TakeWhile
<1>4. s # <<>> => s[1] \in Others \/ s[1] \in Digits
  BY DEF Strings, Others
<1>5. Len(s) \in Nat /\ Len(rest) \in Nat /\ Len(afterOf(s)) \in Nat
  BY <1>1, <1>3 DEF Strings
<1>6. ASSUME s # <<>> PROVE Len(afterOf(s)) < Len(s)
  <2>1. CASE s[1] \in Others
    BY <1>1, <1>3, <1>5, <1>6, <2>1
  <2>2. CASE s[1] \notin Others
    <3>1. rest = s /\ rest[1] \in Digits
      BY <1>1, <1>4, <1>6, <2>2
    <3>2. QED
      BY <1>3, <1>6, <3>1
  <2>3. QED
    BY <2>1, <2>2
<1>7. QED
  BY <1>1, <1>3, <1>6

ByText   == [p \in Pairs |-> compareNonDigit[<<textOf(p[1]), textOf(p[2])>>]]
ByNumber == [p \in Pairs |-> compareDigit(numberOf(p[1]), numberOf(p[2]))]
ByPart   == [p \in Pairs |-> Lex(ByText[p], ByNumber[p])]

LEMMA ByPartOrders == Orders(ByPart, Strings)
<1>1. \A a, b \in Strings :
        /\ <<a, b>> \in Pairs
        /\ ByText[<<a, b>>] = compareNonDigit[<<textOf(a), textOf(b)>>]
        /\ ByNumber[<<a, b>>] = Digit[<<numberOf(a), numberOf(b)>>]
        /\ ByPart[<<a, b>>] = Lex(ByText[<<a, b>>], ByNumber[<<a, b>>])
  BY PartOf DEF ByText, ByNumber, ByPart, Digit, Pairs, Strings
<1>2. Orders(ByText, Strings)
  <2> DEFINE image == [s \in Strings |-> textOf(s)]
  <2>1. image \in [Strings -> Strings]
    BY PartOf
  <2>2. \A a, b \in Strings : ByText[<<a, b>>] = compareNonDigit[<<image[a], image[b]>>]
    BY <1>1
  <2> HIDE DEF image
  <2>3. QED
    BY <2>1, <2>2, NonDigitOrders, ImageOrders
<1>3. Orders(ByNumber, Strings)
  <2> DEFINE image == [s \in Strings |-> numberOf(s)]
  <2>1. image \in [Strings -> Strings]
    BY PartOf
  <2>2. \A a, b \in Strings : ByNumber[<<a, b>>] = Digit[<<image[a], image[b]>>]
    BY <1>1
  <2> HIDE DEF image
  <2>3. QED
    BY <2>1, <2>2, DigitOrders, ImageOrders
<1>4. \A a, b \in Strings : ByPart[<<a, b>>] = Lex(ByText[<<a, b>>], ByNumber[<<a, b>>])
  BY <1>1
<1>5. QED
  BY <1>2, <1>3, <1>4, LexOrders

IsVersionPart(f) ==
  f = [p \in Pairs |->
         LET byText   == compareNonDigit[<<textOf(p[1]), textOf(p[2])>>]
             byNumber == compareDigit(numberOf(p[1]), numberOf(p[2]))
         IN IF p = << <<>>, <<>> >> THEN 0
            ELSE IF byText # 0 THEN byText
            ELSE IF byNumber # 0 THEN byNumber
            ELSE f[<<afterOf(p[1]), afterOf(p[2])>>]]

LEMMA VersionPartDefined == IsVersionPart(compareVersionPart)
<1> DEFINE stop == {p \in Pairs : p = << <<>>, <<>> >> \/ ByPart[p] # 0}
           val  == [p \in Pairs |-> IF p = << <<>>, <<>> >> THEN 0 ELSE ByPart[p]]
           next == [p \in Pairs |-> <<afterOf(p[1]), afterOf(p[2])>>]
<1>1. stop \in SUBSET Pairs
  OBVIOUS
<1>2. next \in [Pairs -> Pairs]
  BY PartOf DEF Pairs, Strings
<1>3. PICK f : IsTailRecursion(f, Pairs, stop, val, next)
  <2> HIDE DEF stop, val, next
  <2>1. QED
    BY <1>1, <1>2, TailRecursionExists
<1>4. IsVersionPart(f)
  <2> DEFINE g == [p \in Pairs |->
         LET byText   == compareNonDigit[<<textOf(p[1]), textOf(p[2])>>]
             byNumber == compareDigit(numberOf(p[1]), numberOf(p[2]))
         IN IF p = << <<>>, <<>> >> THEN 0
            ELSE IF byText # 0 THEN byText
            ELSE IF byNumber # 0 THEN byNumber
            ELSE f[<<afterOf(p[1]), afterOf(p[2])>>]]
  <2>1. ASSUME NEW p \in Pairs
        PROVE  (IF p \in stop THEN val[p] ELSE f[next[p]]) = g[p]
    BY DEF ByPart, ByText, ByNumber, Lex
  <2>2. g = [p \in Pairs |-> g[p]]
    OBVIOUS
  <2> HIDE DEF stop, val, next, g
  <2>3. f = g
    BY <1>3, <2>1, <2>2 DEF IsTailRecursion
  <2>4. QED
    BY <2>3 DEF IsVersionPart, g
<1>5. compareVersionPart = CHOOSE g : IsVersionPart(g)
  BY DEF compareVersionPart, IsVersionPart
<1>6. QED
  BY <1>4, <1>5

\* compareVersionPart compares a text and a number and goes on behind them.
LEMMA PartStep ==
  ASSUME NEW a \in Strings, NEW b \in Strings
  PROVE  /\ ByPart[<<a, b>>] = Lex(compareNonDigit[<<textOf(a), textOf(b)>>],
                                   compareDigit(numberOf(a), numberOf(b)))
         /\ compareVersionPart[<<a, b>>] =
              IF a = <<>> /\ b = <<>> THEN 0
              ELSE Lex(ByPart[<<a, b>>], compareVersionPart[<<afterOf(a), afterOf(b)>>])
<1>1. <<a, b>> \in Pairs
  BY DEF Pairs, Strings
<1>2. ByPart[<<a, b>>] = Lex(compareNonDigit[<<textOf(a), textOf(b)>>],
                            compareDigit(numberOf(a), numberOf(b)))
  BY DEF ByPart, ByText, ByNumber, Pairs, Strings
<1>3. compareVersionPart[<<a, b>>] =
        LET byText   == compareNonDigit[<<textOf(a), textOf(b)>>]
            byNumber == compareDigit(numberOf(a), numberOf(b))
        IN IF <<a, b>> = << <<>>, <<>> >> THEN 0
           ELSE IF byText # 0 THEN byText
           ELSE IF byNumber # 0 THEN byNumber
           ELSE compareVersionPart[<<afterOf(a), afterOf(b)>>]
  <2> HIDE DEF Pairs
  <2>1. QED
    BY <1>1, VersionPartDefined DEF IsVersionPart
<1>4. <<a, b>> = << <<>>, <<>> >> <=> a = <<>> /\ b = <<>>
  OBVIOUS
<1>5. QED
  BY <1>2, <1>3, <1>4 DEF Lex

LEMMA VersionPartOrders == Orders(compareVersionPart, Strings)
<1> DEFINE next == [s \in Strings |-> afterOf(s)]
           size == [s \in Strings |-> Len(s)]
<1>1. next \in [Strings -> Strings] /\ size \in [Strings -> Nat]
  BY PartOf DEF Strings
<1>2. <<>> \in Strings /\ next[<<>>] = <<>>
  <2>1. <<>> \in Strings
    BY DEF Strings
  <2>2. QED
    BY <2>1, PartOf
<1>3. \A s \in Strings : s # <<>> => size[next[s]] < size[s]
  BY PartOf
<1>5. \A a, b \in Strings :
        /\ ByPart[<<a, b>>] = Lex(compareNonDigit[<<textOf(a), textOf(b)>>],
                                  compareDigit(numberOf(a), numberOf(b)))
        /\ compareVersionPart[<<a, b>>] =
             IF a = <<>> /\ b = <<>> THEN 0
             ELSE Lex(ByPart[<<a, b>>], compareVersionPart[<<afterOf(a), afterOf(b)>>])
  BY PartStep
<1>6. compareVersionPart[<< <<>>, <<>> >>] = 0 /\ ByPart[<< <<>>, <<>> >>] = 0
  <2>1. compareVersionPart[<< <<>>, <<>> >>] = 0
    BY <1>2, <1>5
  <2>2. ByPart[<< <<>>, <<>> >>] = 0
    BY <1>2, ByPartOrders DEF Orders, Results
  <2>3. QED
    BY <2>1, <2>2
<1>7. \A a, b \in Strings :
        compareVersionPart[<<a, b>>] =
          Lex(ByPart[<<a, b>>], compareVersionPart[<<next[a], next[b]>>])
  <2> SUFFICES ASSUME NEW a \in Strings, NEW b \in Strings
               PROVE  compareVersionPart[<<a, b>>] =
                        Lex(ByPart[<<a, b>>], compareVersionPart[<<next[a], next[b]>>])
    OBVIOUS
  <2>1. CASE a = <<>> /\ b = <<>>
    BY <1>2, <1>6, <2>1 DEF Lex
  <2>2. CASE ~(a = <<>> /\ b = <<>>)
    <3>1. next[a] = afterOf(a) /\ next[b] = afterOf(b)
      OBVIOUS
    <3>2. QED
      BY <1>5, <2>2, <3>1
  <2>3. QED
    BY <2>1, <2>2
<1> HIDE DEF next, size
<1>8. QED
  BY <1>1, <1>2, <1>3, <1>6, <1>7, ByPartOrders, LoopOrders

----------------------------------------------------------------------------
(* Versions *)

IsDecimal(f, digits) ==
  f = [n \in 0 .. Len(digits) |->
         IF n = 0 THEN 0 ELSE 10 * f[n - 1] + digits[n] - Zero]

LEMMA DecimalIs ==
  ASSUME NEW digits \in Strings
  PROVE  \E value \in [0 .. Len(digits) -> Int] :
           /\ value[0] = 0
           /\ \A n \in 1 .. Len(digits) : value[n] = 10 * value[n - 1] + digits[n] - Zero
           /\ Decimal(digits) = value[Len(digits)]
<1> DEFINE N == Len(digits)
           step == [n \in 1 .. N |-> [x \in Int |-> 10 * x + digits[n] - Zero]]
<1>1. N \in Nat /\ \A n \in 1 .. N : digits[n] \in Int
  <2>1. N \in Nat /\ \A n \in 1 .. N : digits[n] \in Runes
    BY DEF Strings
  <2>2. \A r \in Runes : r \in Int
    BY DEF Runes
  <2>3. QED
    BY <2>1, <2>2
<1>2. PICK f : IsIteration(f, N, 0, step)
  <2> HIDE DEF N, step
  <2>1. QED
    BY <1>1, IterationExists
<1>3. ASSUME NEW g, g[0] = 0,
             \A n \in 1 .. N : g[n - 1] \in Int => g[n] = 10 * g[n - 1] + digits[n] - Zero
      PROVE  \A n \in 0 .. N : g[n] \in Int
  <2> DEFINE A == {n \in Nat : n <= N => g[n] \in Int}
  <2>1. 0 \in A
    BY <1>3
  <2>2. ASSUME NEW n \in Nat, n \in A PROVE n + 1 \in A
    <3>1. CASE n + 1 <= N
      <4>1. n + 1 \in 1 .. N /\ g[n] \in Int /\ (n + 1) - 1 = n
        BY <1>1, <2>2, <3>1
      <4>2. g[n + 1] = 10 * g[n] + digits[n + 1] - Zero
        BY <1>3, <4>1
      <4>3. QED
        BY <1>1, <4>1, <4>2 DEF Zero
    <3>2. CASE ~(n + 1 <= N)
      BY <3>2
    <3>3. QED
      BY <3>1, <3>2
  <2> HIDE DEF A
  <2>3. Nat \subseteq A
    BY <2>1, <2>2, SetInduction
  <2>4. QED
    BY <1>1, <2>3 DEF A
<1>4. \A n \in 0 .. N : f[n] = IF n = 0 THEN 0 ELSE step[n][f[n - 1]]
  <2> HIDE DEF N, step
  <2>1. QED
    BY <1>2 DEF IsIteration
<1>5. f[0] = 0 /\ \A n \in 1 .. N : f[n - 1] \in Int =>
                    f[n] = 10 * f[n - 1] + digits[n] - Zero
  <2>1. f[0] = 0
    <3> HIDE DEF N, step
    <3>1. 0 \in 0 .. N
      BY <1>1
    <3>2. QED
      BY <1>4, <3>1
  <2>2. ASSUME NEW n \in 1 .. N, f[n - 1] \in Int
        PROVE  f[n] = 10 * f[n - 1] + digits[n] - Zero
    <3>1. step[n] = [x \in Int |-> 10 * x + digits[n] - Zero]
      OBVIOUS
    <3>2. step[n][f[n - 1]] = 10 * f[n - 1] + digits[n] - Zero
      BY <2>2, <3>1
    <3>3. n \in 0 .. N /\ n # 0
      BY <1>1
    <3> HIDE DEF step
    <3>4. QED
      BY <1>4, <3>2, <3>3
  <2>3. QED
    BY <2>1, <2>2
<1>6. \A n \in 0 .. N : f[n] \in Int
  <2> HIDE DEF N, step
  <2>1. QED
    BY <1>3, <1>5
<1>7. IsDecimal(f, digits)
  <2> DEFINE g == [n \in 0 .. N |->
                     IF n = 0 THEN 0 ELSE 10 * f[n - 1] + digits[n] - Zero]
  <2>1. ASSUME NEW n \in 0 .. N PROVE f[n] = g[n]
    BY <1>1, <1>5, <1>6
  <2>2. f = [n \in 0 .. N |-> f[n]] /\ g = [n \in 0 .. N |-> g[n]]
    BY <1>2 DEF IsIteration
  <2> HIDE DEF g
  <2>3. f = g
    BY <2>1, <2>2
  <2>4. QED
    BY <2>3 DEF g, IsDecimal
<1>8. PICK value : IsDecimal(value, digits) /\ Decimal(digits) = value[N]
  <2>1. Decimal(digits) = (CHOOSE g : IsDecimal(g, digits))[N]
    BY DEF Decimal, IsDecimal
  <2>2. QED
    BY <1>7, <2>1
<1>9. value[0] = 0 /\ \A n \in 1 .. N : value[n] = 10 * value[n - 1] + digits[n] - Zero
  BY <1>1, <1>8 DEF IsDecimal
<1>10. \A n \in 0 .. N : value[n] \in Int
  <2> HIDE DEF N
  <2>1. QED
    BY <1>3, <1>9
<1>11. value \in [0 .. N -> Int]
  <2>1. value = [n \in 0 .. N |-> value[n]]
    BY <1>8 DEF IsDecimal
  <2> HIDE DEF N
  <2>2. QED
    BY <1>10, <2>1
<1>12. QED
  BY <1>8, <1>9, <1>11

LEMMA DecimalIsInt ==
  ASSUME NEW digits \in Strings
  PROVE  Decimal(digits) \in Int
<1>1. Len(digits) \in Nat
  BY DEF Strings
<1>2. QED
  BY <1>1, DecimalIs

LEMMA EpochIsInt ==
  ASSUME NEW s \in Strings
  PROVE  epochOf(s) \in Int
<1>1. Unsigned(s) \in Strings
  <2>1. CASE s = <<>>
    BY <2>1 DEF Unsigned, nextRune, Plus, Hyphen
  <2>2. CASE s # <<>>
    BY <2>2 DEF Unsigned, Strings
  <2>3. QED
    BY <2>1, <2>2
<1>2. Decimal(Unsigned(s)) \in Int
  BY <1>1, DecimalIsInt
<1>3. QED
  BY <1>2 DEF epochOf, AtoiParsed

\* A set of positions has a last one.
LEMMA GreatestBounded ==
  ASSUME NEW N \in Nat, NEW I, I # {}, \A i \in I : i \in 1 .. N
  PROVE  \E i \in I : \A j \in I : i >= j
<1> DEFINE S == {N - i : i \in I}
<1>1. S \in SUBSET Nat /\ S # {}
  OBVIOUS
<1>2. PICK n \in S : \A m \in S : n <= m
  <2> HIDE DEF S
  <2>1. QED
    BY <1>1, LeastNatural
<1>3. PICK i \in I : n = N - i
  OBVIOUS
<1>4. ASSUME NEW j \in I PROVE i >= j
  <2>1. N - i <= N - j
    BY <1>2, <1>3
  <2>2. i \in Nat /\ j \in Nat
    OBVIOUS
  <2>3. QED
    BY <2>1, <2>2
<1>5. QED
  BY <1>4

LEMMA SplitOf ==
  ASSUME NEW v \in Strings
  PROVE  /\ splitVersion(v).epoch \in Int
         /\ splitVersion(v).version \in Strings
         /\ splitVersion(v).revision \in Strings
<1> DEFINE colon  == SelectInSeq(v, LAMBDA r : r = Colon)
           rest   == SubSeq(v, colon + 1, Len(v))
           hyphen == SelectLastInSeq(rest, LAMBDA r : r = Hyphen)
<1>1. colon \in 0 .. Len(v)
  <2> DEFINE I == {i \in 1 .. Len(v) : v[i] = Colon}
  <2>1. CASE I = {}
    BY <2>1 DEF SelectInSeq, Strings
  <2>2. CASE I # {}
    <3>1. I \in SUBSET Nat
      OBVIOUS
    <3>2. colon = Min(I)
      BY <2>2 DEF SelectInSeq
    <3> HIDE DEF I, colon
    <3>3. Min(I) \in I
      BY <2>2, <3>1, LeastNatural DEF Min
    <3>4. QED
      BY <3>2, <3>3 DEF I
  <2>3. QED
    BY <2>1, <2>2
<1> HIDE DEF colon
<1>2. rest \in Strings
  BY <1>1 DEF Strings
<1> HIDE DEF rest
<1>3. hyphen \in 0 .. Len(rest)
  <2> DEFINE I == {i \in 1 .. Len(rest) : rest[i] = Hyphen}
  <2>1. Len(rest) \in Nat
    BY <1>2 DEF Strings
  <2>2. CASE I = {}
    BY <2>1, <2>2 DEF SelectLastInSeq
  <2>3. CASE I # {}
    <3>1. \A i \in I : i \in 1 .. Len(rest)
      OBVIOUS
    <3>2. hyphen = Max(I)
      BY <2>3 DEF SelectLastInSeq
    <3> HIDE DEF I, hyphen
    <3>3. Max(I) \in I
      BY <2>1, <2>3, <3>1, GreatestBounded DEF Max
    <3>4. QED
      BY <3>1, <3>2, <3>3
  <2>4. QED
    BY <2>2, <2>3
<1> HIDE DEF hyphen
<1>4. SubSeq(v, 1, colon - 1) \in Strings
  BY <1>1 DEF Strings
<1>5. splitVersion(v).epoch \in Int
  <2>1. splitVersion(v).epoch = IF colon = 0 THEN 0 ELSE epochOf(SubSeq(v, 1, colon - 1))
    BY DEF splitVersion, colon
  <2>2. QED
    BY <1>4, <2>1, EpochIsInt
<1>6. splitVersion(v).version = IF hyphen = 0 THEN rest ELSE SubSeq(rest, 1, hyphen - 1)
  BY DEF splitVersion, colon, rest, hyphen
<1>7. splitVersion(v).revision = IF hyphen = 0 THEN <<Zero>>
                                 ELSE SubSeq(rest, hyphen + 1, Len(rest))
  BY DEF splitVersion, colon, rest, hyphen
<1>8. splitVersion(v).version \in Strings
  BY <1>2, <1>3, <1>6 DEF Strings
<1>9. splitVersion(v).revision \in Strings
  <2>1. <<Zero>> \in Strings
    BY DEF Strings, Zero, Runes
  <2>2. SubSeq(rest, hyphen + 1, Len(rest)) \in Strings
    BY <1>2, <1>3 DEF Strings
  <2>3. QED
    BY <1>7, <2>1, <2>2
<1>10. QED
  BY <1>5, <1>8, <1>9

Versions == [p \in Pairs |-> CompareVersions(p[1], p[2])]

LEMMA VersionsOrders == Orders(Versions, Strings)
<1> DEFINE epoch    == [v \in Strings |-> splitVersion(v).epoch]
           version  == [v \in Strings |-> splitVersion(v).version]
           revision == [v \in Strings |-> splitVersion(v).revision]
           byEpoch    == [p \in Pairs |-> Sign(epoch[p[1]], epoch[p[2]])]
           byVersion  == [p \in Pairs |-> compareVersionPart[<<version[p[1]], version[p[2]]>>]]
           byRevision == [p \in Pairs |-> compareVersionPart[<<revision[p[1]], revision[p[2]]>>]]
           byBoth     == [p \in Pairs |-> Lex(byVersion[p], byRevision[p])]
<1>1. /\ \A v \in Strings : epoch[v] \in Int
      /\ version \in [Strings -> Strings] /\ revision \in [Strings -> Strings]
  BY SplitOf
<1>2. \A a, b \in Strings : <<a, b>> \in Pairs
  BY DEF Pairs, Strings
<1>3. Orders(byEpoch, Strings)
  <2>1. \A a, b \in Strings : byEpoch[<<a, b>>] = Sign(epoch[a], epoch[b])
    BY <1>2
  <2> HIDE DEF epoch, byEpoch
  <2> SUFFICES ASSUME NEW a \in Strings, NEW b \in Strings, NEW c \in Strings
               PROVE  /\ byEpoch[<<a, b>>] \in Results
                      /\ byEpoch[<<b, a>>] = -byEpoch[<<a, b>>]
                      /\ Consistent(byEpoch[<<a, b>>], byEpoch[<<b, c>>], byEpoch[<<a, c>>])
    BY DEF Orders
  <2>2. epoch[a] \in Int /\ epoch[b] \in Int /\ epoch[c] \in Int
    BY <1>1
  <2>3. /\ Sign(epoch[a], epoch[b]) \in Results
        /\ Sign(epoch[b], epoch[a]) = -Sign(epoch[a], epoch[b])
        /\ Consistent(Sign(epoch[a], epoch[b]), Sign(epoch[b], epoch[c]),
                      Sign(epoch[a], epoch[c]))
    BY <2>2, SignOrders
  <2>4. QED
    BY <2>1, <2>3
<1>4. Orders(byVersion, Strings)
  <2>1. \A a, b \in Strings :
          byVersion[<<a, b>>] = compareVersionPart[<<version[a], version[b]>>]
    BY <1>2
  <2> HIDE DEF version, byVersion
  <2>2. QED
    BY <1>1, <2>1, VersionPartOrders, ImageOrders
<1>5. Orders(byRevision, Strings)
  <2>1. \A a, b \in Strings :
          byRevision[<<a, b>>] = compareVersionPart[<<revision[a], revision[b]>>]
    BY <1>2
  <2> HIDE DEF revision, byRevision
  <2>2. QED
    BY <1>1, <2>1, VersionPartOrders, ImageOrders
<1>6. Orders(byBoth, Strings)
  <2>1. \A a, b \in Strings : byBoth[<<a, b>>] = Lex(byVersion[<<a, b>>], byRevision[<<a, b>>])
    BY <1>2
  <2> HIDE DEF byVersion, byRevision, byBoth
  <2>2. QED
    BY <1>4, <1>5, <2>1, LexOrders
<1>7. \A a, b \in Strings : Versions[<<a, b>>] = Lex(byEpoch[<<a, b>>], byBoth[<<a, b>>])
  <2> SUFFICES ASSUME NEW a \in Strings, NEW b \in Strings
               PROVE  Versions[<<a, b>>] = Lex(byEpoch[<<a, b>>], byBoth[<<a, b>>])
    OBVIOUS
  <2>1. Versions[<<a, b>>] = CompareVersions(a, b)
    BY <1>2 DEF Versions
  <2>2. CompareVersions(a, b) =
          IF epoch[a] # epoch[b] THEN Sign(epoch[a], epoch[b])
          ELSE Lex(compareVersionPart[<<version[a], version[b]>>],
                   compareVersionPart[<<revision[a], revision[b]>>])
    BY DEF CompareVersions, Lex
  <2>3. /\ byEpoch[<<a, b>>] = Sign(epoch[a], epoch[b])
        /\ byBoth[<<a, b>>] = Lex(compareVersionPart[<<version[a], version[b]>>],
                                  compareVersionPart[<<revision[a], revision[b]>>])
    BY <1>2
  <2>4. epoch[a] \in Int /\ epoch[b] \in Int
    BY <1>1
  <2> HIDE DEF epoch, version, revision, byEpoch, byBoth
  <2>5. Sign(epoch[a], epoch[b]) = 0 <=> epoch[a] = epoch[b]
    BY <2>4 DEF Sign
  <2>6. QED
    BY <2>1, <2>2, <2>3, <2>5 DEF Lex
<1> HIDE DEF byEpoch, byBoth
<1>8. QED
  BY <1>3, <1>6, <1>7, LexOrders

\* CompareVersions is a total preorder of all strings: whichever of two versions
\* is asked for first, and whatever a third is compared with, it says the same.
THEOREM VersionsAreOrdered ==
  ASSUME NEW a \in Seq(Runes), NEW b \in Seq(Runes), NEW c \in Seq(Runes)
  PROVE  /\ CompareVersions(a, b) \in {-1, 0, 1}
         /\ CompareVersions(b, a) = -CompareVersions(a, b)
         /\ CompareVersions(a, b) <= 0 /\ CompareVersions(b, c) <= 0
              => /\ CompareVersions(a, c) <= 0
                 /\ CompareVersions(a, c) = 0 =>
                      CompareVersions(a, b) = 0 /\ CompareVersions(b, c) = 0
<1>1. a \in Strings /\ b \in Strings /\ c \in Strings
  BY DEF Strings
<1>2. \A u, v \in Strings : Versions[<<u, v>>] = CompareVersions(u, v)
  BY DEF Versions, Pairs, Strings
<1>3. /\ CompareVersions(a, b) \in Results
      /\ CompareVersions(b, c) \in Results
      /\ CompareVersions(a, c) \in Results
      /\ CompareVersions(b, a) = -CompareVersions(a, b)
      /\ Consistent(CompareVersions(a, b), CompareVersions(b, c), CompareVersions(a, c))
  BY <1>1, <1>2, VersionsOrders DEF Orders
<1>4. QED
  BY <1>3 DEF Consistent, Results

----------------------------------------------------------------------------
(* Keys *)

\* What the reference compares: sequences of integers, that read 0 behind their end.
Keys == Seq(Int)

\* A key where it is read.
LEMMA AtOf ==
  ASSUME NEW a \in Keys
  PROVE  /\ Len(a) \in Nat /\ DOMAIN a = 1 .. Len(a)
         /\ At(a, 0) = 0
         /\ \A i \in Nat : At(a, i) \in Int
         /\ \A i \in Nat : i > Len(a) => At(a, i) = 0
         /\ \A i \in 1 .. Len(a) : At(a, i) = a[i] /\ a[i] \in Int
BY DEF Keys, At

\* A key without its first integer.
LEMMA RestOfKey ==
  ASSUME NEW a \in Keys
  PROVE  /\ Rest(a) \in Keys
         /\ \A i \in Nat : i > 0 => At(Rest(a), i) = At(a, i + 1)
<1>1. CASE a = <<>>
  <2>1. Rest(a) = <<>>
    BY <1>1 DEF Rest
  <2>2. QED
    BY <1>1, <2>1 DEF At
<1>2. CASE a # <<>>
  <2>1. /\ Tail(a) \in Keys /\ Len(Tail(a)) = Len(a) - 1 /\ Len(a) \in Nat
        /\ \A i \in 1 .. Len(a) - 1 : Tail(a)[i] = a[i + 1]
        /\ DOMAIN a = 1 .. Len(a) /\ DOMAIN Tail(a) = 1 .. Len(a) - 1
    BY <1>2 DEF Keys
  <2>2. Rest(a) = Tail(a)
    BY <1>2 DEF Rest
  <2>3. ASSUME NEW i \in Nat, i > 0 PROVE At(Rest(a), i) = At(a, i + 1)
    BY <2>1, <2>2, <2>3 DEF At
  <2>4. QED
    BY <2>1, <2>2, <2>3
<1>3. QED
  BY <1>1, <1>2

\* One key behind another.
LEMMA AtConcat ==
  ASSUME NEW a \in Keys, NEW b \in Keys, NEW i \in Nat, i > 0
  PROVE  /\ a \o b \in Keys
         /\ At(a \o b, i) = IF i <= Len(a) THEN At(a, i) ELSE At(b, i - Len(a))
<1>1. /\ Len(a) \in Nat /\ Len(b) \in Nat /\ Len(a \o b) = Len(a) + Len(b)
      /\ DOMAIN a = 1 .. Len(a) /\ DOMAIN b = 1 .. Len(b)
      /\ DOMAIN (a \o b) = 1 .. Len(a) + Len(b) /\ a \o b \in Keys
      /\ \A j \in 1 .. Len(a) + Len(b) :
           (a \o b)[j] = IF j <= Len(a) THEN a[j] ELSE b[j - Len(a)]
  BY DEF Keys
<1>2. CASE i <= Len(a)
  BY <1>1, <1>2 DEF At
<1>3. CASE ~(i <= Len(a)) /\ i <= Len(a) + Len(b)
  BY <1>1, <1>3 DEF At
<1>4. CASE ~(i <= Len(a) + Len(b))
  BY <1>1, <1>4 DEF At
<1>5. QED
  BY <1>1, <1>2, <1>3, <1>4

\* The first place where two keys differ gives their order.
LEMMA DiffersAt ==
  ASSUME NEW a \in Keys, NEW b \in Keys, NEW m \in Nat, At(a, m) # At(b, m),
         \A i \in Nat : i < m => At(a, i) = At(b, i)
  PROVE  FirstDifference(a, b) = Sign(At(a, m), At(b, m))
<1>1. CASE \A i \in Nat : At(a, i) = At(b, i)
  BY <1>1
<1>2. ASSUME NEW n \in Nat, FirstDifference(a, b) = Sign(At(a, n), At(b, n)),
             At(a, n) # At(b, n), \A i \in Nat : i < n => At(a, i) = At(b, i)
      PROVE  FirstDifference(a, b) = Sign(At(a, m), At(b, m))
  <2>1. ~(m < n) /\ ~(n < m)
    BY <1>2
  <2>2. m = n
    BY <2>1
  <2>3. QED
    BY <1>2, <2>2
<1>3. QED
  BY <1>1, <1>2, FirstDifferenceIs DEF Keys

\* Keys compare equal exactly where they read the same everywhere.
LEMMA DiffersNowhere ==
  ASSUME NEW a \in Keys, NEW b \in Keys
  PROVE  FirstDifference(a, b) = 0 <=> \A i \in Nat : At(a, i) = At(b, i)
<1>1. \A x, y \in Int : Sign(x, y) = 0 => x = y
  BY DEF Sign
<1>2. \A i \in Nat : At(a, i) \in Int /\ At(b, i) \in Int
  BY AtOf
<1>3. QED
  BY <1>1, <1>2, FirstDifferenceIs, SMTT(20) DEF Keys

\* The heads decide, then the rests.
LEMMA DifferenceStep ==
  ASSUME NEW a \in Keys, NEW b \in Keys
  PROVE  FirstDifference(a, b) =
           Lex(Sign(At(a, 1), At(b, 1)), FirstDifference(Rest(a), Rest(b)))
<1>1. /\ Rest(a) \in Keys /\ Rest(b) \in Keys
      /\ \A i \in Nat : i > 0 => At(Rest(a), i) = At(a, i + 1)
                                   /\ At(Rest(b), i) = At(b, i + 1)
  BY RestOfKey
<1>2. At(a, 0) = At(b, 0) /\ At(Rest(a), 0) = At(Rest(b), 0)
  BY <1>1, AtOf
<1>3. At(a, 1) \in Int /\ At(b, 1) \in Int
  BY AtOf
<1>4. Sign(At(a, 1), At(b, 1)) = 0 <=> At(a, 1) = At(b, 1)
  BY <1>3 DEF Sign
<1>5. CASE At(a, 1) # At(b, 1)
  <2>1. \A i \in Nat : i < 1 => At(a, i) = At(b, i)
    BY <1>2
  <2>2. FirstDifference(a, b) = Sign(At(a, 1), At(b, 1))
    BY <1>5, <2>1, DiffersAt
  <2>3. QED
    BY <1>4, <1>5, <2>2 DEF Lex
<1>6. CASE At(a, 1) = At(b, 1)
  <2>1. Lex(Sign(At(a, 1), At(b, 1)), FirstDifference(Rest(a), Rest(b))) =
          FirstDifference(Rest(a), Rest(b))
    BY <1>4, <1>6 DEF Lex
  <2>2. CASE \A i \in Nat : At(Rest(a), i) = At(Rest(b), i)
    <3>1. ASSUME NEW i \in Nat PROVE At(a, i) = At(b, i)
      <4>1. CASE i <= 1
        BY <1>2, <1>6, <4>1
      <4>2. CASE ~(i <= 1)
        <5>1. i - 1 \in Nat /\ i - 1 > 0 /\ (i - 1) + 1 = i
          BY <4>2
        <5>2. QED
          BY <1>1, <2>2, <5>1
      <4>3. QED
        BY <4>1, <4>2
    <3>2. FirstDifference(a, b) = 0 /\ FirstDifference(Rest(a), Rest(b)) = 0
      BY <1>1, <2>2, <3>1, DiffersNowhere
    <3>3. QED
      BY <2>1, <3>2
  <2>3. ASSUME NEW m \in Nat,
               FirstDifference(Rest(a), Rest(b)) = Sign(At(Rest(a), m), At(Rest(b), m)),
               At(Rest(a), m) # At(Rest(b), m),
               \A i \in Nat : i < m => At(Rest(a), i) = At(Rest(b), i)
        PROVE  FirstDifference(a, b) = FirstDifference(Rest(a), Rest(b))
    <3>1. m > 0
      BY <1>2, <2>3
    <3>2. At(Rest(a), m) = At(a, m + 1) /\ At(Rest(b), m) = At(b, m + 1)
      BY <1>1, <3>1
    <3>3. ASSUME NEW i \in Nat, i < m + 1 PROVE At(a, i) = At(b, i)
      <4>1. CASE i <= 1
        BY <1>2, <1>6, <4>1
      <4>2. CASE ~(i <= 1)
        <5>1. i - 1 \in Nat /\ i - 1 > 0 /\ (i - 1) + 1 = i /\ i - 1 < m
          BY <3>3, <4>2
        <5>2. QED
          BY <1>1, <2>3, <5>1
      <4>3. QED
        BY <4>1, <4>2
    <3>4. FirstDifference(a, b) = Sign(At(a, m + 1), At(b, m + 1))
      <4>1. m + 1 \in Nat
        OBVIOUS
      <4>2. QED
        BY <2>3, <3>2, <3>3, <4>1, DiffersAt
    <3>5. QED
      BY <2>3, <3>2, <3>4
  <2>4. QED
    <3>1. Rest(a) \in Seq(Int) /\ Rest(b) \in Seq(Int)
      BY <1>1 DEF Keys
    <3>2. \/ \A i \in Nat : At(Rest(a), i) = At(Rest(b), i)
          \/ \E m \in Nat :
               /\ FirstDifference(Rest(a), Rest(b)) = Sign(At(Rest(a), m), At(Rest(b), m))
               /\ At(Rest(a), m) # At(Rest(b), m)
               /\ \A i \in Nat : i < m => At(Rest(a), i) = At(Rest(b), i)
      BY <3>1, FirstDifferenceIs
    <3>3. QED
      BY <2>1, <2>2, <2>3, <3>2
<1>7. QED
  BY <1>5, <1>6

\* Two texts without the number 0, followed by something that begins with it or has
\* ended: the texts decide, then what follows.
LEMMA TextsDecide ==
  ASSUME NEW a \in Keys, NEW b \in Keys, NEW x \in Keys, NEW y \in Keys,
         \A i \in 1 .. Len(a) : a[i] # 0, \A i \in 1 .. Len(b) : b[i] # 0,
         At(x, 1) = 0, At(y, 1) = 0
  PROVE  FirstDifference(a \o x, b \o y) =
           Lex(FirstDifference(a, b), FirstDifference(x, y))
<1>1. /\ Len(a) \in Nat /\ Len(b) \in Nat /\ a \o x \in Keys /\ b \o y \in Keys
      /\ \A i \in Nat : i > 0 =>
           /\ At(a \o x, i) = IF i <= Len(a) THEN At(a, i) ELSE At(x, i - Len(a))
           /\ At(b \o y, i) = IF i <= Len(b) THEN At(b, i) ELSE At(y, i - Len(b))
  <2>1. 1 \in Nat /\ 1 > 0
    OBVIOUS
  <2>2. a \o x \in Keys /\ b \o y \in Keys
    BY <2>1, AtConcat
  <2>3. QED
    BY <2>2, AtOf, AtConcat, ZenonT(60)
<1>2. /\ \A i \in Nat : i > Len(a) => At(a, i) = 0
      /\ \A i \in Nat : i > Len(b) => At(b, i) = 0
      /\ \A i \in 1 .. Len(a) : At(a, i) # 0
      /\ \A i \in 1 .. Len(b) : At(b, i) # 0
      /\ At(a, 0) = 0 /\ At(b, 0) = 0 /\ At(a \o x, 0) = 0 /\ At(b \o y, 0) = 0
  BY <1>1, AtOf
<1>3. CASE \A i \in Nat : At(a, i) = At(b, i)
  <2>1. Len(a) = Len(b)
    <3>1. ~(Len(a) < Len(b))
      <4> SUFFICES ASSUME Len(a) < Len(b) PROVE FALSE
        OBVIOUS
      <4>1. Len(b) \in 1 .. Len(b) /\ Len(b) > Len(a)
        BY <1>1
      <4>2. QED
        BY <1>1, <1>2, <1>3, <4>1
    <3>2. ~(Len(b) < Len(a))
      <4> SUFFICES ASSUME Len(b) < Len(a) PROVE FALSE
        OBVIOUS
      <4>1. Len(a) \in 1 .. Len(a) /\ Len(a) > Len(b)
        BY <1>1
      <4>2. QED
        BY <1>1, <1>2, <1>3, <4>1
    <3>3. QED
      BY <1>1, <3>1, <3>2
  <2>2. FirstDifference(a, b) = 0
    BY <1>3, DiffersNowhere
  <2>3. CASE \A i \in Nat : At(x, i) = At(y, i)
    <3>1. ASSUME NEW i \in Nat PROVE At(a \o x, i) = At(b \o y, i)
      <4>1. CASE i = 0
        BY <1>2, <4>1
      <4>2. CASE i > 0 /\ i <= Len(a)
        BY <1>1, <1>3, <2>1, <4>2
      <4>3. CASE i > 0 /\ ~(i <= Len(a))
        <5>1. i - Len(a) \in Nat
          BY <1>1, <4>3
        <5>2. QED
          BY <1>1, <2>1, <2>3, <4>3, <5>1
      <4>4. QED
        BY <4>1, <4>2, <4>3
    <3>2. FirstDifference(a \o x, b \o y) = 0 /\ FirstDifference(x, y) = 0
      BY <1>1, <2>3, <3>1, DiffersNowhere
    <3>3. QED
      BY <2>2, <3>2 DEF Lex
  <2>4. ASSUME NEW m \in Nat, FirstDifference(x, y) = Sign(At(x, m), At(y, m)),
               At(x, m) # At(y, m), \A i \in Nat : i < m => At(x, i) = At(y, i)
        PROVE  FirstDifference(a \o x, b \o y) = FirstDifference(x, y)
    <3>1. m > 0
      BY <2>4, AtOf
    <3>2. /\ Len(a) + m \in Nat /\ Len(a) + m > 0 /\ ~(Len(a) + m <= Len(a))
          /\ (Len(a) + m) - Len(a) = m
      BY <1>1, <3>1
    <3>3. At(a \o x, Len(a) + m) = At(x, m) /\ At(b \o y, Len(a) + m) = At(y, m)
      BY <1>1, <2>1, <3>2
    <3>4. ASSUME NEW i \in Nat, i < Len(a) + m PROVE At(a \o x, i) = At(b \o y, i)
      <4>1. CASE i = 0
        BY <1>2, <4>1
      <4>2. CASE i > 0 /\ i <= Len(a)
        BY <1>1, <1>3, <2>1, <4>2
      <4>3. CASE i > 0 /\ ~(i <= Len(a))
        <5>1. i - Len(a) \in Nat /\ i - Len(a) < m
          BY <1>1, <3>4, <4>3
        <5>2. QED
          BY <1>1, <2>1, <2>4, <4>3, <5>1
      <4>4. QED
        BY <4>1, <4>2, <4>3
    <3>5. QED
      BY <1>1, <2>4, <3>2, <3>3, <3>4, DiffersAt
  <2>5. FirstDifference(a \o x, b \o y) = FirstDifference(x, y)
    <3>1. FirstDifference(x, y) = 0 => FirstDifference(a \o x, b \o y) = 0
      BY <2>2, <2>3, DiffersNowhere DEF Lex
    <3>2. QED
      BY <2>4, <3>1, FirstDifferenceIs DEF Keys
  <2>6. QED
    BY <2>2, <2>5 DEF Lex
<1>4. ASSUME NEW m \in Nat, FirstDifference(a, b) = Sign(At(a, m), At(b, m)),
             At(a, m) # At(b, m), \A i \in Nat : i < m => At(a, i) = At(b, i)
      PROVE  FirstDifference(a \o x, b \o y) = Lex(FirstDifference(a, b), FirstDifference(x, y))
  <2>1. m > 0 /\ m <= Len(a) + 1 /\ m <= Len(b) + 1
    <3>1. m > 0
      BY <1>2, <1>4
    <3>2. ASSUME m > Len(a) + 1 PROVE FALSE
      <4>1. Len(a) + 1 \in Nat /\ Len(a) + 1 < m /\ Len(a) + 1 > Len(a)
        BY <1>1, <3>2
      <4>2. At(b, Len(a) + 1) = 0
        BY <1>2, <1>4, <4>1
      <4>3. Len(a) + 1 > Len(b)
        BY <1>1, <1>2, <4>1, <4>2
      <4>4. m > Len(a) /\ m > Len(b)
        BY <1>1, <4>1, <4>3
      <4>5. QED
        BY <1>2, <1>4, <4>4
    <3>3. ASSUME m > Len(b) + 1 PROVE FALSE
      <4>1. Len(b) + 1 \in Nat /\ Len(b) + 1 < m /\ Len(b) + 1 > Len(b)
        BY <1>1, <3>3
      <4>2. At(a, Len(b) + 1) = 0
        BY <1>2, <1>4, <4>1
      <4>3. Len(b) + 1 > Len(a)
        BY <1>1, <1>2, <4>1, <4>2
      <4>4. m > Len(a) /\ m > Len(b)
        BY <1>1, <4>1, <4>3
      <4>5. QED
        BY <1>2, <1>4, <4>4
    <3>4. QED
      BY <1>1, <3>1, <3>2, <3>3
  <2>2. ASSUME NEW i \in Nat, i <= m
        PROVE  At(a \o x, i) = At(a, i) /\ At(b \o y, i) = At(b, i)
    <3>1. CASE i = 0
      BY <1>2, <3>1
    <3>2. CASE i > 0
      <4>1. At(a \o x, i) = At(a, i)
        <5>1. CASE i <= Len(a)
          BY <1>1, <3>2, <5>1
        <5>2. CASE ~(i <= Len(a))
          <6>1. i - Len(a) = 1 /\ i > Len(a)
            BY <1>1, <2>1, <2>2, <5>2
          <6>2. QED
            BY <1>1, <1>2, <3>2, <5>2, <6>1
        <5>3. QED
          BY <5>1, <5>2
      <4>2. At(b \o y, i) = At(b, i)
        <5>1. CASE i <= Len(b)
          BY <1>1, <3>2, <5>1
        <5>2. CASE ~(i <= Len(b))
          <6>1. i - Len(b) = 1 /\ i > Len(b)
            BY <1>1, <2>1, <2>2, <5>2
          <6>2. QED
            BY <1>1, <1>2, <3>2, <5>2, <6>1
        <5>3. QED
          BY <5>1, <5>2
      <4>3. QED
        BY <4>1, <4>2
    <3>3. QED
      BY <3>1, <3>2
  <2>3. /\ At(a \o x, m) # At(b \o y, m)
        /\ \A i \in Nat : i < m => At(a \o x, i) = At(b \o y, i)
    BY <1>4, <2>2
  <2>4. FirstDifference(a \o x, b \o y) = Sign(At(a \o x, m), At(b \o y, m))
    BY <1>1, <2>3, DiffersAt
  <2>5. FirstDifference(a \o x, b \o y) = FirstDifference(a, b)
    BY <1>4, <2>2, <2>4
  <2>6. FirstDifference(a, b) # 0
    BY <1>4, DiffersNowhere
  <2>7. QED
    BY <2>5, <2>6 DEF Lex
<1>5. QED
  BY <1>3, <1>4, FirstDifferenceIs, SMTT(20) DEF Keys

\* f compares two members of S by their heads, and goes on with what comes next.
IsPairLoop(f, S, end, head, next) ==
  \A a, b \in S : ~(a = end /\ b = end) =>
    f[<<a, b>>] = Lex(head[<<a, b>>], f[<<next[a], next[b]>>])

\* Going on makes a member smaller until the end is reached.
Ends(next, size, S, end) ==
  next[end] = end /\ \A s \in S : s # end => size[next[s]] < size[s]

\* Two comparisons that say the same.
Alike(one, other, S) == \A a, b \in S : one[<<a, b>>] = other[<<a, b>>]

\* Two loops that compare the same heads and go on with the same rests.
LEMMA LoopsAgree ==
  ASSUME NEW S, NEW end \in S, NEW head, NEW one, NEW other,
         NEW next \in [S -> S], NEW size \in [S -> Nat],
         Ends(next, size, S, end),
         one[<<end, end>>] = other[<<end, end>>],
         IsPairLoop(one, S, end, head, next), IsPairLoop(other, S, end, head, next)
  PROVE  Alike(one, other, S)
<1> DEFINE A == {n \in Nat : \A a, b \in S :
                   size[a] + size[b] = n => one[<<a, b>>] = other[<<a, b>>]}
<1>1. \A s \in S : size[next[s]] <= size[s] /\ size[next[s]] \in Nat /\ size[s] \in Nat
                   /\ next[s] \in S
  BY DEF Ends
<1>2. ASSUME NEW n \in Nat, \A m \in Nat : m < n => m \in A PROVE n \in A
  <2> SUFFICES ASSUME NEW a \in S, NEW b \in S, size[a] + size[b] = n
               PROVE  one[<<a, b>>] = other[<<a, b>>]
    OBVIOUS
  <2>1. CASE a = end /\ b = end
    BY <2>1
  <2>2. CASE ~(a = end /\ b = end)
    <3> DEFINE m == size[next[a]] + size[next[b]]
    <3>1. m \in Nat /\ m < n
      BY <1>1, <2>2 DEF Ends
    <3>2. one[<<next[a], next[b]>>] = other[<<next[a], next[b]>>]
      BY <1>1, <1>2, <3>1
    <3>3. QED
      BY <2>2, <3>2 DEF IsPairLoop
  <2>3. QED
    BY <2>1, <2>2
<1> HIDE DEF A
<1>3. Nat \subseteq A
  BY <1>2, StrongInduction
<1>4. \A a, b \in S : size[a] + size[b] \in Nat
  BY <1>1
<1>5. QED
  BY <1>3, <1>4 DEF A, Alike

----------------------------------------------------------------------------
(* Texts by their ranks *)

\* Strings without NUL, and what the reference sees of them.
Plain == Seq(Runes \ {0})
Ranks(s) == [i \in 1 .. Len(s) |-> Rank(s[i])]

\* The ranks of a string are a key that is 0 nowhere but behind its end.
LEMMA RanksOf ==
  ASSUME NEW s \in Plain
  PROVE  /\ s \in Strings /\ Ranks(s) \in Keys /\ Len(Ranks(s)) = Len(s)
         /\ \A i \in 1 .. Len(s) : Ranks(s)[i] # 0
<1>1. Len(s) \in Nat /\ \A i \in 1 .. Len(s) : s[i] \in Runes \ {0}
  BY DEF Plain
<1>2. \A r \in Runes \ {0} : Rank(r) \in Int /\ Rank(r) # 0
  BY DEF Rank, Runes, IsLetter
<1>3. \A i \in 1 .. Len(s) : Rank(s[i]) \in Int /\ Rank(s[i]) # 0
  BY <1>1, <1>2
<1>4. s \in Strings
  <2> DEFINE R == Runes \ {0}
  <2>1. s \in Seq(R) /\ R \subseteq Runes
    BY DEF Plain
  <2> HIDE DEF R
  <2>2. QED
    BY <2>1 DEF Strings
<1>5. Ranks(s) \in Keys /\ Len(Ranks(s)) = Len(s)
  BY <1>1, <1>3 DEF Ranks, Keys
<1>6. QED
  BY <1>3, <1>4, <1>5 DEF Ranks

\* The rest of the ranks are the ranks of the rest.
LEMMA RestOfText ==
  ASSUME NEW s \in Plain
  PROVE  /\ Rest(s) \in Plain
         /\ s # <<>> => Len(Rest(s)) < Len(s)
         /\ Rest(Ranks(s)) = Ranks(Rest(s))
         /\ At(Ranks(s), 1) = IF s = <<>> THEN 0 ELSE Rank(s[1])
         /\ nextRune(s) = IF s = <<>> THEN 0 ELSE s[1]
         /\ s # <<>> => s[1] \in Runes \ {0}
<1>1. CASE s = <<>>
  <2>1. Rest(s) = <<>> /\ Len(s) = 0
    BY <1>1 DEF Rest
  <2>2. Ranks(s) = <<>>
    BY <2>1 DEF Ranks
  <2>3. QED
    BY <1>1, <2>1, <2>2 DEF Rest, At, nextRune
<1>2. CASE s # <<>>
  <2> DEFINE R == Runes \ {0}
  <2>1. s \in Seq(R)
    BY DEF Plain
  <2> HIDE DEF R
  <2>2. /\ Tail(s) \in Seq(R) /\ Len(Tail(s)) = Len(s) - 1 /\ Len(s) \in Nat /\ Len(s) >= 1
        /\ \A i \in 1 .. Len(s) - 1 : Tail(s)[i] = s[i + 1]
        /\ Head(s) = s[1] /\ s[1] \in R
    BY <1>2, <2>1
  <2>3. Rest(s) = Tail(s) /\ nextRune(s) = s[1]
    BY <1>2, <2>2 DEF Rest, nextRune
  <2>4. /\ Ranks(s) \in Keys /\ Len(Ranks(s)) = Len(s) /\ Ranks(s) # <<>>
        /\ \A i \in 1 .. Len(s) : Ranks(s)[i] = Rank(s[i])
    BY <2>2, RanksOf DEF Ranks
  <2>5. At(Ranks(s), 1) = Rank(s[1])
    BY <2>2, <2>4, AtOf
  <2>6. Rest(Ranks(s)) = Tail(Ranks(s))
    BY <2>4 DEF Rest
  <2>7. Tail(Ranks(s)) = [i \in 1 .. Len(s) - 1 |-> Ranks(s)[i + 1]]
    <3>1. PICK k \in Seq(Int) : k = Ranks(s)
      BY <2>4 DEF Keys
    <3>2. Tail(k) = [i \in 1 .. Len(k) - 1 |-> k[i + 1]]
      <4> DEFINE e == [i \in 1 .. Len(k) - 1 |-> k[i + 1]]
      <4>1. /\ Tail(k) \in Seq(Int) /\ Len(Tail(k)) = Len(k) - 1
            /\ \A i \in 1 .. Len(k) - 1 : Tail(k)[i] = k[i + 1]
        BY <2>4, <3>1
      <4>2. /\ e \in Seq(Int) /\ Len(e) = Len(k) - 1
            /\ \A i \in 1 .. Len(k) - 1 : e[i] = k[i + 1]
        <5>1. Len(k) - 1 \in Nat
          BY <2>2, <2>4, <3>1
        <5>2. QED
          BY <5>1
      <4> HIDE DEF e
      <4>3. Tail(k) = e
        BY <4>1, <4>2, SeqEqual
      <4>4. QED
        BY <4>3 DEF e
    <3>3. QED
      BY <2>4, <3>1, <3>2
  <2>8. Ranks(Tail(s)) = [i \in 1 .. Len(s) - 1 |-> Rank(Tail(s)[i])]
    BY <2>2 DEF Ranks
  <2>9. \A i \in 1 .. Len(s) - 1 : Ranks(s)[i + 1] = Rank(Tail(s)[i])
    <3>1. \A i \in 1 .. Len(s) - 1 : i + 1 \in 1 .. Len(s)
      BY <2>2
    <3>2. QED
      BY <2>2, <2>4, <3>1
  <2>10. Rest(Ranks(s)) = Ranks(Rest(s))
    BY <2>3, <2>6, <2>7, <2>8, <2>9
  <2>11. QED
    BY <1>2, <2>2, <2>3, <2>5, <2>10 DEF Plain, R
<1>3. QED
  BY <1>1, <1>2

\* The code and the reference rank runes in the same order.
LEMMA SameRank ==
  ASSUME NEW x \in Runes, NEW y \in Runes
  PROVE  Sign(nonDigitOrder(x), nonDigitOrder(y)) =
           Sign(IF x = 0 THEN 0 ELSE Rank(x), IF y = 0 THEN 0 ELSE Rank(y))
<1> DEFINE old(r) == nonDigitOrder(r)
           new(r) == IF r = 0 THEN 0 ELSE Rank(r)
<1>1. ASSUME NEW r \in Runes
      PROVE  \/ old(r) = -1 /\ new(r) = -1
             \/ old(r) = 0 /\ new(r) = 0
             \/ old(r) = r /\ new(r) = r /\ r \in 65 .. 122
             \/ old(r) = r + 256 /\ new(r) = r + 1000 /\ r \in 1 .. 127
  BY DEF nonDigitOrder, Rank, IsLetter, Tilde, Runes
<1>2. x \in Int /\ y \in Int
  BY DEF Runes
<1>3. QED
  <2> HIDE DEF old, new
  <2>1. Sign(old(x), old(y)) = Sign(new(x), new(y))
    BY <1>1, <1>2 DEF Sign
  <2>2. QED
    BY <2>1 DEF old, new

\* compareNonDigit is the order of the ranks.
LEMMA TextOrder ==
  ASSUME NEW t \in Plain, NEW u \in Plain
  PROVE  compareNonDigit[<<t, u>>] = FirstDifference(Ranks(t), Ranks(u))
<1> DEFINE next  == [s \in Plain |-> Rest(s)]
           size  == [s \in Plain |-> Len(s)]
           head  == [p \in Plain \X Plain |->
                       Sign(At(Ranks(p[1]), 1), At(Ranks(p[2]), 1))]
           other == [p \in Plain \X Plain |-> FirstDifference(Ranks(p[1]), Ranks(p[2]))]
<1>1. next \in [Plain -> Plain] /\ size \in [Plain -> Nat] /\ <<>> \in Plain
      /\ next[<<>>] = <<>>
  <2>1. <<>> \in Plain /\ \A s \in Plain : Len(s) \in Nat
    BY DEF Plain
  <2>2. Rest(<<>>) = <<>>
    BY DEF Rest
  <2>3. QED
    BY <2>1, <2>2, RestOfText
<1>2. \A s \in Plain : s # <<>> => size[next[s]] < size[s]
  BY RestOfText
<1>3. ASSUME NEW a \in Plain, NEW b \in Plain
      PROVE  /\ other[<<a, b>>] = FirstDifference(Ranks(a), Ranks(b))
             /\ head[<<a, b>>] = Sign(At(Ranks(a), 1), At(Ranks(b), 1))
  OBVIOUS
<1>4. compareNonDigit[<< <<>>, <<>> >>] = other[<< <<>>, <<>> >>]
  <2>1. Ranks(<<>>) = <<>>
    BY DEF Ranks
  <2>2. FirstDifference(<<>>, <<>>) = 0
    <3>1. <<>> \in Keys
      BY DEF Keys
    <3>2. QED
      BY <3>1, DiffersNowhere
  <2>3. << <<>>, <<>> >> \in Pairs
    <3>1. <<>> \in Seq(Runes)
      <4> HIDE DEF Runes
      <4>1. QED
        OBVIOUS
    <3>2. QED
      BY <3>1 DEF Pairs
  <2>4. compareNonDigit[<< <<>>, <<>> >>] = 0
    BY <2>3, NonDigitDefined DEF IsNonDigit
  <2>5. QED
    BY <1>1, <1>3, <2>1, <2>2, <2>4
<1>5. ASSUME NEW a \in Plain, NEW b \in Plain, ~(a = <<>> /\ b = <<>>)
      PROVE  /\ compareNonDigit[<<a, b>>] =
                  Lex(head[<<a, b>>], compareNonDigit[<<next[a], next[b]>>])
             /\ other[<<a, b>>] = Lex(head[<<a, b>>], other[<<next[a], next[b]>>])
  <2>1. /\ next[a] = Rest(a) /\ next[b] = Rest(b)
        /\ Rest(a) \in Plain /\ Rest(b) \in Plain
        /\ Rest(Ranks(a)) = Ranks(Rest(a)) /\ Rest(Ranks(b)) = Ranks(Rest(b))
    BY RestOfText
  <2>2. Ranks(a) \in Keys /\ Ranks(b) \in Keys /\ <<a, b>> \in Pairs
    <3>1. a \in Strings /\ b \in Strings
      BY RanksOf
    <3>2. QED
      BY <3>1, RanksOf DEF Pairs, Strings
  <2>3. other[<<a, b>>] = Lex(head[<<a, b>>], other[<<next[a], next[b]>>])
    <3>1. FirstDifference(Ranks(a), Ranks(b)) =
            Lex(Sign(At(Ranks(a), 1), At(Ranks(b), 1)),
                FirstDifference(Rest(Ranks(a)), Rest(Ranks(b))))
      BY <2>2, DifferenceStep
    <3> HIDE DEF other, head, next
    <3>2. other[<<Rest(a), Rest(b)>>] = FirstDifference(Ranks(Rest(a)), Ranks(Rest(b)))
      BY <1>3, <2>1
    <3>3. QED
      BY <1>3, <2>1, <3>1, <3>2
  <2>4. Sign(nonDigitOrder(nextRune(a)), nonDigitOrder(nextRune(b))) = head[<<a, b>>]
    <3>0. ASSUME NEW c \in Plain
          PROVE  /\ At(Ranks(c), 1) = IF nextRune(c) = 0 THEN 0 ELSE Rank(nextRune(c))
                 /\ nextRune(c) \in Runes
      <4>1. 0 \in Runes
        BY DEF Runes
      <4> HIDE DEF Runes, Plain
      <4>2. CASE c = <<>>
        BY <4>1, <4>2, RestOfText
      <4>3. CASE c # <<>>
        BY <4>3, RestOfText
      <4>4. QED
        BY <4>2, <4>3
    <3>1. /\ At(Ranks(a), 1) = IF nextRune(a) = 0 THEN 0 ELSE Rank(nextRune(a))
          /\ nextRune(a) \in Runes
      BY <3>0
    <3>2. /\ At(Ranks(b), 1) = IF nextRune(b) = 0 THEN 0 ELSE Rank(nextRune(b))
          /\ nextRune(b) \in Runes
      BY <3>0
    <3>3. QED
      BY <1>3, <3>1, <3>2, SameRank
  <2>5. compareNonDigit[<<a, b>>] =
          IF <<a, b>> = << <<>>, <<>> >> THEN 0
          ELSE IF head[<<a, b>>] # 0 THEN head[<<a, b>>]
          ELSE compareNonDigit[<<Rest(a), Rest(b)>>]
    <3> HIDE DEF head, Pairs
    <3>1. compareNonDigit[<<a, b>>] =
            LET cmp == Sign(nonDigitOrder(nextRune(a)), nonDigitOrder(nextRune(b)))
            IN IF <<a, b>> = << <<>>, <<>> >> THEN 0
               ELSE IF cmp # 0 THEN cmp
               ELSE compareNonDigit[<<Rest(a), Rest(b)>>]
      BY <2>2, NonDigitDefined DEF IsNonDigit
    <3>2. QED
      BY <2>4, <3>1
  <2>6. <<a, b>> # << <<>>, <<>> >>
    BY <1>5
  <2>7. QED
    BY <2>1, <2>3, <2>5, <2>6 DEF Lex
<1> HIDE DEF next, size, head, other
<1>6. \A a, b \in Plain : compareNonDigit[<<a, b>>] = other[<<a, b>>]
  <2> DEFINE S == Plain
             end == <<>>
  <2>1. /\ end \in S /\ next \in [S -> S] /\ size \in [S -> Nat] /\ next[end] = end
        /\ compareNonDigit[<<end, end>>] = other[<<end, end>>]
    BY <1>1, <1>4
  <2>2. \A s \in S : s # end => size[next[s]] < size[s]
    BY <1>2
  <2>3. \A a, b \in S : ~(a = end /\ b = end) =>
          /\ compareNonDigit[<<a, b>>] =
               Lex(head[<<a, b>>], compareNonDigit[<<next[a], next[b]>>])
          /\ other[<<a, b>>] = Lex(head[<<a, b>>], other[<<next[a], next[b]>>])
    BY <1>5
  <2> HIDE DEF S, end
  <2> DEFINE one == compareNonDigit
  <2> HIDE DEF one
  <2>4. \A a, b \in S : one[<<a, b>>] = other[<<a, b>>]
    <3>1. end \in S /\ next \in [S -> S] /\ size \in [S -> Nat]
      BY <2>1
    <3>2. IsPairLoop(one, S, end, head, next) /\ IsPairLoop(other, S, end, head, next)
      BY <2>3 DEF one, IsPairLoop
    <3>3. Ends(next, size, S, end) /\ one[<<end, end>>] = other[<<end, end>>]
      BY <2>1, <2>2 DEF one, Ends
    <3>4. Alike(one, other, S)
      BY <3>1, <3>2, <3>3, LoopsAgree
    <3>5. QED
      BY <3>4 DEF Alike
  <2>5. QED
    BY <2>4 DEF S, one
<1>7. QED
  BY <1>3, <1>6

----------------------------------------------------------------------------
(* Numbers by their value *)

\* Strings of digits.
Numerals == Seq(Digits)

\* A numeral is a string, and a key, of digits.
LEMMA NumeralIs ==
  ASSUME NEW s \in Numerals
  PROVE  /\ s \in Strings /\ s \in Keys /\ Len(s) \in Nat
         /\ \A i \in 1 .. Len(s) : s[i] \in 48 .. 57 /\ At(s, i) = s[i]
<1>1. Digits \subseteq Runes /\ Digits \subseteq Int
  BY DEF Digits, Runes
<1>2. s \in Strings /\ s \in Keys
  <2> DEFINE D == Digits
             R == Runes
             I == Int
  <2>1. s \in Seq(D) /\ D \subseteq R /\ D \subseteq I
    BY <1>1 DEF Numerals
  <2> HIDE DEF D, R, I
  <2>2. s \in Seq(R) /\ s \in Seq(I)
    BY <2>1
  <2>3. QED
    BY <2>2 DEF Strings, Keys, R, I
<1>3. QED
  BY <1>2, AtOf DEF Numerals, Digits

\* One more digit.
LEMMA Horner ==
  ASSUME NEW x \in Int, NEW y \in Int, NEW i \in 48 .. 57, NEW j \in 48 .. 57
  PROVE  /\ x < y => 10 * x + i - 48 < 10 * y + j - 48
         /\ i < j => 10 * x + i - 48 < 10 * x + j - 48
         /\ x > 0 => 10 * x + i - 48 > 0
         /\ i = j \/ i < j \/ j < i
OBVIOUS

\* Of two numerals of one length the first different digit decides, as their values do.
LEMMA SameLength ==
  ASSUME NEW l \in Numerals, NEW r \in Numerals, Len(l) = Len(r)
  PROVE  FirstDifference(l, r) = Sign(Decimal(l), Decimal(r))
<1> DEFINE N == Len(l)
<1>1. /\ N \in Nat /\ l \in Strings /\ r \in Strings /\ l \in Keys /\ r \in Keys
      /\ \A i \in 1 .. N : l[i] \in 48 .. 57 /\ r[i] \in 48 .. 57
      /\ \A i \in 1 .. N : At(l, i) = l[i] /\ At(r, i) = r[i]
      /\ \A i \in Nat : i \notin 1 .. N => At(l, i) = At(r, i)
  <2>1. /\ N \in Nat /\ l \in Strings /\ r \in Strings /\ l \in Keys /\ r \in Keys
        /\ \A i \in 1 .. N : l[i] \in 48 .. 57 /\ r[i] \in 48 .. 57
        /\ \A i \in 1 .. N : At(l, i) = l[i] /\ At(r, i) = r[i]
    BY NumeralIs
  <2>2. \A i \in Nat : i \notin 1 .. N => At(l, i) = At(r, i)
    BY <2>1, AtOf, SMTT(20)
  <2>3. QED
    BY <2>1, <2>2
<1>2. PICK u \in [0 .. N -> Int] :
        /\ u[0] = 0 /\ Decimal(l) = u[N]
        /\ \A n \in 1 .. N : u[n] = 10 * u[n - 1] + l[n] - Zero
  BY <1>1, DecimalIs
<1>3. PICK v \in [0 .. N -> Int] :
        /\ v[0] = 0 /\ Decimal(r) = v[N]
        /\ \A n \in 1 .. N : v[n] = 10 * v[n - 1] + r[n] - Zero
  <2>1. Len(r) = N
    OBVIOUS
  <2>2. \E v \in [0 .. Len(r) -> Int] :
          /\ v[0] = 0 /\ Decimal(r) = v[Len(r)]
          /\ \A n \in 1 .. Len(r) : v[n] = 10 * v[n - 1] + r[n] - Zero
    BY <1>1, DecimalIs
  <2> HIDE DEF N
  <2>3. QED
    BY <2>1, <2>2
<1> HIDE DEF N
<1> DEFINE Equal(n) == u[n] = v[n] /\ \A i \in 1 .. n : l[i] = r[i]
           Differ(n, m) == /\ l[m] # r[m] /\ \A i \in 1 .. m - 1 : l[i] = r[i]
                           /\ IF l[m] < r[m] THEN u[n] < v[n] ELSE v[n] < u[n]
           A == {n \in 0 .. N : Equal(n) \/ \E m \in 1 .. n : Differ(n, m)}
<1>4. 0 \in A
  BY <1>1, <1>2, <1>3
<1>5. ASSUME NEW n \in 1 .. N, n - 1 \in A PROVE n \in A
  <2>1. /\ n - 1 \in 0 .. N /\ n \in 0 .. N
        /\ u[n - 1] \in Int /\ v[n - 1] \in Int
        /\ l[n] \in 48 .. 57 /\ r[n] \in 48 .. 57
        /\ u[n] = 10 * u[n - 1] + l[n] - 48 /\ v[n] = 10 * v[n - 1] + r[n] - 48
    BY <1>1, <1>2, <1>3 DEF Zero
  <2>a. /\ u[n - 1] < v[n - 1] => u[n] < v[n]
        /\ v[n - 1] < u[n - 1] => v[n] < u[n]
        /\ u[n - 1] = v[n - 1] /\ l[n] < r[n] => u[n] < v[n]
        /\ u[n - 1] = v[n - 1] /\ r[n] < l[n] => v[n] < u[n]
        /\ l[n] = r[n] \/ l[n] < r[n] \/ r[n] < l[n]
    <3> DEFINE x == u[n - 1]
               y == v[n - 1]
               i == l[n]
               j == r[n]
               p == u[n]
               q == v[n]
    <3>1. /\ x \in Int /\ y \in Int /\ i \in 48 .. 57 /\ j \in 48 .. 57
          /\ p = 10 * x + i - 48 /\ q = 10 * y + j - 48
      BY <2>1
    <3> HIDE DEF x, y, i, j, p, q
    <3>2. /\ x < y => p < q
          /\ y < x => q < p
          /\ x = y /\ i < j => p < q
          /\ x = y /\ j < i => q < p
          /\ i = j \/ i < j \/ j < i
      BY <3>1, Horner
    <3>3. QED
      BY <3>2 DEF x, y, i, j, p, q
  <2>2. CASE Equal(n - 1) /\ l[n] = r[n]
    <3>1. \A i \in 1 .. n : i = n \/ i \in 1 .. n - 1
      BY <1>1
    <3>2. u[n] = v[n]
      BY <2>1, <2>2
    <3>3. \A i \in 1 .. n : l[i] = r[i]
      BY <2>2, <3>1
    <3>4. QED
      BY <2>1, <3>2, <3>3
  <2>3. CASE Equal(n - 1) /\ l[n] # r[n]
    <3>1. IF l[n] < r[n] THEN u[n] < v[n] ELSE v[n] < u[n]
      <4>1. u[n - 1] = v[n - 1] /\ (l[n] < r[n] \/ r[n] < l[n])
        BY <2>a, <2>3
      <4>2. QED
        BY <2>a, <4>1
    <3>2. n \in 1 .. n
      BY <1>1
    <3>3. Differ(n, n)
      BY <2>3, <3>1
    <3>4. QED
      BY <2>1, <3>2, <3>3
  <2>4. ASSUME NEW m \in 1 .. n - 1, Differ(n - 1, m) PROVE n \in A
    <3>1. IF l[m] < r[m] THEN u[n] < v[n] ELSE v[n] < u[n]
      <4>1. IF l[m] < r[m] THEN u[n - 1] < v[n - 1] ELSE v[n - 1] < u[n - 1]
        BY <2>4
      <4>2. QED
        BY <2>a, <4>1
    <3>2. m \in 1 .. n
      BY <1>1
    <3>3. Differ(n, m)
      BY <2>4, <3>1
    <3>4. QED
      BY <2>1, <3>2, <3>3
  <2>5. QED
    BY <1>5, <2>2, <2>3, <2>4
<1>6. N \in A
  <2> HIDE DEF A
  <2>1. \A n \in 0 .. N : n \in A
    BY <1>1, <1>4, <1>5, LoopInduction
  <2>2. QED
    BY <1>1, <2>1
<1>7. u[N] \in Int /\ v[N] \in Int
  BY <1>1, <1>2, <1>3
<1>8. CASE Equal(N)
  <2>1. \A i \in Nat : At(l, i) = At(r, i)
    BY <1>1, <1>8
  <2>2. FirstDifference(l, r) = 0
    BY <1>1, <2>1, DiffersNowhere
  <2>3. QED
    BY <1>2, <1>3, <1>7, <1>8, <2>2 DEF Sign
<1>9. ASSUME NEW m \in 1 .. N, Differ(N, m) PROVE FirstDifference(l, r) = Sign(u[N], v[N])
  <2>2. m \in Nat /\ At(l, m) = l[m] /\ At(r, m) = r[m] /\ l[m] \in Int /\ r[m] \in Int
    <3>1. l[m] \in 48 .. 57 /\ r[m] \in 48 .. 57 /\ At(l, m) = l[m] /\ At(r, m) = r[m]
      BY <1>1
    <3>2. N \in Nat
      BY <1>1
    <3>3. m \in Nat
      BY <3>2
    <3>4. l[m] \in Int /\ r[m] \in Int
      <4>1. \A x \in 48 .. 57 : x \in Int
        OBVIOUS
      <4>2. QED
        BY <3>1, <4>1
    <3>5. QED
      BY <3>1, <3>3, <3>4
  <2>1. ASSUME NEW i \in Nat, i < m PROVE At(l, i) = At(r, i)
    <3>0. N \in Nat /\ m \in Nat /\ m <= N
      BY <1>1
    <3>1. CASE i = 0
      <4>1. i \notin 1 .. N
        BY <3>1
      <4>2. QED
        BY <1>1, <4>1
    <3>2. CASE i # 0
      <4>1. i \in 1 .. m - 1 /\ i \in 1 .. N
        BY <2>1, <3>0, <3>2
      <4>2. l[i] = r[i]
        BY <1>9, <4>1
      <4>3. At(l, i) = l[i] /\ At(r, i) = r[i]
        BY <1>1, <4>1
      <4>4. QED
        BY <4>2, <4>3
    <3>3. QED
      BY <3>1, <3>2
  <2>3. FirstDifference(l, r) = Sign(l[m], r[m])
    BY <1>1, <1>9, <2>1, <2>2, DiffersAt
  <2>4. QED
    BY <1>7, <1>9, <2>2, <2>3 DEF Sign
<1>10. QED
  BY <1>2, <1>3, <1>6, <1>8, <1>9

\* The shorter numeral has the smaller value, where no zero leads the longer.
LEMMA Shorter ==
  ASSUME NEW l \in Numerals, NEW r \in Numerals, Len(l) < Len(r), r[1] # Zero
  PROVE  Decimal(l) < Decimal(r)
<1> DEFINE M == Len(l)
           N == Len(r)
           d == N - M
<1>1. /\ M \in Nat /\ N \in Nat /\ d \in Nat /\ d >= 1 /\ d + M = N
      /\ l \in Strings /\ r \in Strings
      /\ \A i \in 1 .. M : l[i] \in 48 .. 57
      /\ \A i \in 1 .. N : r[i] \in 48 .. 57
  BY NumeralIs
<1>2. PICK u \in [0 .. M -> Int] :
        /\ u[0] = 0 /\ Decimal(l) = u[M]
        /\ \A n \in 1 .. M : u[n] = 10 * u[n - 1] + l[n] - Zero
  BY <1>1, DecimalIs
<1>3. PICK v \in [0 .. N -> Int] :
        /\ v[0] = 0 /\ Decimal(r) = v[N]
        /\ \A n \in 1 .. N : v[n] = 10 * v[n - 1] + r[n] - Zero
  BY <1>1, DecimalIs
<1> HIDE DEF M, N, d
<1>a. ASSUME NEW k \in 1 .. N
      PROVE  /\ k - 1 \in 0 .. N /\ k \in 0 .. N /\ v[k - 1] \in Int /\ v[k] \in Int
             /\ r[k] \in 48 .. 57 /\ v[k] = 10 * v[k - 1] + r[k] - 48
  BY <1>1, <1>3 DEF Zero
<1> DEFINE A == {n \in 0 .. N : n > 0 => v[n] > 0}
<1>4. \A n \in 0 .. N : n \in A
  <2>1. 0 \in A
    BY <1>1
  <2>2. ASSUME NEW n \in 1 .. N, n - 1 \in A PROVE n \in A
    <3>1. /\ n \in 0 .. N /\ n - 1 \in 0 .. N /\ v[n - 1] \in Int /\ r[n] \in 48 .. 57
          /\ v[n] = 10 * v[n - 1] + r[n] - 48
      BY <1>a
    <3>2. CASE n = 1
      <4>1. r[1] \in 49 .. 57 /\ v[1] = 10 * v[0] + r[1] - 48
        BY <3>1, <3>2 DEF Zero
      <4>2. v[1] > 0
        BY <1>3, <4>1, SMTT(20)
      <4>3. QED
        BY <3>1, <3>2, <4>2
    <3>3. CASE n # 1
      <4>1. v[n - 1] > 0
        BY <2>2, <3>3
      <4>2. v[n] > 0
        <5> DEFINE x == v[n - 1]
                   i == r[n]
        <5>1. x \in Int /\ x > 0 /\ i \in 48 .. 57 /\ v[n] = 10 * x + i - 48
          BY <3>1, <4>1
        <5> HIDE DEF x, i
        <5>2. QED
          BY <5>1, Horner
      <4>3. QED
        BY <3>1, <4>2
    <3>4. QED
      BY <3>2, <3>3
  <2> HIDE DEF A
  <2>3. QED
    BY <1>1, <2>1, <2>2, LoopInduction
<1> DEFINE B == {n \in 0 .. M : u[n] < v[d + n]}
<1>5. 0 \in B
  <2>1. d \in 0 .. N /\ d > 0 /\ d + 0 = d /\ 0 \in 0 .. M
    BY <1>1
  <2>2. v[d] > 0 /\ v[d] \in Int
    BY <1>3, <1>4, <2>1
  <2>3. u[0] < v[d + 0]
    BY <1>2, <2>1, <2>2
  <2>4. QED
    BY <2>1, <2>3
<1>6. ASSUME NEW n \in 1 .. M, n - 1 \in B PROVE n \in B
  <2>1. /\ n \in 0 .. M /\ n - 1 \in 0 .. M /\ d + n \in 1 .. N
        /\ d + (n - 1) = (d + n) - 1
    BY <1>1
  <2>2. u[n - 1] \in Int /\ l[n] \in 48 .. 57 /\ u[n] = 10 * u[n - 1] + l[n] - 48
    BY <1>1, <1>2, <2>1 DEF Zero
  <2>3. u[n - 1] < v[(d + n) - 1]
    BY <1>6, <2>1
  <2>4. u[n] < v[d + n]
    <3> DEFINE k == d + n
               x == u[n - 1]
               y == v[k - 1]
               i == l[n]
               j == r[k]
    <3>1. k \in 1 .. N /\ x < y
      BY <2>1, <2>3
    <3>2. /\ x \in Int /\ y \in Int /\ i \in 48 .. 57 /\ j \in 48 .. 57
          /\ u[n] = 10 * x + i - 48 /\ v[k] = 10 * y + j - 48
      <4> HIDE DEF k
      <4>1. QED
        BY <1>a, <2>2, <3>1
    <3> HIDE DEF k, x, y, i, j
    <3>3. u[n] < v[k]
      BY <3>1, <3>2, Horner
    <3>4. QED
      BY <3>3 DEF k
  <2>5. QED
    BY <2>1, <2>4
<1>7. M \in B
  <2> HIDE DEF B
  <2>1. \A n \in 0 .. M : n \in B
    BY <1>1, <1>5, <1>6, LoopInduction
  <2>2. QED
    BY <1>1, <2>1
<1>8. QED
  BY <1>1, <1>2, <1>3, <1>7

\* takeWhile cuts a string in two.
LEMMA TakeWhileIs ==
  ASSUME NEW s \in Strings, NEW predicate
  PROVE  \E k \in 0 .. Len(s) :
           /\ takeWhile(s, predicate)[1] = SubSeq(s, 1, k)
           /\ takeWhile(s, predicate)[2] = SubSeq(s, k + 1, Len(s))
           /\ \A i \in 1 .. k : s[i] \in predicate
           /\ k < Len(s) => s[k + 1] \notin predicate
<1> DEFINE I == {i \in 1 .. Len(s) : s[i] \notin predicate}
           stop == SelectInSeq(s, LAMBDA r : r \notin predicate)
<1>1. Len(s) \in Nat /\ \A i \in 1 .. Len(s) : s[i] \in Runes
  BY DEF Strings
<1>2. \/ stop = 0 /\ \A i \in 1 .. Len(s) : s[i] \in predicate
      \/ /\ stop \in 1 .. Len(s) /\ s[stop] \notin predicate
         /\ \A i \in 1 .. Len(s) : i < stop => s[i] \in predicate
  <2>1. CASE I = {}
    BY <2>1 DEF SelectInSeq
  <2>2. CASE I # {}
    <3>1. \E n \in I : \A m \in I : n <= m
      <4>1. I \in SUBSET Nat
        BY <1>1
      <4> HIDE DEF I
      <4>2. QED
        BY <2>2, <4>1, LeastNatural
    <3>2. stop = Min(I)
      BY <2>2 DEF SelectInSeq
    <3>3. Min(I) \in I /\ \A m \in I : Min(I) <= m
      BY <3>1 DEF Min
    <3>4. stop \in I /\ \A m \in I : stop <= m
      BY <3>2, <3>3
    <3> HIDE DEF stop
    <3>5. stop \in 1 .. Len(s) /\ s[stop] \notin predicate
      BY <3>4
    <3>6. ASSUME NEW i \in 1 .. Len(s), i < stop PROVE s[i] \in predicate
      BY <1>1, <3>4, <3>5, <3>6
    <3>7. QED
      BY <3>5, <3>6
  <2>3. QED
    BY <2>1, <2>2
<1>3. takeWhile(s, predicate) =
        IF stop = 0 THEN <<s, <<>>>>
        ELSE <<SubSeq(s, 1, stop - 1), SubSeq(s, stop, Len(s))>>
  BY DEF takeWhile
<1> HIDE DEF stop, I
<1>4. CASE stop = 0
  <2>1. takeWhile(s, predicate) = <<s, <<>>>>
    BY <1>3, <1>4
  <2>2. SubSeq(s, 1, Len(s)) = s
    BY SubSeqFull DEF Strings
  <2>3. SubSeq(s, Len(s) + 1, Len(s)) = <<>>
    BY <1>1, SubSeqEmpty
  <2>4. Len(s) \in 0 .. Len(s)
    BY <1>1
  <2> DEFINE k == Len(s)
  <2>5. /\ takeWhile(s, predicate)[1] = SubSeq(s, 1, k)
        /\ takeWhile(s, predicate)[2] = SubSeq(s, k + 1, Len(s))
    BY <2>1, <2>2, <2>3
  <2>6. k \in 0 .. Len(s) /\ ~(k < Len(s))
    BY <1>1
  <2>7. \A i \in 1 .. k : s[i] \in predicate
    BY <1>1, <1>2, <1>4
  <2> HIDE DEF k
  <2>8. QED
    BY <2>5, <2>6, <2>7
<1>5. CASE stop # 0
  <2> DEFINE k == stop - 1
  <2>1. takeWhile(s, predicate) = <<SubSeq(s, 1, stop - 1), SubSeq(s, stop, Len(s))>>
    BY <1>3, <1>5
  <2>2. k \in 0 .. Len(s) /\ k + 1 = stop /\ k < Len(s)
    BY <1>1, <1>2, <1>5
  <2>3. \A i \in 1 .. k : s[i] \in predicate
    BY <1>1, <1>2, <1>5, <2>2
  <2>4. s[k + 1] \notin predicate
    BY <1>2, <1>5, <2>2
  <2>5. /\ takeWhile(s, predicate)[1] = SubSeq(s, 1, k)
        /\ takeWhile(s, predicate)[2] = SubSeq(s, k + 1, Len(s))
    <3> DEFINE text == SubSeq(s, 1, k)
               rest == SubSeq(s, k + 1, Len(s))
    <3>1. takeWhile(s, predicate) = <<text, rest>>
      BY <2>1, <2>2
    <3> HIDE DEF text, rest
    <3>2. takeWhile(s, predicate)[1] = text /\ takeWhile(s, predicate)[2] = rest
      BY <3>1
    <3>3. QED
      BY <3>2 DEF text, rest
  <2> HIDE DEF k
  <2>7. QED
    BY <2>2, <2>3, <2>4, <2>5
<1>6. QED
  BY <1>4, <1>5

\* A piece of a string.
LEMMA PieceOf ==
  ASSUME NEW T, NEW s \in Seq(T), NEW m \in Nat, NEW n \in Nat, m >= 1, n <= Len(s),
         m <= n + 1
  PROVE  /\ SubSeq(s, m, n) \in Seq(T) /\ Len(SubSeq(s, m, n)) = n - m + 1
         /\ \A i \in 1 .. n - m + 1 : SubSeq(s, m, n)[i] = s[m + i - 1]
<1>1. \A i \in m .. n : s[i] \in T
  OBVIOUS
<1>2. m \in Int /\ n \in Int
  OBVIOUS
<1>3. Len(SubSeq(s, m, n)) = IF m <= n THEN n - m + 1 ELSE 0
  BY <1>1, <1>2, SubSeqProperties
<1>4. QED
  BY <1>1, <1>2, <1>3, SubSeqProperties

----------------------------------------------------------------------------
(* Numbers with leading zeros *)

\* Dropping the zeros in front leaves the value.
LEMMA ZerosDropped ==
  ASSUME NEW s \in Numerals
  PROVE  LET t == takeWhile(s, {Zero})[2]
         IN  /\ t \in Numerals
             /\ Decimal(t) = Decimal(s)
             /\ t # <<>> => t[1] # Zero
<1> DEFINE t == takeWhile(s, {Zero})[2]
           N == Len(s)
<1>1. s \in Strings /\ N \in Nat /\ s \in Seq(Digits)
  BY NumeralIs DEF Numerals
<1>2. PICK k \in 0 .. N :
        /\ t = SubSeq(s, k + 1, N)
        /\ \A i \in 1 .. k : s[i] = Zero
        /\ k < N => s[k + 1] # Zero
  <2> DEFINE P == {Zero}
  <2> HIDE DEF P
  <2>1. PICK k \in 0 .. Len(s) :
          /\ takeWhile(s, P)[2] = SubSeq(s, k + 1, Len(s))
          /\ \A i \in 1 .. k : s[i] \in P
          /\ k < Len(s) => s[k + 1] \notin P
    BY <1>1, TakeWhileIs
  <2>2. t = SubSeq(s, k + 1, N) /\ \A i \in 1 .. k : s[i] = Zero
    BY <2>1 DEF P
  <2>3. k < N => s[k + 1] # Zero
    BY <2>1 DEF P
  <2>4. QED
    BY <2>2, <2>3
<1> HIDE DEF t
<1>3. /\ k \in Nat /\ k + 1 \in Nat /\ k + 1 >= 1 /\ k + 1 <= N + 1
      /\ N - k \in Nat /\ N - (k + 1) + 1 = N - k
  BY <1>1
<1>4. /\ t \in Seq(Digits) /\ Len(t) = N - k
      /\ \A i \in 1 .. N - k : t[i] = s[(k + 1) + i - 1]
  <2> DEFINE m == k + 1
  <2>1. m \in Nat /\ m >= 1 /\ N \in Nat /\ N <= Len(s) /\ m <= N + 1 /\ s \in Seq(Digits)
    BY <1>1, <1>3
  <2>2. t = SubSeq(s, m, N) /\ N - m + 1 = N - k
    BY <1>2, <1>3
  <2> HIDE DEF m, N
  <2>3. /\ SubSeq(s, m, N) \in Seq(Digits) /\ Len(SubSeq(s, m, N)) = N - m + 1
        /\ \A i \in 1 .. N - m + 1 : SubSeq(s, m, N)[i] = s[m + i - 1]
    BY <2>1, PieceOf
  <2>4. QED
    BY <2>2, <2>3 DEF m
<1>5. \A i \in 1 .. N - k : t[i] = s[k + i]
  <2>1. \A i \in 1 .. N - k : (k + 1) + i - 1 = k + i
    BY <1>3
  <2>2. QED
    BY <1>4, <2>1
<1>6. t \in Numerals /\ t \in Strings
  BY <1>4, NumeralIs DEF Numerals
<1>7. t # <<>> => t[1] # Zero
  <2> SUFFICES ASSUME t # <<>> PROVE t[1] # Zero
    OBVIOUS
  <2>1. Len(t) # 0
    BY <1>4
  <2>2. 1 \in 1 .. N - k /\ k < N
    <3>1. N - k # 0
      BY <1>4, <2>1
    <3> HIDE DEF N
    <3>2. QED
      BY <1>1, <1>3, <3>1
  <2>3. QED
    BY <1>2, <1>5, <2>2
<1>8. PICK u \in [0 .. N -> Int] :
        /\ u[0] = 0 /\ Decimal(s) = u[N]
        /\ \A n \in 1 .. N : u[n] = 10 * u[n - 1] + s[n] - Zero
  BY <1>1, DecimalIs
<1>9. PICK v \in [0 .. N - k -> Int] :
        /\ v[0] = 0 /\ Decimal(t) = v[N - k]
        /\ \A n \in 1 .. N - k : v[n] = 10 * v[n - 1] + t[n] - Zero
  BY <1>4, <1>6, DecimalIs, ZenonT(60)
<1> HIDE DEF N
<1> DEFINE A == {n \in 0 .. k : u[n] = 0}
           B == {n \in 0 .. N - k : u[k + n] = v[n]}
<1>10. u[k] = 0
  <2>1. 0 \in A
    BY <1>3, <1>8
  <2>2. ASSUME NEW n \in 1 .. k, n - 1 \in A PROVE n \in A
    <3>1. n \in 0 .. k /\ n \in 1 .. N /\ s[n] = Zero /\ u[n - 1] = 0
      BY <1>1, <1>2, <1>3, <2>2
    <3>2. u[n] = 10 * u[n - 1] + s[n] - Zero
      BY <1>8, <3>1
    <3>3. u[n] = 10 * 0 + 48 - 48
      BY <3>1, <3>2 DEF Zero
    <3>4. u[n] = 0
      BY <3>3
    <3>5. QED
      BY <3>1, <3>4
  <2> HIDE DEF A
  <2>3. k \in A
    <3>1. \A n \in 0 .. k : n \in A
      BY <1>3, <2>1, <2>2, LoopInduction
    <3>2. QED
      BY <1>3, <3>1
  <2>4. QED
    BY <2>3 DEF A
<1>11. 0 \in B
  <2>1. k + 0 = k /\ 0 \in 0 .. N - k
    BY <1>3
  <2>2. QED
    BY <1>9, <1>10, <2>1
<1>12. ASSUME NEW n \in 1 .. N - k, n - 1 \in B PROVE n \in B
  <2>1. n \in 0 .. N - k /\ k + n \in 1 .. N /\ k + (n - 1) = (k + n) - 1
    BY <1>1, <1>3
  <2>2. u[(k + n) - 1] = v[n - 1]
    BY <1>12, <2>1
  <2>3. t[n] = s[k + n]
    BY <1>5
  <2>4. v[n] = 10 * v[n - 1] + t[n] - Zero
    BY <1>9
  <2>5. u[k + n] = 10 * u[(k + n) - 1] + s[k + n] - Zero
    BY <1>8, <2>1
  <2>6. u[k + n] = v[n]
    BY <2>2, <2>3, <2>4, <2>5
  <2>7. QED
    BY <2>1, <2>6
<1>13. u[k + (N - k)] = v[N - k]
  <2> HIDE DEF B
  <2>1. \A n \in 0 .. N - k : n \in B
    BY <1>3, <1>11, <1>12, LoopInduction
  <2>2. N - k \in 0 .. N - k
    BY <1>3
  <2>3. QED
    BY <2>1, <2>2 DEF B
<1>14. k + (N - k) = N
  BY <1>1, <1>3
<1>15. Decimal(t) = Decimal(s)
  BY <1>8, <1>9, <1>13, <1>14
<1>16. QED
  BY <1>6, <1>7, <1>15 DEF t

\* Numbers are compared by their values.
LEMMA NumberOrder ==
  ASSUME NEW a \in Numerals, NEW b \in Numerals
  PROVE  compareDigit(a, b) = Sign(Decimal(a), Decimal(b))
<1> DEFINE l == takeWhile(a, {Zero})[2]
           r == takeWhile(b, {Zero})[2]
<1>1. /\ l \in Numerals /\ Decimal(l) = Decimal(a) /\ (l # <<>> => l[1] # Zero)
      /\ r \in Numerals /\ Decimal(r) = Decimal(b) /\ (r # <<>> => r[1] # Zero)
  BY ZerosDropped
<1>2. compareDigit(a, b) =
        IF Len(l) # Len(r) THEN Sign(Len(l), Len(r)) ELSE FirstDifference(l, r)
  BY DEF compareDigit
<1> HIDE DEF l, r
<1>3. Len(l) \in Nat /\ Len(r) \in Nat /\ l \in Strings /\ r \in Strings
  BY <1>1, NumeralIs
<1>4. Decimal(l) \in Int /\ Decimal(r) \in Int
  BY <1>3, DecimalIsInt
<1>5. CASE Len(l) = Len(r)
  BY <1>1, <1>2, <1>5, SameLength
<1>6. CASE Len(l) < Len(r)
  <2>1. r # <<>>
    BY <1>3, <1>6
  <2>2. Decimal(l) < Decimal(r)
    BY <1>1, <1>6, <2>1, Shorter
  <2>3. QED
    BY <1>1, <1>2, <1>3, <1>4, <1>6, <2>2 DEF Sign
<1>7. CASE Len(r) < Len(l)
  <2>1. l # <<>>
    BY <1>3, <1>7
  <2>2. Decimal(r) < Decimal(l)
    BY <1>1, <1>7, <2>1, Shorter
  <2>3. QED
    BY <1>1, <1>2, <1>3, <1>4, <1>7, <2>2 DEF Sign
<1>8. QED
  BY <1>3, <1>5, <1>6, <1>7

----------------------------------------------------------------------------
(* The key of a string, number by number *)

\* The digits from i to j are followed by none.
RunEnd(s, i, j) ==
  /\ \A k \in i .. j : IsDigit(s[k])
  /\ j = Len(s) \/ ~IsDigit(s[j + 1])

\* What a character adds to the key.
Piece(s, i) ==
  CASE ~IsDigit(s[i]) -> <<Rank(s[i])>>
    [] IsDigit(s[i]) /\ (i = 1 \/ ~IsDigit(s[i - 1])) ->
         <<0, Decimal(SubSeq(s, i, CHOOSE j \in i .. Len(s) : RunEnd(s, i, j)))>>
    [] OTHER -> <<>>

\* The key of a string joins what its characters add.
LEMMA PolicyKeyIs ==
  ASSUME NEW s
  PROVE  PolicyKey(s) = FlattenSeq([i \in DOMAIN s |-> Piece(s, i)])
BY DEF PolicyKey, Piece, RunEnd

\* A character that is no digit adds its rank.
LEMMA TextPiece ==
  ASSUME NEW s, NEW i, ~IsDigit(s[i])
  PROVE  Piece(s, i) = <<Rank(s[i])>>
BY DEF Piece

\* A digit that follows a digit adds nothing.
LEMMA InnerPiece ==
  ASSUME NEW s, NEW i, IsDigit(s[i]), i # 1, IsDigit(s[i - 1])
  PROVE  Piece(s, i) = <<>>
BY DEF Piece

\* The first digit of a number adds a 0 and the value of the number.
LEMMA NumberPiece ==
  ASSUME NEW s, Len(s) \in Nat, NEW i \in 1 .. Len(s), NEW j \in i .. Len(s),
         RunEnd(s, i, j), i = 1 \/ ~IsDigit(s[i - 1])
  PROVE  Piece(s, i) = <<0, Decimal(SubSeq(s, i, j))>>
<1> DEFINE c == CHOOSE x \in i .. Len(s) : RunEnd(s, i, x)
<1>1. c \in i .. Len(s) /\ RunEnd(s, i, c)
  OBVIOUS
<1>2. IsDigit(s[i])
  BY DEF RunEnd
<1>3. Piece(s, i) = <<0, Decimal(SubSeq(s, i, c))>>
  BY <1>2 DEF Piece
<1> HIDE DEF c
<1>4. ~(c < j)
  <2> SUFFICES ASSUME c < j PROVE FALSE
    OBVIOUS
  <2>1. c + 1 \in i .. j /\ c # Len(s)
    BY <1>1
  <2>2. QED
    BY <1>1, <2>1 DEF RunEnd
<1>5. ~(j < c)
  <2> SUFFICES ASSUME j < c PROVE FALSE
    OBVIOUS
  <2>1. j + 1 \in i .. c /\ j # Len(s)
    BY <1>1
  <2>2. QED
    BY <1>1, <2>1 DEF RunEnd
<1>6. c = j
  BY <1>1, <1>4, <1>5
<1>7. QED
  BY <1>3, <1>6

\* A number ends somewhere.
LEMMA RunExists ==
  ASSUME NEW s, Len(s) \in Nat, NEW i \in 1 .. Len(s), IsDigit(s[i])
  PROVE  \E j \in i .. Len(s) : RunEnd(s, i, j)
<1> DEFINE S == {j \in i .. Len(s) : j = Len(s) \/ ~IsDigit(s[j + 1])}
<1>1. S \in SUBSET Nat /\ Len(s) \in S
  OBVIOUS
<1>2. PICK j \in S : \A m \in S : j <= m
  <2> HIDE DEF S
  <2>1. QED
    BY <1>1, LeastNatural
<1>3. j \in i .. Len(s) /\ (j = Len(s) \/ ~IsDigit(s[j + 1]))
  BY <1>2
<1>4. ASSUME NEW k \in i .. j PROVE IsDigit(s[k])
  <2>1. CASE k = i
    BY <2>1
  <2>2. CASE k # i
    <3>1. k - 1 \in i .. Len(s) /\ k - 1 < j /\ (k - 1) + 1 = k
      BY <1>3, <2>2
    <3>2. k - 1 \notin S
      <4>1. k - 1 \in S => j <= k - 1
        BY <1>2
      <4> HIDE DEF S
      <4>2. ~(j <= k - 1)
        BY <1>3, <3>1
      <4>3. QED
        BY <4>1, <4>2
    <3>3. QED
      BY <3>1, <3>2
  <2>3. QED
    BY <2>1, <2>2
<1>5. QED
  BY <1>3, <1>4 DEF RunEnd

\* The key of what follows a number is that part of the key of the string.
LEMMA PieceShift ==
  ASSUME NEW s \in Strings, NEW d \in 0 .. Len(s), NEW t, t = SubSeq(s, d + 1, Len(s)),
         d < Len(s) => ~IsDigit(s[d + 1])
  PROVE  /\ t \in Strings /\ Len(t) = Len(s) - d
         /\ \A j \in 1 .. Len(t) : Piece(t, j) = Piece(s, d + j)
<1> DEFINE N == Len(s)
<1>1. s \in Seq(Runes) /\ N \in Nat
  BY DEF Strings
<1>2. d + 1 \in Nat /\ d + 1 >= 1 /\ d + 1 <= N + 1 /\ N - d \in Nat /\ N - (d + 1) + 1 = N - d
  BY <1>1
<1>3. /\ t \in Strings /\ Len(t) = N - d
      /\ \A j \in 1 .. N - d : t[j] = s[(d + 1) + j - 1]
  <2>1. /\ SubSeq(s, d + 1, N) \in Seq(Runes)
        /\ Len(SubSeq(s, d + 1, N)) = N - (d + 1) + 1
        /\ \A j \in 1 .. N - (d + 1) + 1 : SubSeq(s, d + 1, N)[j] = s[(d + 1) + j - 1]
    <3> DEFINE m == d + 1
    <3>1. m \in Nat /\ m >= 1 /\ N <= Len(s) /\ m <= N + 1 /\ N \in Nat
      BY <1>1, <1>2
    <3> HIDE DEF m, N
    <3>2. /\ SubSeq(s, m, N) \in Seq(Runes)
          /\ Len(SubSeq(s, m, N)) = N - m + 1
          /\ \A j \in 1 .. N - m + 1 : SubSeq(s, m, N)[j] = s[m + j - 1]
      BY <1>1, <3>1, PieceOf
    <3>3. QED
      BY <3>2 DEF m
  <2> HIDE DEF N
  <2>2. t = SubSeq(s, d + 1, N)
    BY DEF N
  <2>3. t \in Seq(Runes) /\ Len(t) = N - d
    BY <1>2, <2>1, <2>2
  <2>4. \A j \in 1 .. N - d : t[j] = s[(d + 1) + j - 1]
    BY <1>2, <2>1, <2>2
  <2>5. QED
    BY <2>3, <2>4 DEF Strings
<1>4. \A j \in 1 .. N - d : t[j] = s[d + j] /\ d + j \in 1 .. N
  <2>1. \A j \in 1 .. N - d : (d + 1) + j - 1 = d + j /\ d + j \in 1 .. N
    BY <1>1, <1>2
  <2>2. QED
    BY <1>3, <2>1
<1>5. ASSUME NEW j \in 1 .. N - d PROVE Piece(t, j) = Piece(s, d + j)
  <2>0. t[j] = s[d + j] /\ d + j \in 1 .. N
    BY <1>4
  <2>1. CASE ~IsDigit(t[j])
    <3>1. Piece(t, j) = <<Rank(t[j])>>
      BY <2>1, TextPiece
    <3>2. Piece(s, d + j) = <<Rank(s[d + j])>>
      BY <2>0, <2>1, TextPiece
    <3>3. QED
      BY <2>0, <3>1, <3>2
  <2>2. CASE IsDigit(t[j])
    <3>1. j # 1
      <4> SUFFICES ASSUME j = 1 PROVE FALSE
        OBVIOUS
      <4>1. d < N
        BY <1>1, <1>2
      <4>2. t[1] = s[d + 1]
        BY <2>0
      <4>3. QED
        BY <2>2, <4>1, <4>2
    <3>2. /\ j - 1 \in 1 .. N - d /\ d + (j - 1) = (d + j) - 1 /\ d + j # 1
          /\ t[j - 1] = s[(d + j) - 1]
      <4>1. j - 1 \in 1 .. N - d /\ d + (j - 1) = (d + j) - 1 /\ d + j # 1
        BY <1>2, <3>1
      <4>2. t[j - 1] = s[d + (j - 1)]
        BY <1>4, <4>1
      <4>3. QED
        BY <4>1, <4>2
    <3>3. CASE IsDigit(t[j - 1])
      <4>1. Piece(t, j) = <<>>
        BY <2>2, <3>1, <3>3, InnerPiece
      <4>2. Piece(s, d + j) = <<>>
        BY <2>0, <2>2, <3>2, <3>3, InnerPiece
      <4>3. QED
        BY <4>1, <4>2
    <3>4. CASE ~IsDigit(t[j - 1])
      <4>1. PICK e \in j .. N - d : RunEnd(t, j, e)
        BY <1>2, <1>3, <2>2, RunExists
      <4>2. Piece(t, j) = <<0, Decimal(SubSeq(t, j, e))>>
        BY <1>2, <1>3, <3>4, <4>1, NumberPiece
      <4>3. d + e \in d + j .. N /\ RunEnd(s, d + j, d + e)
        <5>1. d + e \in d + j .. N /\ e \in 1 .. N - d
          BY <1>1, <1>2
        <5>2. ASSUME NEW k \in d + j .. d + e PROVE IsDigit(s[k])
          <6>1. k - d \in j .. e /\ k - d \in 1 .. N - d /\ d + (k - d) = k
            BY <1>1, <1>2, <5>1
          <6>2. IsDigit(t[k - d])
            BY <4>1, <6>1 DEF RunEnd
          <6>3. QED
            BY <1>4, <6>1, <6>2
        <5>3. d + e = N \/ ~IsDigit(s[(d + e) + 1])
          <6>1. CASE e = Len(t)
            <7>0. e = N - d
              BY <1>3, <6>1
            <7>1. d + (N - d) = N
              BY <1>1
            <7>2. d + e = N
              BY <7>0, <7>1
            <7>3. QED
              BY <7>2
          <6>2. CASE e # Len(t)
            <7>1. ~IsDigit(t[e + 1])
              BY <4>1, <6>2 DEF RunEnd
            <7>2. e + 1 \in 1 .. N - d /\ d + (e + 1) = (d + e) + 1
              <8>1. e # N - d
                BY <1>3, <6>2
              <8> HIDE DEF N
              <8>2. QED
                BY <1>1, <1>2, <5>1, <8>1
            <7>3. QED
              BY <1>4, <7>1, <7>2
          <6>3. QED
            BY <6>1, <6>2
        <5>4. QED
          BY <5>1, <5>2, <5>3 DEF RunEnd
      <4>4. Piece(s, d + j) = <<0, Decimal(SubSeq(s, d + j, d + e))>>
        <5>1. ~IsDigit(s[(d + j) - 1])
          BY <3>2, <3>4
        <5> DEFINE i == d + j
                   x == d + e
        <5>2. i \in 1 .. Len(s) /\ x \in i .. Len(s) /\ RunEnd(s, i, x) /\ ~IsDigit(s[i - 1])
          BY <2>0, <4>3, <5>1
        <5> HIDE DEF i, x
        <5>3. Piece(s, i) = <<0, Decimal(SubSeq(s, i, x))>>
          BY <1>1, <5>2, NumberPiece
        <5>4. QED
          BY <5>3 DEF i, x
      <4>5. SubSeq(t, j, e) = SubSeq(s, d + j, d + e)
        <5> DEFINE a == SubSeq(t, j, e)
                   b == SubSeq(s, d + j, d + e)
                   M == e - j + 1
        <5>1. /\ j \in Nat /\ e \in Nat /\ j >= 1 /\ e <= N - d /\ j <= e + 1
          BY <1>2
        <5>a. t \in Seq(Runes)
          BY <1>3 DEF Strings
        <5>2. /\ a \in Seq(Runes) /\ Len(a) = M
              /\ \A i \in 1 .. M : a[i] = t[j + i - 1]
          <6>1. e <= Len(t)
            BY <1>3, <5>1
          <6>2. QED
            BY <5>1, <5>a, <6>1, PieceOf
        <5>3. /\ d + j \in Nat /\ d + e \in Nat /\ d + j >= 1 /\ d + e <= N
              /\ d + j <= (d + e) + 1 /\ (d + e) - (d + j) + 1 = M
          BY <1>1, <1>2, <5>1
        <5>4. /\ b \in Seq(Runes) /\ Len(b) = M
              /\ \A i \in 1 .. M : b[i] = s[(d + j) + i - 1]
          BY <1>1, <5>3, PieceOf
        <5>5. ASSUME NEW i \in 1 .. M PROVE a[i] = b[i]
          <6>1. j + i - 1 \in 1 .. N - d /\ d + (j + i - 1) = (d + j) + i - 1
            BY <1>2, <5>1
          <6>2. t[j + i - 1] = s[d + (j + i - 1)]
            BY <1>4, <6>1
          <6>3. QED
            BY <5>2, <5>4, <6>1, <6>2
        <5> HIDE DEF a, b, M
        <5>6. a = b
          BY <5>2, <5>4, <5>5, SeqEqual
        <5>7. QED
          BY <5>6 DEF a, b
      <4>6. QED
        BY <4>2, <4>4, <4>5
    <3>5. QED
      BY <3>3, <3>4
  <2>3. QED
    BY <2>1, <2>2
<1>6. QED
  BY <1>3, <1>5

\* What a character adds is a key.
LEMMA PieceIsKey ==
  ASSUME NEW s \in Strings, NEW i \in 1 .. Len(s)
  PROVE  Piece(s, i) \in Keys
<1>1. s[i] \in Runes /\ Len(s) \in Nat /\ s \in Seq(Runes)
  BY DEF Strings
<1>2. CASE ~IsDigit(s[i])
  <2>1. Rank(s[i]) \in Int
    <3>1. \A r \in Runes : Rank(r) \in Int
      BY DEF Rank, Runes, IsLetter
    <3>2. QED
      BY <1>1, <3>1
  <2>2. Piece(s, i) = <<Rank(s[i])>>
    BY <1>2, TextPiece
  <2>3. <<Rank(s[i])>> \in Seq(Int)
    BY <2>1
  <2>4. QED
    BY <2>2, <2>3 DEF Keys
<1>3. CASE IsDigit(s[i]) /\ (i = 1 \/ ~IsDigit(s[i - 1]))
  <2>1. PICK j \in i .. Len(s) : RunEnd(s, i, j)
    BY <1>1, <1>3, RunExists
  <2>2. Piece(s, i) = <<0, Decimal(SubSeq(s, i, j))>>
    BY <1>1, <1>3, <2>1, NumberPiece
  <2>3. SubSeq(s, i, j) \in Strings
    <3>1. i \in Nat /\ j \in Nat /\ i >= 1 /\ j <= Len(s) /\ i <= j + 1
      BY <1>1
    <3>2. QED
      BY <1>1, <3>1, PieceOf DEF Strings
  <2>4. Decimal(SubSeq(s, i, j)) \in Int
    BY <2>3, DecimalIsInt
  <2>5. QED
    BY <2>2, <2>4 DEF Keys
<1>4. CASE IsDigit(s[i]) /\ i # 1 /\ IsDigit(s[i - 1])
  <2>1. Piece(s, i) = <<>>
    BY <1>4, InnerPiece
  <2>2. <<>> \in Seq(Int)
    OBVIOUS
  <2>3. QED
    BY <2>1, <2>2 DEF Keys
<1>5. QED
  BY <1>2, <1>3, <1>4

\* A piece of a piece is a piece.
LEMMA PieceOfPiece ==
  ASSUME NEW T, NEW s \in Seq(T), NEW a \in Nat, NEW b \in Nat, a >= 1, b <= Len(s),
         a <= b + 1, NEW m \in Nat, NEW n \in Nat, m >= 1, n <= b - a + 1, m <= n + 1
  PROVE  SubSeq(SubSeq(s, a, b), m, n) = SubSeq(s, a + m - 1, a + n - 1)
<1> DEFINE t == SubSeq(s, a, b)
           x == a + m - 1
           y == a + n - 1
           p == SubSeq(t, m, n)
           q == SubSeq(s, x, y)
           M == n - m + 1
           B == b - a + 1
<1>1. /\ t \in Seq(T) /\ Len(t) = B
      /\ \A i \in 1 .. B : t[i] = s[a + i - 1]
  BY PieceOf
<1>2. /\ p \in Seq(T) /\ Len(p) = M
      /\ \A i \in 1 .. M : p[i] = t[m + i - 1]
  <2> HIDE DEF t
  <2>1. n <= Len(t)
    BY <1>1
  <2>2. QED
    BY <1>1, <2>1, PieceOf
<1>3. /\ q \in Seq(T) /\ Len(q) = M
      /\ \A i \in 1 .. M : q[i] = s[x + i - 1]
  <2>1. Len(s) \in Nat
    OBVIOUS
  <2>2. /\ x \in Nat /\ y \in Nat /\ x >= 1 /\ y <= Len(s) /\ x <= y + 1 /\ y - x + 1 = M
    BY <2>1
  <2> HIDE DEF x, y, M
  <2>3. /\ q \in Seq(T) /\ Len(q) = y - x + 1
        /\ \A i \in 1 .. y - x + 1 : q[i] = s[x + i - 1]
    BY <2>2, PieceOf
  <2>4. QED
    BY <2>2, <2>3
<1>4. ASSUME NEW i \in 1 .. M PROVE p[i] = q[i]
  <2>1. m + i - 1 \in 1 .. B /\ a + (m + i - 1) - 1 = x + i - 1
    OBVIOUS
  <2>2. t[m + i - 1] = s[a + (m + i - 1) - 1]
    BY <1>1, <2>1
  <2> HIDE DEF t, p, q
  <2>3. QED
    BY <1>2, <1>3, <2>1, <2>2
<1> HIDE DEF p, q, M
<1>5. p = q
  BY <1>2, <1>3, <1>4, SeqEqual
<1>6. QED
  BY <1>5 DEF p, q

\* A part is cut at the first digit and after the last of its digits.
LEMMA PartsAre ==
  ASSUME NEW s \in Strings
  PROVE  \E k \in 0 .. Len(s) : \E d \in k .. Len(s) :
           /\ textOf(s) = SubSeq(s, 1, k)
           /\ numberOf(s) = SubSeq(s, k + 1, d)
           /\ afterOf(s) = SubSeq(s, d + 1, Len(s))
           /\ \A i \in 1 .. k : ~IsDigit(s[i])
           /\ \A i \in k + 1 .. d : IsDigit(s[i])
           /\ d < Len(s) => ~IsDigit(s[d + 1])
           /\ d = k => k = Len(s)
<1> DEFINE N == Len(s)
           r == takeWhile(s, Others)[2]
<1>1. N \in Nat /\ s \in Seq(Runes) /\ \A i \in 1 .. N : s[i] \in Runes
  BY DEF Strings
<1>2. \A x \in Runes : x \in Others <=> ~IsDigit(x)
  BY DEF Others, IsDigit
<1>3. PICK k \in 0 .. N :
        /\ textOf(s) = SubSeq(s, 1, k)
        /\ r = SubSeq(s, k + 1, N)
        /\ \A i \in 1 .. k : s[i] \in Others
        /\ k < N => s[k + 1] \notin Others
  BY TakeWhileIs DEF textOf
<1> HIDE DEF r
<1>4. /\ r \in Strings /\ Len(r) = N - k
      /\ \A i \in 1 .. N - k : r[i] = s[k + i]
  <2> DEFINE a == k + 1
  <2>1. a \in Nat /\ a >= 1 /\ N <= Len(s) /\ a <= N + 1 /\ N - a + 1 = N - k
    BY <1>1
  <2> HIDE DEF a
  <2>2. /\ SubSeq(s, a, N) \in Seq(Runes) /\ Len(SubSeq(s, a, N)) = N - a + 1
        /\ \A i \in 1 .. N - a + 1 : SubSeq(s, a, N)[i] = s[a + i - 1]
    <3> HIDE DEF N
    <3>1. QED
      BY <1>1, <2>1, PieceOf
  <2>3. r = SubSeq(s, a, N)
    BY <1>3 DEF a
  <2>4. \A i \in 1 .. N - k : a + i - 1 = k + i
    BY DEF a
  <2>5. r \in Strings /\ Len(r) = N - k
    BY <2>1, <2>2, <2>3 DEF Strings
  <2>6. \A i \in 1 .. N - k : r[i] = s[k + i]
    BY <2>1, <2>2, <2>3, <2>4
  <2>7. QED
    BY <2>5, <2>6
<1>5. PICK m \in 0 .. N - k :
        /\ numberOf(s) = SubSeq(r, 1, m)
        /\ afterOf(s) = SubSeq(r, m + 1, N - k)
        /\ \A i \in 1 .. m : r[i] \in Digits
        /\ m < N - k => r[m + 1] \notin Digits
  <2> DEFINE P == Digits
  <2>1. numberOf(s) = takeWhile(r, P)[1] /\ afterOf(s) = takeWhile(r, P)[2]
    BY DEF numberOf, afterOf, r
  <2> HIDE DEF P
  <2>2. PICK m \in 0 .. Len(r) :
          /\ takeWhile(r, P)[1] = SubSeq(r, 1, m)
          /\ takeWhile(r, P)[2] = SubSeq(r, m + 1, Len(r))
          /\ \A i \in 1 .. m : r[i] \in P
          /\ m < Len(r) => r[m + 1] \notin P
    BY <1>4, TakeWhileIs
  <2>3. \A i \in 1 .. m : r[i] \in Digits
    BY <2>2 DEF P
  <2>4. m < N - k => r[m + 1] \notin Digits
    BY <1>4, <2>2 DEF P
  <2>5. m \in 0 .. N - k
    BY <1>4
  <2>6. numberOf(s) = SubSeq(r, 1, m) /\ afterOf(s) = SubSeq(r, m + 1, N - k)
    BY <1>4, <2>1, <2>2
  <2>7. QED
    BY <2>3, <2>4, <2>5, <2>6
<1> DEFINE d == k + m
<1>6. /\ k \in Nat /\ m \in Nat /\ d \in k .. N /\ N - k \in Nat
  BY <1>1
<1>7. numberOf(s) = SubSeq(s, k + 1, d) /\ afterOf(s) = SubSeq(s, d + 1, N)
  <2> DEFINE a == k + 1
  <2>1. /\ a \in Nat /\ a >= 1 /\ a <= N + 1 /\ N - a + 1 = N - k
        /\ a + 1 - 1 = a /\ a + m - 1 = d /\ a + (m + 1) - 1 = d + 1 /\ a + (N - k) - 1 = N
        /\ 1 <= m + 1 /\ m <= N - k /\ m + 1 \in Nat /\ m + 1 <= (N - k) + 1 /\ m + 1 >= 1
    BY <1>1, <1>6
  <2> HIDE DEF a
  <2>2. SubSeq(SubSeq(s, a, N), 1, m) = SubSeq(s, a + 1 - 1, a + m - 1)
    <3> HIDE DEF d
    <3>1. N <= Len(s)
      BY <1>1
    <3> HIDE DEF N
    <3>2. QED
      BY <1>1, <1>6, <2>1, <3>1, PieceOfPiece
  <2>3. SubSeq(SubSeq(s, a, N), m + 1, N - k) = SubSeq(s, a + (m + 1) - 1, a + (N - k) - 1)
    <3> DEFINE c == m + 1
               e == N - k
    <3>1. N <= Len(s) /\ c \in Nat /\ c >= 1 /\ e \in Nat /\ e <= N - a + 1 /\ c <= e + 1
      BY <1>1, <1>6, <2>1
    <3> HIDE DEF N, c, e
    <3>2. SubSeq(SubSeq(s, a, N), c, e) = SubSeq(s, a + c - 1, a + e - 1)
      BY <1>1, <2>1, <3>1, PieceOfPiece
    <3>3. QED
      BY <3>2 DEF c, e
  <2>4. SubSeq(s, a, N) = r
    BY <1>3 DEF a
  <2> HIDE DEF d, N
  <2>5. numberOf(s) = SubSeq(s, a, d)
    BY <1>5, <2>1, <2>2, <2>4
  <2>6. afterOf(s) = SubSeq(s, d + 1, N)
    BY <1>5, <2>1, <2>3, <2>4
  <2>7. QED
    BY <2>5, <2>6 DEF a
<1>8. ASSUME NEW i \in 1 .. k PROVE ~IsDigit(s[i])
  <2>1. i \in 1 .. N /\ s[i] \in Others
    BY <1>1, <1>3
  <2>2. QED
    BY <1>1, <1>2, <2>1
<1>9. ASSUME NEW i \in k + 1 .. d PROVE IsDigit(s[i])
  <2>1. i - k \in 1 .. m /\ i - k \in 1 .. N - k /\ k + (i - k) = i
    BY <1>1, <1>6
  <2>2. r[i - k] = s[i] /\ r[i - k] \in Digits
    BY <1>4, <1>5, <2>1
  <2>3. QED
    BY <2>2 DEF IsDigit
<1>10. ASSUME d < N PROVE ~IsDigit(s[d + 1])
  <2>1. m < N - k /\ m + 1 \in 1 .. N - k /\ k + (m + 1) = d + 1
    BY <1>1, <1>6, <1>10
  <2>2. r[m + 1] = s[d + 1] /\ r[m + 1] \notin Digits
    BY <1>4, <1>5, <2>1
  <2>3. QED
    BY <2>2 DEF IsDigit
<1>11. ASSUME d = k PROVE k = N
  <2> SUFFICES ASSUME k < N PROVE FALSE
    BY <1>1
  <2>1. d < N /\ k + 1 \in 1 .. N /\ s[k + 1] \notin Others
    BY <1>1, <1>3, <1>11
  <2>2. ~IsDigit(s[k + 1])
    BY <1>10, <1>11, <2>1
  <2>3. QED
    BY <1>1, <1>2, <2>1, <2>2
<1> HIDE DEF d
<1>12. QED
  BY <1>3, <1>6, <1>7, <1>8, <1>9, <1>10, <1>11

\* The key of a number, that may be missing.
NumberKey(n) == IF n = <<>> THEN <<>> ELSE <<0, Decimal(n)>>

\* Two keys joined are a key.
LEMMA ConcatKeys ==
  ASSUME NEW a \in Keys, NEW b \in Keys
  PROVE  /\ a \o b \in Keys /\ Len(a \o b) = Len(a) + Len(b)
         /\ Len(a) \in Nat /\ Len(b) \in Nat
         /\ \A i \in 1 .. Len(a) : (a \o b)[i] = a[i]
         /\ \A i \in 1 .. Len(b) : (a \o b)[Len(a) + i] = b[i]
         /\ a \o <<>> = a
BY DEF Keys

\* Where the members of a concatenation come from.
LEMMA ConcatIs ==
  ASSUME NEW T, NEW a \in Seq(T), NEW b \in Seq(T)
  PROVE  /\ a \o b \in Seq(T) /\ Len(a \o b) = Len(a) + Len(b)
         /\ \A i \in 1 .. Len(a) : (a \o b)[i] = a[i]
         /\ \A i \in 1 .. Len(b) : (a \o b)[Len(a) + i] = b[i]
OBVIOUS

\* Three keys are joined in either order.
Associate(a, b, c) == (a \o b) \o c = a \o (b \o c)

\* Joining keys is associative.
LEMMA ConcatThree ==
  ASSUME NEW T, NEW a \in Seq(T), NEW b \in Seq(T), NEW c \in Seq(T)
  PROVE  Associate(a, b, c)
<1> DEFINE x == (a \o b) \o c
           y == a \o (b \o c)
           l == Len(a)
           m == Len(b)
           n == Len(c)
           ab == a \o b
           bc == b \o c
<1>1. /\ l \in Nat /\ m \in Nat /\ n \in Nat /\ ab \in Seq(T) /\ bc \in Seq(T)
      /\ Len(ab) = l + m /\ Len(bc) = m + n
  OBVIOUS
<1>2. /\ \A i \in 1 .. l : ab[i] = a[i]
      /\ \A i \in 1 .. m : ab[l + i] = b[i] /\ bc[i] = b[i]
      /\ \A i \in 1 .. n : bc[m + i] = c[i]
  OBVIOUS
<1>3. x = ab \o c /\ y = a \o bc
  OBVIOUS
<1> HIDE DEF x, y, ab, bc
<1>4. /\ x \in Seq(T) /\ y \in Seq(T) /\ Len(x) = (l + m) + n /\ Len(y) = l + (m + n)
  <2>1. /\ x \in Seq(T) /\ Len(x) = Len(ab) + Len(c)
    BY <1>1, <1>3, ConcatIs
  <2>2. /\ y \in Seq(T) /\ Len(y) = Len(a) + Len(bc)
    BY <1>1, <1>3, ConcatIs
  <2>3. QED
    BY <1>1, <2>1, <2>2
<1>5. /\ \A i \in 1 .. l + m : x[i] = ab[i]
      /\ \A i \in 1 .. n : x[(l + m) + i] = c[i]
      /\ \A i \in 1 .. l : y[i] = a[i]
      /\ \A i \in 1 .. m + n : y[l + i] = bc[i]
  <2>1. /\ \A i \in 1 .. Len(ab) : x[i] = ab[i]
        /\ \A i \in 1 .. Len(c) : x[Len(ab) + i] = c[i]
    <3> DEFINE u == ab \o c
    <3>1. /\ \A i \in 1 .. Len(ab) : u[i] = ab[i]
          /\ \A i \in 1 .. Len(c) : u[Len(ab) + i] = c[i]
      BY <1>1, ConcatIs, SMTT(20)
    <3>2. QED
      BY <1>3, <3>1
  <2>2. /\ \A i \in 1 .. Len(a) : y[i] = a[i]
        /\ \A i \in 1 .. Len(bc) : y[Len(a) + i] = bc[i]
    <3> DEFINE u == a \o bc
    <3>1. /\ \A i \in 1 .. Len(a) : u[i] = a[i]
          /\ \A i \in 1 .. Len(bc) : u[Len(a) + i] = bc[i]
      BY <1>1, ConcatIs
    <3>2. QED
      BY <1>3, <3>1
  <2>3. QED
    BY <1>1, <2>1, <2>2
<1> HIDE DEF l, m, n
<1>6. ASSUME NEW i \in 1 .. (l + m) + n PROVE x[i] = y[i]
  <2>1. CASE i <= l
    <3>1. i \in 1 .. l /\ i \in 1 .. l + m
      BY <1>1, <2>1
    <3>2. QED
      BY <1>2, <1>5, <3>1
  <2>2. CASE ~(i <= l) /\ i <= l + m
    <3>1. PICK j \in 1 .. m : i = l + j
      <4>1. i - l \in 1 .. m /\ i = l + (i - l)
        BY <1>1, <2>2
      <4>2. QED
        BY <4>1
    <3>2. i \in 1 .. l + m /\ j \in 1 .. m + n
      BY <1>1, <2>2
    <3>3. QED
      BY <1>2, <1>5, <3>1, <3>2
  <2>3. CASE ~(i <= l + m)
    <3>1. PICK j \in 1 .. n : i = (l + m) + j
      <4>1. i - (l + m) \in 1 .. n /\ i = (l + m) + (i - (l + m))
        BY <1>1, <2>3
      <4>2. QED
        BY <4>1
    <3>2. m + j \in 1 .. m + n /\ l + (m + j) = i
      BY <1>1, <3>1
    <3>3. x[i] = c[j] /\ y[i] = bc[m + j]
      BY <1>5, <3>1, <3>2
    <3>4. QED
      BY <1>2, <3>3
  <2>4. QED
    BY <2>1, <2>2, <2>3
<1>7. Len(x) = Len(y)
  BY <1>1, <1>4
<1>8. \A i \in 1 .. Len(x) : x[i] = y[i]
  BY <1>4, <1>6
<1>9. x = y
  BY <1>4, <1>7, <1>8, SeqEqual
<1>10. QED
  BY <1>9 DEF x, y, ab, bc, Associate

\* The key of a string is a key.
LEMMA KeyOf ==
  ASSUME NEW s \in Strings
  PROVE  PolicyKey(s) \in Keys /\ PolicyKey(<<>>) = <<>>
<1> DEFINE seqs == [i \in DOMAIN s |-> Piece(s, i)]
<1>1. DOMAIN s = 1 .. Len(s) /\ Len(s) \in Nat
  BY DEF Strings
<1>2. seqs \in [1 .. Len(s) -> Seq(Int)]
  BY <1>1, PieceIsKey DEF Keys
<1>3. PolicyKey(s) = FlattenSeq(seqs)
  BY PolicyKeyIs
<1>4. PolicyKey(s) \in Keys
  <2> HIDE DEF seqs
  <2>1. QED
    BY <1>1, <1>2, <1>3, FlattenInSeq DEF Keys
<1>5. PolicyKey(<<>>) = <<>>
  <2> DEFINE none == [i \in DOMAIN <<>> |-> Piece(<<>>, i)]
             n == 0
  <2>1. PolicyKey(<<>>) = FlattenSeq(none)
    BY PolicyKeyIs
  <2>2. none \in [1 .. n -> Seq(Int)] /\ n \in Nat /\ \A i \in 1 .. n : none[i] = <<>>
    OBVIOUS
  <2> HIDE DEF none, n
  <2>3. FlattenSeq(none) = <<>>
    BY <2>2, FlattenNothing
  <2>4. QED
    BY <2>1, <2>3
<1>6. QED
  BY <1>4, <1>5

\* The key of a part: the ranks of its text, its number, the key of what follows.
LEMMA KeyParts ==
  ASSUME NEW s \in Plain
  PROVE  /\ PolicyKey(s) = (Ranks(textOf(s)) \o NumberKey(numberOf(s)))
                             \o PolicyKey(afterOf(s))
         /\ textOf(s) \in Plain /\ numberOf(s) \in Numerals /\ afterOf(s) \in Plain
         /\ numberOf(s) = <<>> => afterOf(s) = <<>>
<1> DEFINE N == Len(s)
           R == Runes \ {0}
<1>1. s \in Strings /\ N \in Nat /\ DOMAIN s = 1 .. N /\ s \in Seq(R)
      /\ \A i \in 1 .. N : s[i] \in R
  BY RanksOf DEF Plain
<1> HIDE DEF R
<1>2. PICK k \in 0 .. N : \E d \in k .. N :
        /\ textOf(s) = SubSeq(s, 1, k)
        /\ numberOf(s) = SubSeq(s, k + 1, d)
        /\ afterOf(s) = SubSeq(s, d + 1, N)
        /\ \A i \in 1 .. k : ~IsDigit(s[i])
        /\ \A i \in k + 1 .. d : IsDigit(s[i])
        /\ d < N => ~IsDigit(s[d + 1])
        /\ d = k => k = N
  BY <1>1, PartsAre
<1>3. PICK d \in k .. N :
        /\ textOf(s) = SubSeq(s, 1, k)
        /\ numberOf(s) = SubSeq(s, k + 1, d)
        /\ afterOf(s) = SubSeq(s, d + 1, N)
        /\ \A i \in 1 .. k : ~IsDigit(s[i])
        /\ \A i \in k + 1 .. d : IsDigit(s[i])
        /\ d < N => ~IsDigit(s[d + 1])
        /\ d = k => k = N
  BY <1>2
<1> DEFINE text == SubSeq(s, 1, k)
           number == SubSeq(s, k + 1, d)
           after == SubSeq(s, d + 1, N)
           seqs == [i \in DOMAIN s |-> Piece(s, i)]
           rest == [i \in DOMAIN after |-> Piece(after, i)]
<1>4. k \in Nat /\ d \in Nat /\ N - d \in Nat /\ k <= N /\ d <= N /\ k <= d
  BY <1>1
<1>5. /\ text \in Seq(R) /\ Len(text) = k
      /\ \A i \in 1 .. k : text[i] = s[i]
  <2> DEFINE one == 1
  <2>1. one \in Nat /\ one >= 1 /\ one <= k + 1
    BY <1>4
  <2> HIDE DEF one, N
  <2>2. k <= Len(s)
    BY <1>4 DEF N
  <2>3. /\ SubSeq(s, one, k) \in Seq(R) /\ Len(SubSeq(s, one, k)) = k - one + 1
        /\ \A i \in 1 .. k - one + 1 : SubSeq(s, one, k)[i] = s[one + i - 1]
    BY <1>1, <1>4, <2>1, <2>2, PieceOf
  <2>4. k - one + 1 = k /\ \A i \in 1 .. k : one + i - 1 = i
    BY <1>4 DEF one
  <2>5. text = SubSeq(s, one, k)
    BY DEF one
  <2> HIDE DEF text
  <2>6. text \in Seq(R) /\ Len(text) = k
    BY <2>3, <2>4, <2>5
  <2>7. \A i \in 1 .. k : text[i] = s[i]
    BY <2>3, <2>4, <2>5
  <2>8. QED
    BY <2>6, <2>7
<1>6. number \in Seq(R) /\ Len(number) = d - k /\ number \in Numerals
  <2> DEFINE a == k + 1
  <2>1. a \in Nat /\ a >= 1 /\ a <= d + 1 /\ d - a + 1 = d - k /\ d - k \in Nat
    BY <1>4
  <2> HIDE DEF a, N
  <2>2. d <= Len(s)
    BY <1>4 DEF N
  <2>3. /\ SubSeq(s, a, d) \in Seq(R) /\ Len(SubSeq(s, a, d)) = d - a + 1
        /\ \A i \in 1 .. d - a + 1 : SubSeq(s, a, d)[i] = s[a + i - 1]
    BY <1>1, <1>4, <2>1, <2>2, PieceOf
  <2>4. number = SubSeq(s, a, d)
    BY DEF a
  <2> HIDE DEF number
  <2>5. number \in Seq(R) /\ Len(number) = d - k
    BY <2>1, <2>3, <2>4
  <2>6. ASSUME NEW i \in 1 .. d - k PROVE number[i] \in Digits
    <3>1. number[i] = s[a + i - 1]
      BY <2>1, <2>3, <2>4
    <3>2. a + i - 1 \in k + 1 .. d
      BY <1>4, <2>1 DEF a
    <3>3. QED
      BY <1>3, <3>1, <3>2 DEF IsDigit
  <2>7. number \in Seq(Digits)
    <3>1. number = [i \in 1 .. d - k |-> number[i]]
      BY <2>5
    <3>2. QED
      BY <2>1, <2>6, <3>1
  <2>8. QED
    BY <2>5, <2>7 DEF Numerals
<1>7. /\ after \in Strings /\ Len(after) = N - d /\ after \in Seq(R)
      /\ \A j \in 1 .. N - d : Piece(after, j) = Piece(s, d + j)
  <2>1. d \in 0 .. Len(s) /\ (d < Len(s) => ~IsDigit(s[d + 1]))
    BY <1>3, <1>4
  <2>2. PICK t : t = after
    OBVIOUS
  <2>3. t = SubSeq(s, d + 1, Len(s))
    BY <2>2
  <2>4. /\ t \in Strings /\ Len(t) = Len(s) - d
        /\ \A j \in 1 .. Len(t) : Piece(t, j) = Piece(s, d + j)
    BY <1>1, <2>1, <2>3, PieceShift
  <2>5. after \in Seq(R)
    <3> DEFINE a == d + 1
    <3>1. a \in Nat /\ a >= 1 /\ N <= Len(s) /\ a <= N + 1
      BY <1>1, <1>4
    <3> HIDE DEF a, N
    <3>2. SubSeq(s, a, N) \in Seq(R)
      BY <1>1, <3>1, PieceOf
    <3>3. QED
      BY <3>2 DEF a
  <2>6. QED
    BY <2>2, <2>4, <2>5
<1>8. textOf(s) = text /\ numberOf(s) = number /\ afterOf(s) = after
  BY <1>3
<1>9. DOMAIN after = 1 .. N - d
  <2> HIDE DEF after
  <2>1. QED
    BY <1>7
<1>10. /\ seqs \in [1 .. N -> Seq(Int)] /\ rest \in [1 .. N - d -> Seq(Int)]
       /\ \A i \in 1 .. N : seqs[i] = Piece(s, i)
       /\ \A j \in 1 .. N - d : rest[j] = seqs[d + j]
  <2> HIDE DEF after
  <2>1. \A i \in 1 .. N : seqs[i] = Piece(s, i) /\ Piece(s, i) \in Seq(Int)
    BY <1>1, PieceIsKey DEF Keys
  <2>2. \A j \in 1 .. N - d : rest[j] = Piece(after, j) /\ Piece(after, j) \in Seq(Int)
    BY <1>7, <1>9, PieceIsKey DEF Keys
  <2>3. \A j \in 1 .. N - d : d + j \in 1 .. N
    BY <1>1, <1>4
  <2>4. QED
    BY <1>1, <1>7, <1>9, <2>1, <2>2, <2>3
<1>11. PolicyKey(s) = FlattenSeq(seqs) /\ PolicyKey(after) = FlattenSeq(rest)
  BY PolicyKeyIs
<1> HIDE DEF text, number, after, seqs, rest, N
<1>12. PICK g \in [0 .. N -> Seq(Int)] :
         /\ g[0] = <<>>
         /\ \A n \in 1 .. N : g[n] = g[n - 1] \o seqs[n]
         /\ FlattenSeq(seqs) = g[N]
  BY <1>1, <1>10, FlattenIs, ZenonT(60)
<1>13. PICK h \in [0 .. N - d -> Seq(Int)] :
         /\ h[0] = <<>>
         /\ \A n \in 1 .. N - d : h[n] = h[n - 1] \o rest[n]
         /\ FlattenSeq(rest) = h[N - d]
  <2> DEFINE M == N - d
  <2>1. M \in Nat /\ rest \in [1 .. M -> Seq(Int)]
    BY <1>4, <1>10
  <2> HIDE DEF M
  <2>2. \E h \in [0 .. M -> Seq(Int)] :
          /\ h[0] = <<>>
          /\ \A n \in 1 .. M : h[n] = h[n - 1] \o rest[n]
          /\ FlattenSeq(rest) = h[M]
    BY <2>1, FlattenIs, ZenonT(60)
  <2>3. QED
    BY <2>2 DEF M
<1>14. g[k] = Ranks(text)
  <2> DEFINE A == {n \in 0 .. k : Len(g[n]) = n /\ \A i \in 1 .. n : g[n][i] = Rank(s[i])}
  <2>1. 0 \in A
    BY <1>4, <1>12
  <2>2. ASSUME NEW n \in 1 .. k, n - 1 \in A PROVE n \in A
    <3>1. n \in 1 .. N /\ n \in 0 .. k /\ n - 1 \in 0 .. N /\ n - 1 \in Nat
      BY <1>1, <1>4
    <3>2. Len(g[n - 1]) = n - 1 /\ \A i \in 1 .. n - 1 : g[n - 1][i] = Rank(s[i])
      BY <2>2
    <3>3. seqs[n] = <<Rank(s[n])>>
      BY <1>3, <1>10, <3>1, TextPiece
    <3>4. g[n] = g[n - 1] \o seqs[n]
      BY <1>12, <3>1
    <3>5. g[n - 1] \in Keys /\ seqs[n] \in Keys
      BY <1>10, <1>12, <3>1 DEF Keys
    <3>6. /\ Len(g[n]) = Len(g[n - 1]) + Len(seqs[n])
          /\ \A i \in 1 .. Len(g[n - 1]) : g[n][i] = g[n - 1][i]
          /\ \A i \in 1 .. Len(seqs[n]) : g[n][Len(g[n - 1]) + i] = seqs[n][i]
      <4> DEFINE a == g[n - 1]
                 b == seqs[n]
      <4>1. a \in Keys /\ b \in Keys /\ g[n] = a \o b
        BY <3>4, <3>5
      <4> HIDE DEF a, b
      <4>2. /\ Len(g[n]) = Len(a) + Len(b)
            /\ \A i \in 1 .. Len(a) : g[n][i] = a[i]
            /\ \A i \in 1 .. Len(b) : g[n][Len(a) + i] = b[i]
        BY <4>1, ConcatKeys
      <4>3. QED
        BY <4>2 DEF a, b
    <3>7. Len(seqs[n]) = 1 /\ seqs[n][1] = Rank(s[n]) /\ (n - 1) + 1 = n
      BY <3>1, <3>3
    <3>8. Len(g[n]) = n
      BY <3>2, <3>6, <3>7
    <3>9. g[n][n] = Rank(s[n])
      <4>1. 1 \in 1 .. Len(seqs[n])
        BY <3>7
      <4>2. g[n][Len(g[n - 1]) + 1] = seqs[n][1]
        BY <3>6, <4>1
      <4>3. QED
        BY <3>2, <3>7, <4>2
    <3>10. ASSUME NEW i \in 1 .. n PROVE g[n][i] = Rank(s[i])
      <4>1. CASE i = n
        BY <3>9, <4>1
      <4>2. CASE i # n
        <5>1. i \in 1 .. n - 1
          BY <3>1, <4>2
        <5>2. QED
          BY <3>2, <3>6, <5>1
      <4>3. QED
        BY <4>1, <4>2
    <3>11. QED
      BY <3>1, <3>8, <3>10
  <2>3. k \in A
    <3> HIDE DEF A
    <3>1. \A n \in 0 .. k : n \in A
      BY <1>4, <2>1, <2>2, LoopInduction
    <3>2. QED
      BY <1>4, <3>1
  <2>4. Len(g[k]) = k /\ \A i \in 1 .. k : g[k][i] = Rank(s[i])
    BY <2>3
  <2>5. text \in Plain
    BY <1>5 DEF Plain, R
  <2>6. Ranks(text) \in Keys /\ Len(Ranks(text)) = k
    BY <1>5, <2>5, RanksOf
  <2>7. \A i \in 1 .. k : Ranks(text)[i] = Rank(s[i])
    BY <1>5 DEF Ranks
  <2>8. g[k] \in Seq(Int)
    BY <1>1, <1>4, <1>12
  <2>9. QED
    BY <2>4, <2>6, <2>7, <2>8, SeqEqual DEF Keys
<1>15. g[d] = g[k] \o NumberKey(number)
  <2>1. CASE d = k
    <3>1. number = <<>>
      BY <1>6, <1>4, <2>1
    <3>2. g[k] \in Keys
      BY <1>1, <1>4, <1>12 DEF Keys
    <3>3. g[k] \o <<>> = g[k]
      <4>1. <<>> \in Keys
        BY DEF Keys
      <4>2. QED
        BY <3>2, <4>1, ConcatKeys
    <3>4. QED
      BY <2>1, <3>1, <3>3 DEF NumberKey
  <2>2. CASE d # k
    <3>1. k + 1 \in 1 .. N /\ d \in k + 1 .. N /\ (k + 1) - 1 = k /\ d - k # 0
      BY <1>1, <1>4, <2>2
    <3>2. number # <<>>
      BY <1>6, <3>1
    <3>3. RunEnd(s, k + 1, d)
      BY <1>3 DEF RunEnd, N
    <3>4. k + 1 = 1 \/ ~IsDigit(s[(k + 1) - 1])
      <4>1. k = 0 \/ k \in 1 .. k
        BY <1>4
      <4>2. QED
        BY <1>3, <3>1, <4>1
    <3>5. Piece(s, k + 1) = <<0, Decimal(SubSeq(s, k + 1, d))>>
      <4> DEFINE a == k + 1
      <4>1. /\ a \in 1 .. Len(s) /\ d \in a .. Len(s) /\ RunEnd(s, a, d)
            /\ a = 1 \/ ~IsDigit(s[a - 1])
            /\ Len(s) \in Nat
        BY <1>1, <3>1, <3>3, <3>4 DEF N
      <4> HIDE DEF a
      <4>2. Piece(s, a) = <<0, Decimal(SubSeq(s, a, d))>>
        BY <4>1, NumberPiece
      <4>3. QED
        BY <4>2 DEF a
    <3>6. seqs[k + 1] = NumberKey(number)
      BY <1>10, <3>1, <3>2, <3>5 DEF NumberKey, number
    <3>7. g[k + 1] = g[k] \o NumberKey(number)
      BY <1>12, <3>1, <3>6
    <3> DEFINE M == d - (k + 1)
               A == {n \in 0 .. M : g[(k + 1) + n] = g[k + 1]}
    <3>8. M \in Nat /\ (k + 1) + M = d
      BY <1>4, <3>1
    <3>9. 0 \in A
      <4>1. (k + 1) + 0 = k + 1 /\ 0 \in 0 .. M
        BY <1>4, <3>8
      <4>2. QED
        BY <4>1
    <3>10. ASSUME NEW n \in 1 .. M, n - 1 \in A PROVE n \in A
      <4> DEFINE i == (k + 1) + n
      <4>1. /\ i \in k + 1 .. d /\ i - 1 \in k + 1 .. d /\ i \in 1 .. N /\ i # 1
            /\ (k + 1) + (n - 1) = i - 1 /\ n \in 0 .. M /\ i - 1 \in 0 .. N
        BY <1>1, <1>4, <3>8
      <4>2. g[i - 1] = g[k + 1]
        BY <3>10, <4>1
      <4> HIDE DEF M, i
      <4>3. Piece(s, i) = <<>>
        BY <1>3, <4>1, InnerPiece
      <4>4. g[i] = g[i - 1] \o <<>>
        BY <1>10, <1>12, <4>1, <4>3
      <4>5. g[i - 1] \in Keys /\ <<>> \in Keys
        BY <1>12, <4>1 DEF Keys
      <4>6. g[i] = g[k + 1]
        BY <4>2, <4>4, <4>5, ConcatKeys
      <4>7. QED
        BY <4>1, <4>6 DEF i
    <3>11. M \in A
      <4> HIDE DEF A, M
      <4>1. \A n \in 0 .. M : n \in A
        BY <3>8, <3>9, <3>10, LoopInduction
      <4>2. QED
        BY <3>8, <4>1
    <3>12. g[(k + 1) + M] = g[k + 1]
      BY <3>11
    <3> HIDE DEF M
    <3>13. QED
      BY <3>7, <3>8, <3>12
  <2>3. QED
    BY <2>1, <2>2
<1>16. g[N] = g[d] \o h[N - d]
  <2> DEFINE A == {n \in 0 .. N - d : g[d + n] = g[d] \o h[n]}
  <2>0. g[d] \in Keys
    BY <1>1, <1>4, <1>12 DEF Keys
  <2>1. 0 \in A
    <3>1. d + 0 = d /\ 0 \in 0 .. N - d
      BY <1>4
    <3>2. <<>> \in Keys
      BY DEF Keys
    <3>3. g[d] \o <<>> = g[d]
      BY <2>0, <3>2, ConcatKeys
    <3>4. QED
      BY <1>13, <3>1, <3>3
  <2>2. ASSUME NEW n \in 1 .. N - d, n - 1 \in A PROVE n \in A
    <3>1. /\ d + n \in 1 .. N /\ d + (n - 1) = (d + n) - 1 /\ n \in 0 .. N - d
          /\ n - 1 \in 0 .. N - d
      BY <1>1, <1>4
    <3>2. g[(d + n) - 1] = g[d] \o h[n - 1]
      BY <2>2, <3>1
    <3>3. g[d + n] = g[(d + n) - 1] \o seqs[d + n]
      BY <1>12, <3>1
    <3>4. h[n] = h[n - 1] \o seqs[d + n]
      BY <1>10, <1>13
    <3>5. h[n - 1] \in Seq(Int) /\ seqs[d + n] \in Seq(Int) /\ g[d] \in Seq(Int)
      BY <1>10, <1>13, <2>0, <3>1 DEF Keys
    <3>6. (g[d] \o h[n - 1]) \o seqs[d + n] = g[d] \o (h[n - 1] \o seqs[d + n])
      <4> DEFINE a == g[d]
                 b == h[n - 1]
                 c == seqs[d + n]
      <4>1. a \in Seq(Int) /\ b \in Seq(Int) /\ c \in Seq(Int)
        BY <3>5
      <4> HIDE DEF a, b, c
      <4>2. (a \o b) \o c = a \o (b \o c)
        <5>1. Associate(a, b, c)
          BY <4>1, ConcatThree
        <5>2. QED
          BY <5>1 DEF Associate
      <4>3. QED
        BY <4>2 DEF a, b, c
    <3>7. g[d + n] = g[d] \o h[n]
      BY <3>2, <3>3, <3>4, <3>6
    <3>8. QED
      BY <3>1, <3>7
  <2>3. N - d \in A
    <3> HIDE DEF A
    <3>1. \A n \in 0 .. N - d : n \in A
      BY <1>4, <2>1, <2>2, LoopInduction
    <3>2. QED
      BY <1>4, <3>1
  <2>4. d + (N - d) = N
    BY <1>1, <1>4
  <2>5. QED
    BY <2>3, <2>4
<1>17. PolicyKey(s) = (Ranks(text) \o NumberKey(number)) \o PolicyKey(after)
  BY <1>11, <1>12, <1>13, <1>14, <1>15, <1>16
<1>18. number = <<>> => after = <<>>
  <2> SUFFICES ASSUME number = <<>> PROVE after = <<>>
    OBVIOUS
  <2>1. d - k = 0
    BY <1>6
  <2>2. d = k
    BY <1>4, <2>1
  <2>3. N - d = 0
    BY <1>1, <1>3, <2>2
  <2>4. QED
    BY <1>7, <2>3
<1>19. text \in Plain /\ after \in Plain
  BY <1>5, <1>7 DEF Plain, R
<1>20. QED
  BY <1>6, <1>8, <1>17, <1>18, <1>19

\* The key of a part behind its text.
Behind(s) == NumberKey(numberOf(s)) \o PolicyKey(afterOf(s))

\* The key of a part starts with the ranks of its text, then a 0 and its number.
LEMMA BehindIs ==
  ASSUME NEW s \in Plain
  PROVE  /\ PolicyKey(s) = Ranks(textOf(s)) \o Behind(s)
         /\ PolicyKey(s) \in Keys /\ Ranks(textOf(s)) \in Keys
         /\ Behind(s) \in Keys /\ Rest(Behind(s)) \in Keys
         /\ At(Behind(s), 1) = 0
         /\ At(Rest(Behind(s)), 1) = Decimal(numberOf(s))
         /\ Rest(Rest(Behind(s))) = PolicyKey(afterOf(s))
<1> DEFINE text   == Ranks(textOf(s))
           number == NumberKey(numberOf(s))
           after  == PolicyKey(afterOf(s))
           n      == Decimal(numberOf(s))
<1>1. /\ PolicyKey(s) = (text \o number) \o after
      /\ textOf(s) \in Plain /\ numberOf(s) \in Numerals /\ afterOf(s) \in Plain
      /\ numberOf(s) = <<>> => afterOf(s) = <<>>
  BY KeyParts
<1>2. /\ s \in Strings /\ afterOf(s) \in Strings /\ numberOf(s) \in Strings
      /\ text \in Keys
  BY <1>1, RanksOf, NumeralIs
<1>3. n \in Int /\ PolicyKey(s) \in Keys /\ after \in Keys
  BY <1>2, DecimalIsInt, KeyOf
<1>4. /\ numberOf(s) = <<>> => number = <<>> /\ after = <<>> /\ n = 0
      /\ numberOf(s) # <<>> => number = <<0, n>>
  <2>1. Decimal(<<>>) = 0
    <3>1. <<>> \in Strings /\ Len(<<>>) = 0
      BY DEF Strings
    <3>2. QED
      BY <3>1, DecimalIs
  <2>2. PolicyKey(<<>>) = <<>>
    BY <1>2, KeyOf
  <2>3. QED
    BY <1>1, <2>1, <2>2 DEF NumberKey
<1>5. number \in Keys
  <2>1. <<>> \in Seq(Int) /\ <<0, n>> \in Seq(Int)
    BY <1>3
  <2>2. QED
    BY <1>4, <2>1 DEF Keys
<1>6. Behind(s) = number \o after
  BY DEF Behind
<1> HIDE DEF text, number, after, n
<1>7. PolicyKey(s) = text \o Behind(s) /\ Behind(s) \in Keys
  <2>1. Associate(text, number, after)
    BY <1>2, <1>3, <1>5, ConcatThree DEF Keys
  <2>2. Behind(s) \in Keys
    BY <1>3, <1>5, <1>6, ConcatKeys
  <2>3. QED
    BY <1>1, <1>6, <2>1, <2>2 DEF Associate
<1>8. /\ At(Behind(s), 1) = 0 /\ At(Rest(Behind(s)), 1) = n
      /\ Rest(Rest(Behind(s))) = after /\ Rest(Behind(s)) \in Keys
  <2>1. CASE numberOf(s) = <<>>
    <3>1. Behind(s) = <<>>
      <4>1. <<>> \o <<>> = <<>>
        OBVIOUS
      <4>2. QED
        BY <1>4, <1>6, <2>1, <4>1
    <3>2. Rest(<<>>) = <<>> /\ At(<<>>, 1) = 0 /\ <<>> \in Keys
      BY DEF Rest, At, Keys
    <3>3. QED
      BY <1>4, <2>1, <3>1, <3>2
  <2>2. CASE numberOf(s) # <<>>
    <3> DEFINE b == <<0, n>> \o after
               t == <<n>> \o after
    <3>1. Behind(s) = b
      BY <1>4, <1>6, <2>2
    <3>2. /\ after \in Seq(Int) /\ n \in Int /\ Len(after) \in Nat
      BY <1>3 DEF Keys
    <3>3. /\ b \in Keys /\ Len(b) = 2 + Len(after) /\ b # <<>>
          /\ b[1] = 0 /\ b[2] = n
          /\ \A i \in 1 .. Len(after) : b[2 + i] = after[i]
      BY <3>2 DEF Keys
    <3>4. /\ t \in Keys /\ Len(t) = 1 + Len(after) /\ t # <<>>
          /\ t[1] = n
          /\ \A i \in 1 .. Len(after) : t[1 + i] = after[i]
      BY <3>2 DEF Keys
    <3> HIDE DEF b, t
    <3>5. Rest(b) = t
      <4>1. /\ Rest(b) = Tail(b) /\ Tail(b) \in Seq(Int) /\ Len(Tail(b)) = Len(b) - 1
            /\ \A i \in 1 .. Len(b) - 1 : Tail(b)[i] = b[i + 1]
        BY <3>3 DEF Rest, Keys
      <4>2. Len(Tail(b)) = Len(t)
        BY <3>2, <3>3, <3>4, <4>1
      <4>3. ASSUME NEW i \in 1 .. Len(Tail(b)) PROVE Tail(b)[i] = t[i]
        <5>1. Tail(b)[i] = b[i + 1]
          BY <4>1
        <5>2. CASE i = 1
          BY <3>3, <3>4, <5>1, <5>2
        <5>3. CASE i # 1
          <6>1. PICK j \in 1 .. Len(after) : i = 1 + j
            <7>1. i - 1 \in 1 .. Len(after) /\ i = 1 + (i - 1)
              BY <3>2, <3>4, <4>2, <5>3
            <7>2. QED
              BY <7>1
          <6>2. i + 1 = 2 + j
            BY <6>1
          <6>3. b[i + 1] = after[j] /\ t[i] = after[j]
            BY <3>3, <3>4, <6>1, <6>2
          <6>4. QED
            BY <5>1, <6>3
        <5>4. QED
          BY <5>2, <5>3
      <4>4. t \in Seq(Int)
        BY <3>4 DEF Keys
      <4>5. QED
        BY <4>1, <4>2, <4>3, <4>4, SeqEqual
    <3>6. Rest(t) = after
      <4>1. /\ Rest(t) = Tail(t) /\ Tail(t) \in Seq(Int) /\ Len(Tail(t)) = Len(t) - 1
            /\ \A i \in 1 .. Len(t) - 1 : Tail(t)[i] = t[i + 1]
        BY <3>4 DEF Rest, Keys
      <4>2. Len(Tail(t)) = Len(after)
        BY <3>2, <3>4, <4>1
      <4>3. ASSUME NEW i \in 1 .. Len(Tail(t)) PROVE Tail(t)[i] = after[i]
        <5>1. i \in 1 .. Len(t) - 1 /\ i \in 1 .. Len(after) /\ i + 1 = 1 + i
          BY <4>1, <4>2
        <5>2. QED
          BY <3>4, <4>1, <5>1
      <4>4. QED
        BY <3>2, <4>1, <4>2, <4>3, SeqEqual
    <3>7. At(b, 1) = 0 /\ At(t, 1) = n
      <4>1. 1 \in 1 .. Len(b) /\ 1 \in 1 .. Len(t)
        BY <3>2, <3>3, <3>4
      <4>2. QED
        BY <3>3, <3>4, <4>1, AtOf
    <3>8. QED
      BY <3>1, <3>4, <3>5, <3>6, <3>7
  <2>3. QED
    BY <2>1, <2>2
<1>9. QED
  BY <1>2, <1>3, <1>7, <1>8 DEF text, after, n

\* compareVersionPart is the order of the keys.
LEMMA PartOrder ==
  ASSUME NEW a \in Plain, NEW b \in Plain
  PROVE  compareVersionPart[<<a, b>>] = FirstDifference(PolicyKey(a), PolicyKey(b))
<1> DEFINE next  == [s \in Plain |-> afterOf(s)]
           size  == [s \in Plain |-> Len(s)]
           head  == [p \in Plain \X Plain |-> ByPart[p]]
           one   == compareVersionPart
           other == [p \in Plain \X Plain |-> FirstDifference(PolicyKey(p[1]), PolicyKey(p[2]))]
           end   == <<>>
           S     == Plain
<1>1. ASSUME NEW s \in Plain
      PROVE  /\ s \in Strings /\ afterOf(s) \in Plain /\ Len(s) \in Nat
             /\ s # <<>> => Len(afterOf(s)) < Len(s)
             /\ s = <<>> => afterOf(s) = <<>>
  <2>1. s \in Strings
    BY RanksOf
  <2>2. QED
    BY <2>1, KeyParts, PartOf DEF Strings
<1>2. end \in S /\ next \in [S -> S] /\ size \in [S -> Nat]
  <2>1. <<>> \in Plain
    BY DEF Plain
  <2>2. QED
    BY <1>1, <2>1
<1>3. Ends(next, size, S, end)
  BY <1>1, <1>2 DEF Ends
<1>4. \A u, v \in Plain : /\ other[<<u, v>>] = FirstDifference(PolicyKey(u), PolicyKey(v))
                          /\ head[<<u, v>>] = ByPart[<<u, v>>]
  OBVIOUS
<1>5. one[<<end, end>>] = other[<<end, end>>]
  <2>1. end \in Strings
    BY <1>1, <1>2
  <2>2. one[<<end, end>>] = 0
    BY <2>1, PartStep
  <2>3. PolicyKey(<<>>) = <<>>
    BY <2>1, KeyOf
  <2>4. FirstDifference(<<>>, <<>>) = 0
    <3>1. <<>> \in Keys
      BY DEF Keys
    <3>2. QED
      BY <3>1, DiffersNowhere
  <2>5. QED
    BY <1>2, <1>4, <2>2, <2>3, <2>4
<1>6. ASSUME NEW u \in Plain, NEW v \in Plain
      PROVE  FirstDifference(PolicyKey(u), PolicyKey(v)) =
               Lex(ByPart[<<u, v>>],
                   FirstDifference(PolicyKey(afterOf(u)), PolicyKey(afterOf(v))))
  <2>1. /\ PolicyKey(u) = Ranks(textOf(u)) \o Behind(u)
        /\ Ranks(textOf(u)) \in Keys /\ Behind(u) \in Keys /\ Rest(Behind(u)) \in Keys
        /\ At(Behind(u), 1) = 0
        /\ At(Rest(Behind(u)), 1) = Decimal(numberOf(u))
        /\ Rest(Rest(Behind(u))) = PolicyKey(afterOf(u))
    BY BehindIs
  <2>2. /\ PolicyKey(v) = Ranks(textOf(v)) \o Behind(v)
        /\ Ranks(textOf(v)) \in Keys /\ Behind(v) \in Keys /\ Rest(Behind(v)) \in Keys
        /\ At(Behind(v), 1) = 0
        /\ At(Rest(Behind(v)), 1) = Decimal(numberOf(v))
        /\ Rest(Rest(Behind(v))) = PolicyKey(afterOf(v))
    BY BehindIs
  <2>3. /\ textOf(u) \in Plain /\ textOf(v) \in Plain
        /\ numberOf(u) \in Numerals /\ numberOf(v) \in Numerals
    BY KeyParts
  <2>4. /\ \A i \in 1 .. Len(Ranks(textOf(u))) : Ranks(textOf(u))[i] # 0
        /\ \A i \in 1 .. Len(Ranks(textOf(v))) : Ranks(textOf(v))[i] # 0
    BY <2>3, RanksOf
  <2>5. FirstDifference(PolicyKey(u), PolicyKey(v)) =
          Lex(FirstDifference(Ranks(textOf(u)), Ranks(textOf(v))),
              FirstDifference(Behind(u), Behind(v)))
    BY <2>1, <2>2, <2>4, TextsDecide
  <2>6. FirstDifference(Behind(u), Behind(v)) =
          Lex(Sign(At(Behind(u), 1), At(Behind(v), 1)),
              FirstDifference(Rest(Behind(u)), Rest(Behind(v))))
    BY <2>1, <2>2, DifferenceStep
  <2>7. FirstDifference(Rest(Behind(u)), Rest(Behind(v))) =
          Lex(Sign(Decimal(numberOf(u)), Decimal(numberOf(v))),
              FirstDifference(PolicyKey(afterOf(u)), PolicyKey(afterOf(v))))
    <3>1. FirstDifference(Rest(Behind(u)), Rest(Behind(v))) =
            Lex(Sign(At(Rest(Behind(u)), 1), At(Rest(Behind(v)), 1)),
                FirstDifference(Rest(Rest(Behind(u))), Rest(Rest(Behind(v)))))
      BY <2>1, <2>2, DifferenceStep
    <3>2. QED
      BY <2>1, <2>2, <3>1
  <2>8. compareNonDigit[<<textOf(u), textOf(v)>>] =
          FirstDifference(Ranks(textOf(u)), Ranks(textOf(v)))
    BY <2>3, TextOrder
  <2>9. compareDigit(numberOf(u), numberOf(v)) =
          Sign(Decimal(numberOf(u)), Decimal(numberOf(v)))
    BY <2>3, NumberOrder
  <2>10. ByPart[<<u, v>>] = Lex(compareNonDigit[<<textOf(u), textOf(v)>>],
                                compareDigit(numberOf(u), numberOf(v)))
    <3>1. u \in Strings /\ v \in Strings
      BY <1>1
    <3>2. QED
      BY <3>1, PartStep
  <2>11. Sign(0, 0) = 0
    BY DEF Sign
  <2>12. QED
    BY <2>1, <2>2, <2>5, <2>6, <2>7, <2>8, <2>9, <2>10, <2>11 DEF Lex
<1>7. IsPairLoop(other, S, end, head, next)
  <2> SUFFICES ASSUME NEW u \in Plain, NEW v \in Plain
               PROVE  other[<<u, v>>] = Lex(head[<<u, v>>], other[<<next[u], next[v]>>])
    BY DEF IsPairLoop
  <2>1. next[u] = afterOf(u) /\ next[v] = afterOf(v) /\ afterOf(u) \in Plain /\ afterOf(v) \in Plain
    BY <1>1
  <2> HIDE DEF other, head, next
  <2>2. other[<<afterOf(u), afterOf(v)>>] =
          FirstDifference(PolicyKey(afterOf(u)), PolicyKey(afterOf(v)))
    BY <1>4, <2>1
  <2>3. QED
    BY <1>4, <1>6, <2>1, <2>2
<1>8. IsPairLoop(one, S, end, head, next)
  <2> SUFFICES ASSUME NEW u \in Plain, NEW v \in Plain, ~(u = <<>> /\ v = <<>>)
               PROVE  one[<<u, v>>] = Lex(head[<<u, v>>], one[<<next[u], next[v]>>])
    BY DEF IsPairLoop
  <2>1. next[u] = afterOf(u) /\ next[v] = afterOf(v) /\ u \in Strings /\ v \in Strings
    BY <1>1
  <2>2. one[<<u, v>>] = Lex(ByPart[<<u, v>>], one[<<afterOf(u), afterOf(v)>>])
    BY <2>1, PartStep
  <2> HIDE DEF head, next, one
  <2>3. QED
    BY <1>4, <2>1, <2>2
<1> HIDE DEF next, size, head, one, other, end, S
<1>9. Alike(one, other, S)
  BY <1>2, <1>3, <1>5, <1>7, <1>8, LoopsAgree
<1>10. one[<<a, b>>] = other[<<a, b>>]
  BY <1>9 DEF Alike, S
<1>11. QED
  BY <1>4, <1>10 DEF one

----------------------------------------------------------------------------
(* Epoch, version and revision *)

\* The least of a set of naturals.
LEMMA LeastOf ==
  ASSUME NEW I \in SUBSET Nat, I # {}
  PROVE  Min(I) \in I /\ \A i \in I : Min(I) <= i
BY LeastNatural DEF Min

\* The greatest of a finite set of naturals.
LEMMA GreatestOf ==
  ASSUME NEW N \in Nat, NEW I \in SUBSET (1 .. N), I # {}
  PROVE  Max(I) \in I /\ \A i \in I : i <= Max(I)
<1>1. PICK m \in I : \A i \in I : m >= i
  <2>1. \A i \in I : i \in 1 .. N
    OBVIOUS
  <2>2. QED
    BY <2>1, GreatestBounded
<1>2. PICK x : x = Max(I)
  OBVIOUS
<1>3. x \in I /\ \A i \in I : x >= i
  BY <1>1, <1>2 DEF Max
<1>4. \A i \in I : i <= x
  <2>1. \A i \in I : i \in Int
    OBVIOUS
  <2>2. QED
    BY <1>3, <2>1
<1>5. QED
  BY <1>2, <1>3, <1>4

\* Where splitVersion cuts: strings.Index and strings.LastIndex, 0 where there is none.
FirstColon(s) == SelectInSeq(s, LAMBDA r : r = Colon)
LastHyphen(s) == SelectLastInSeq(s, LAMBDA r : r = Hyphen)

\* The first colon is the least of their positions.
LEMMA FirstColonIs ==
  ASSUME NEW s \in Strings
  PROVE  /\ Positions(s, Colon) \in SUBSET (1 .. Len(s))
         /\ Positions(s, Colon) = {} => FirstColon(s) = 0
         /\ Positions(s, Colon) # {} => /\ FirstColon(s) = Min(Positions(s, Colon))
                                        /\ FirstColon(s) \in 1 .. Len(s)
<1> DEFINE I == {i \in 1 .. Len(s) : s[i] = Colon}
<1>1. DOMAIN s = 1 .. Len(s) /\ Len(s) \in Nat
  BY DEF Strings
<1>2. Positions(s, Colon) = I
  BY <1>1 DEF Positions
<1>3. FirstColon(s) = IF I # {} THEN Min(I) ELSE 0
  BY DEF FirstColon, SelectInSeq
<1>4. I \in SUBSET (1 .. Len(s)) /\ I \in SUBSET Nat
  OBVIOUS
<1> HIDE DEF I
<1>5. I # {} => Min(I) \in I
  BY <1>4, LeastOf
<1>6. QED
  BY <1>2, <1>3, <1>4, <1>5

\* The last hyphen is the greatest of their positions.
LEMMA LastHyphenIs ==
  ASSUME NEW s \in Strings
  PROVE  /\ Positions(s, Hyphen) \in SUBSET (1 .. Len(s))
         /\ Positions(s, Hyphen) = {} => LastHyphen(s) = 0
         /\ Positions(s, Hyphen) # {} =>
              /\ LastHyphen(s) \in Positions(s, Hyphen)
              /\ LastHyphen(s) \in 1 .. Len(s)
              /\ \A i \in Positions(s, Hyphen) : i <= LastHyphen(s)
<1> DEFINE I == {i \in 1 .. Len(s) : s[i] = Hyphen}
<1>1. DOMAIN s = 1 .. Len(s) /\ Len(s) \in Nat
  BY DEF Strings
<1>2. Positions(s, Hyphen) = I
  BY <1>1 DEF Positions
<1>3. LastHyphen(s) = IF I # {} THEN Max(I) ELSE 0
  BY DEF LastHyphen, SelectLastInSeq
<1>4. I \in SUBSET (1 .. Len(s))
  OBVIOUS
<1> HIDE DEF I
<1>5. I # {} => Max(I) \in I /\ \A i \in I : i <= Max(I)
  BY <1>1, <1>4, GreatestOf
<1>6. QED
  BY <1>2, <1>3, <1>4, <1>5

\* The epoch is the value of a number that fits.
LEMMA EpochOfNumber ==
  ASSUME NEW s \in Strings, Fits(s, Largest)
  PROVE  epochOf(s) = Decimal(s)
<1>1. s # <<>> /\ s[1] \in Digits
  <2>1. s # <<>> /\ \A i \in DOMAIN s : s[i] \in Digits
    BY DEF Fits, AllDigits, IsDigit
  <2>2. 1 \in DOMAIN s
    BY <2>1 DEF Strings
  <2>3. QED
    BY <2>1, <2>2
<1>2. nextRune(s) = s[1]
  BY <1>1 DEF nextRune, Strings
<1>3. s[1] # Plus /\ s[1] # Hyphen
  BY <1>1 DEF Digits, Plus, Hyphen
<1>4. QED
  BY <1>2, <1>3 DEF epochOf, AtoiErr, AtoiParsed, Unsigned

\* Where there is no revision the code compares a 0.
LEMMA KeyOfZero ==
  /\ <<Zero>> \in Plain
  /\ \A i \in Nat : At(PolicyKey(<<Zero>>), i) = 0
<1> DEFINE s == <<Zero>>
<1>1. /\ s \in Plain /\ Len(s) = 1 /\ s[1] = Zero /\ DOMAIN s = 1 .. 1
  BY DEF Plain, Zero, Runes
<1>2. s \in Strings
  BY <1>1, RanksOf
<1> HIDE DEF s
<1>3. SubSeq(s, 1, 1) = s
  BY <1>1, <1>2, SubSeqFull DEF Strings
<1>4. Decimal(s) = 0
  <2>1. PICK v \in [0 .. 1 -> Int] :
          /\ v[0] = 0
          /\ \A n \in 1 .. 1 : v[n] = 10 * v[n - 1] + s[n] - Zero
          /\ Decimal(s) = v[1]
    BY <1>1, <1>2, DecimalIs
  <2>2. v[1] = 10 * v[1 - 1] + s[1] - Zero
    BY <2>1
  <2>3. 1 - 1 = 0
    OBVIOUS
  <2>4. v[1] = 10 * 0 + 48 - 48
    BY <1>1, <2>1, <2>2, <2>3 DEF Zero
  <2>5. QED
    BY <2>1, <2>4
<1>5. Piece(s, 1) = <<0, 0>>
  <2>1. RunEnd(s, 1, 1)
    BY <1>1 DEF RunEnd, IsDigit, Digits, Zero
  <2>2. Piece(s, 1) = <<0, Decimal(SubSeq(s, 1, 1))>>
    BY <1>1, <2>1, NumberPiece
  <2>3. QED
    BY <1>3, <1>4, <2>2
<1>6. PolicyKey(s) = <<0, 0>>
  <2> DEFINE seqs == [i \in DOMAIN s |-> Piece(s, i)]
             M == 1
  <2>1. PolicyKey(s) = FlattenSeq(seqs)
    BY PolicyKeyIs
  <2>2. seqs[1] = <<0, 0>>
    BY <1>1, <1>5
  <2>3. seqs \in [1 .. M -> Seq(Int)]
    <3>1. DOMAIN seqs = 1 .. 1 /\ seqs = [i \in 1 .. 1 |-> seqs[i]]
      BY <1>1
    <3>2. \A i \in 1 .. 1 : seqs[i] \in Seq(Int)
      <4>1. \A i \in 1 .. 1 : i = 1
        OBVIOUS
      <4>2. <<0, 0>> \in Seq(Int)
        OBVIOUS
      <4> HIDE DEF seqs
      <4>3. QED
        BY <2>2, <4>1, <4>2
    <3> HIDE DEF seqs
    <3>3. QED
      BY <3>1, <3>2
  <2>4. M \in Nat
    OBVIOUS
  <2> HIDE DEF seqs, M
  <2>5. \E g \in [0 .. M -> Seq(Int)] :
          /\ g[0] = <<>>
          /\ \A n \in 1 .. M : g[n] = g[n - 1] \o seqs[n]
          /\ FlattenSeq(seqs) = g[M]
    BY <2>3, <2>4, FlattenIs, ZenonT(60)
  <2>6. PICK g \in [0 .. M -> Seq(Int)] :
          /\ g[0] = <<>>
          /\ \A n \in 1 .. M : g[n] = g[n - 1] \o seqs[n]
          /\ FlattenSeq(seqs) = g[M]
    BY <2>5
  <2>7. g[1] = g[1 - 1] \o seqs[1] /\ FlattenSeq(seqs) = g[1]
    BY <2>6 DEF M
  <2>8. 1 - 1 = 0 /\ <<>> \o <<0, 0>> = <<0, 0>>
    OBVIOUS
  <2>9. QED
    BY <2>1, <2>2, <2>6, <2>7, <2>8
<1>7. \A i \in Nat : At(<<0, 0>>, i) = 0
  BY DEF At
<1>8. QED
  BY <1>1, <1>6, <1>7 DEF s

\* The parts the code compares have the keys of the reference.
LEMMA SplitIs ==
  ASSUME NEW s \in Strings, HasPolicyForm(s)
  PROVE  LET split == splitVersion(s)
             parts == PolicyParts(s)
         IN  /\ split.epoch \in Int /\ split.version \in Plain /\ split.revision \in Plain
             /\ parts[1] = <<split.epoch>>
             /\ parts[2] = PolicyKey(split.version)
             /\ parts[3] \in Keys
             /\ \A i \in Nat : At(parts[3], i) = At(PolicyKey(split.revision), i)
<1> DEFINE N == Len(s)
           R == Runes \ {0}
           colon == FirstColon(s)
           rest == SubSeq(s, colon + 1, N)
           hyphen == LastHyphen(rest)
           start == colon + 1
           hyphens == {i \in Positions(s, Hyphen) : i >= start}
           end == IF hyphens = {} THEN N + 1 ELSE Max(hyphens)
<1>1. N \in Nat /\ DOMAIN s = 1 .. N /\ s \in Seq(Runes)
  BY DEF Strings
<1>2. s \in Seq(R)
  <2>1. \A i \in 1 .. N : s[i] \in R
    <3>1. \A i \in 1 .. N : s[i] # 0
      BY <1>1 DEF HasPolicyForm, Positions
    <3>2. QED
      BY <1>1, <3>1
  <2>2. s = [i \in 1 .. N |-> s[i]]
    BY <1>1
  <2> HIDE DEF R, N
  <2>3. QED
    BY <1>1, <2>1, <2>2
<1> HIDE DEF R
<1>3. colon \in 0 .. N
  BY <1>1, FirstColonIs
<1>4. /\ splitVersion(s).epoch = IF colon = 0 THEN 0 ELSE epochOf(SubSeq(s, 1, colon - 1))
      /\ splitVersion(s).version = IF hyphen = 0 THEN rest ELSE SubSeq(rest, 1, hyphen - 1)
      /\ splitVersion(s).revision = IF hyphen = 0 THEN <<Zero>>
                                    ELSE SubSeq(rest, hyphen + 1, Len(rest))
  BY DEF splitVersion, FirstColon, LastHyphen
<1>5. /\ PolicyParts(s)[1] = <<Decimal(SubSeq(s, 1, start - 2))>>
      /\ PolicyParts(s)[2] = PolicyKey(SubSeq(s, start, end - 1))
      /\ PolicyParts(s)[3] = PolicyKey(SubSeq(s, end + 1, N))
  <2> DEFINE from == IF Positions(s, Colon) = {} THEN 1 ELSE Min(Positions(s, Colon)) + 1
             after == {i \in Positions(s, Hyphen) : i >= from}
             stop == IF after = {} THEN N + 1 ELSE Max(after)
             x == <<Decimal(SubSeq(s, 1, from - 2))>>
             y == PolicyKey(SubSeq(s, from, stop - 1))
             z == PolicyKey(SubSeq(s, stop + 1, N))
  <2>1. PolicyParts(s) = <<x, y, z>>
    BY DEF PolicyParts
  <2>2. from = start
    BY FirstColonIs
  <2>3. PolicyParts(s)[1] = x /\ PolicyParts(s)[2] = y /\ PolicyParts(s)[3] = z
    <3> HIDE DEF x, y, z
    <3>1. QED
      BY <2>1
  <2> HIDE DEF from, start
  <2>4. QED
    BY <2>2, <2>3
<1> HIDE DEF colon
<1>6. /\ start \in Nat /\ start >= 1 /\ start <= N + 1 /\ N - start + 1 = N - colon
      /\ N - colon \in Nat
  BY <1>1, <1>3
<1>7. /\ rest \in Seq(R) /\ rest \in Strings /\ Len(rest) = N - colon
      /\ \A i \in 1 .. N - colon : rest[i] = s[start + i - 1]
  <2>1. N <= Len(s)
    BY <1>1
  <2>2. rest = SubSeq(s, start, N)
    OBVIOUS
  <2> HIDE DEF start, rest, N
  <2>3. /\ SubSeq(s, start, N) \in Seq(R) /\ SubSeq(s, start, N) \in Seq(Runes)
        /\ Len(SubSeq(s, start, N)) = N - start + 1
        /\ \A i \in 1 .. N - start + 1 : SubSeq(s, start, N)[i] = s[start + i - 1]
    BY <1>1, <1>2, <1>6, <2>1, PieceOf
  <2>4. QED
    BY <1>6, <2>2, <2>3 DEF Strings
<1>8. \A i \in 1 .. N - colon : rest[i] = s[colon + i] /\ colon + i \in 1 .. N
  <2>1. \A i \in 1 .. N - colon : start + i - 1 = colon + i /\ colon + i \in 1 .. N
    BY <1>1, <1>3
  <2>2. QED
    BY <1>7, <2>1
<1> HIDE DEF rest
<1>9. /\ Positions(rest, Hyphen) \in SUBSET (1 .. N - colon)
      /\ Positions(rest, Hyphen) = {} => hyphen = 0
      /\ Positions(rest, Hyphen) # {} =>
           /\ hyphen \in Positions(rest, Hyphen)
           /\ hyphen \in 1 .. N - colon
           /\ \A i \in Positions(rest, Hyphen) : i <= hyphen
  BY <1>7, LastHyphenIs
<1> HIDE DEF hyphen
<1>10. \A i \in 1 .. N - colon : i \in Positions(rest, Hyphen) <=> colon + i \in hyphens
  <2>1. DOMAIN rest = 1 .. N - colon
    BY <1>7
  <2>2. ASSUME NEW i \in 1 .. N - colon
        PROVE  i \in Positions(rest, Hyphen) <=> colon + i \in hyphens
    <3>1. colon + i >= start
      BY <1>3
    <3>2. i \in Positions(rest, Hyphen) <=> rest[i] = Hyphen
      BY <2>1 DEF Positions
    <3>3. colon + i \in Positions(s, Hyphen) <=> s[colon + i] = Hyphen
      BY <1>1, <1>8 DEF Positions
    <3>4. QED
      BY <1>8, <3>1, <3>2, <3>3
  <2>3. QED
    BY <2>2
<1>11. ASSUME NEW j \in hyphens
       PROVE  j - colon \in Positions(rest, Hyphen) /\ j - colon \in 1 .. N - colon /\ j \in 1 .. N
  <2>1. j \in 1 .. N /\ j >= start
    BY <1>1 DEF Positions
  <2>2. j - colon \in 1 .. N - colon /\ colon + (j - colon) = j
    BY <1>1, <1>3, <2>1
  <2>3. QED
    BY <1>10, <2>1, <2>2
<1>12. end = IF hyphen = 0 THEN N + 1 ELSE colon + hyphen
  <2>1. CASE hyphens = {}
    <3>1. Positions(rest, Hyphen) = {}
      BY <1>9, <1>10, <2>1
    <3>2. QED
      BY <1>9, <2>1, <3>1
  <2>2. CASE hyphens # {}
    <3>1. PICK m : m = Max(hyphens)
      OBVIOUS
    <3>2. m \in hyphens /\ \A i \in hyphens : i <= m
      <4>1. hyphens \in SUBSET (1 .. N)
        BY <1>11
      <4> HIDE DEF hyphens
      <4>2. QED
        BY <1>1, <2>2, <3>1, <4>1, GreatestOf
    <3>3. end = m
      BY <2>2, <3>1
    <3>4. /\ m - colon \in Positions(rest, Hyphen) /\ m - colon \in 1 .. N - colon
          /\ m \in 1 .. N
      BY <1>11, <3>2
    <3>5. /\ hyphen \in Positions(rest, Hyphen) /\ hyphen \in 1 .. N - colon
          /\ m - colon <= hyphen
      BY <1>9, <3>4
    <3>6. colon + hyphen <= m
      BY <1>10, <3>2, <3>5
    <3> HIDE DEF end, hyphens, N
    <3>7. m = colon + hyphen /\ hyphen # 0
      BY <1>1, <1>3, <3>4, <3>5, <3>6
    <3>8. QED
      BY <3>3, <3>7
  <2>3. QED
    BY <2>1, <2>2
<1> HIDE DEF end, hyphens
<1>13. hyphen = 0 \/ hyphen \in 1 .. N - colon
  BY <1>9
<1>14. /\ splitVersion(s).version = SubSeq(s, start, end - 1)
       /\ splitVersion(s).version \in Plain
  <2>1. CASE hyphen = 0
    <3>1. end - 1 = N
      BY <1>1, <1>12, <2>1
    <3>2. splitVersion(s).version = rest
      BY <1>4, <2>1
    <3>3. rest = SubSeq(s, start, N)
      BY DEF rest
    <3>4. rest \in Plain
      BY <1>7 DEF Plain, R
    <3>5. QED
      BY <3>1, <3>2, <3>3, <3>4
  <2>2. CASE hyphen # 0
    <3> DEFINE n == hyphen - 1
    <3>1. n \in Nat /\ n <= N - start + 1 /\ 1 <= n + 1 /\ 1 \in Nat
      BY <1>6, <1>13, <2>2
    <3>2. start + 1 - 1 = start /\ start + n - 1 = end - 1
      BY <1>3, <1>12, <1>13, <2>2
    <3>3. splitVersion(s).version = SubSeq(rest, 1, n)
      BY <1>4, <2>2
    <3>4. rest = SubSeq(s, start, N)
      BY DEF rest
    <3>5. N <= Len(s)
      BY <1>1
    <3> HIDE DEF n, N, start
    <3>6. SubSeq(SubSeq(s, start, N), 1, n) = SubSeq(s, start + 1 - 1, start + n - 1)
      BY <1>1, <1>6, <3>1, <3>5, PieceOfPiece
    <3>7. SubSeq(rest, 1, n) \in Seq(R)
      <4>1. n <= Len(rest)
        BY <1>6, <1>7, <3>1
      <4> DEFINE m == 1
      <4>2. m \in Nat /\ m >= 1 /\ m <= n + 1
        BY <3>1
      <4> HIDE DEF m
      <4>3. SubSeq(rest, m, n) \in Seq(R)
        BY <1>7, <3>1, <4>1, <4>2, PieceOf
      <4>4. QED
        BY <4>3 DEF m
    <3>8. QED
      BY <3>2, <3>3, <3>4, <3>6, <3>7 DEF Plain, R
  <2>3. QED
    BY <2>1, <2>2
<1>15. /\ splitVersion(s).revision \in Plain
       /\ PolicyParts(s)[3] \in Keys
       /\ \A i \in Nat :
            At(PolicyParts(s)[3], i) = At(PolicyKey(splitVersion(s).revision), i)
  <2>1. CASE hyphen = 0
    <3>1. SubSeq(s, end + 1, N) = <<>>
      <4>1. end + 1 \in Int /\ N \in Int /\ N < end + 1
        BY <1>1, <1>12, <2>1
      <4> HIDE DEF N
      <4>2. QED
        BY <4>1, SubSeqEmpty
    <3>2. PolicyParts(s)[3] = <<>>
      BY <1>5, <3>1, KeyOf
    <3>3. splitVersion(s).revision = <<Zero>>
      BY <1>4, <2>1
    <3>4. <<>> \in Keys /\ \A i \in Nat : At(<<>>, i) = 0
      BY DEF Keys, At
    <3>5. QED
      BY <3>2, <3>3, <3>4, KeyOfZero
  <2>2. CASE hyphen # 0
    <3> DEFINE m == hyphen + 1
               n == N - colon
    <3>1. m \in Nat /\ m >= 1 /\ n \in Nat /\ n <= N - start + 1 /\ m <= n + 1
      BY <1>6, <1>13, <2>2
    <3>2. start + m - 1 = end + 1 /\ start + n - 1 = N
      BY <1>1, <1>3, <1>12, <1>13, <2>2
    <3>3. splitVersion(s).revision = SubSeq(rest, m, n)
      BY <1>4, <1>7, <2>2
    <3>4. rest = SubSeq(s, start, N)
      BY DEF rest
    <3>5. N <= Len(s) /\ n = Len(rest)
      BY <1>1, <1>7
    <3> HIDE DEF m, n, N, start
    <3>6. SubSeq(SubSeq(s, start, N), m, n) = SubSeq(s, start + m - 1, start + n - 1)
      BY <1>1, <1>6, <3>1, <3>5, PieceOfPiece
    <3>7. SubSeq(rest, m, n) \in Seq(R)
      <4>1. n <= Len(rest)
        BY <3>1, <3>5
      <4>2. QED
        BY <1>7, <3>1, <4>1, PieceOf
    <3>8. splitVersion(s).revision \in Plain
      BY <3>3, <3>7 DEF Plain, R
    <3>9. PolicyParts(s)[3] = PolicyKey(splitVersion(s).revision)
      BY <1>5, <3>2, <3>3, <3>4, <3>6
    <3>10. PolicyKey(splitVersion(s).revision) \in Keys
      BY <3>8, RanksOf, KeyOf
    <3>11. QED
      BY <3>8, <3>9, <3>10
  <2>3. QED
    BY <2>1, <2>2
<1>16. splitVersion(s).epoch \in Int /\ PolicyParts(s)[1] = <<splitVersion(s).epoch>>
  <2>1. start - 2 = colon - 1
    BY <1>3
  <2>2. CASE colon = 0
    <3>1. SubSeq(s, 1, colon - 1) = <<>>
      <4>1. 1 \in Int /\ -1 \in Int /\ -1 < 1 /\ colon - 1 = -1
        BY <2>2
      <4>2. QED
        BY <4>1, SubSeqEmpty
    <3>2. Decimal(<<>>) = 0
      <4>1. <<>> \in Strings /\ Len(<<>>) = 0
        BY DEF Strings
      <4>2. QED
        BY <4>1, DecimalIs
    <3>3. splitVersion(s).epoch = 0
      BY <1>4, <2>2
    <3>4. PolicyParts(s)[1] = <<Decimal(<<>>)>>
      <4>1. SubSeq(s, 1, start - 2) = <<>>
        BY <2>1, <3>1
      <4>2. QED
        BY <1>5, <4>1
    <3>5. QED
      BY <3>2, <3>3, <3>4
  <2>3. CASE colon # 0
    <3> DEFINE e == SubSeq(s, 1, colon - 1)
    <3>1. Fits(e, Largest)
      <4>1. Positions(s, Colon) # {} /\ colon = Min(Positions(s, Colon))
        BY <2>3, FirstColonIs DEF colon
      <4>2. QED
        BY <4>1 DEF HasPolicyForm
    <3>2. e \in Strings
      <4> DEFINE one == 1
                 last == colon - 1
      <4>1. one \in Nat /\ last \in Nat /\ one >= 1 /\ last <= N /\ one <= last + 1
        BY <1>1, <1>3, <2>3
      <4>2. e = SubSeq(s, one, last)
        OBVIOUS
      <4> HIDE DEF one, last, e
      <4>3. SubSeq(s, one, last) \in Seq(Runes)
        BY <1>1, <4>1, PieceOf
      <4>4. QED
        BY <4>2, <4>3 DEF Strings
    <3> HIDE DEF e
    <3>3. epochOf(e) = Decimal(e) /\ Decimal(e) \in Int
      BY <3>1, <3>2, EpochOfNumber, DecimalIsInt
    <3>4. splitVersion(s).epoch = epochOf(e) /\ PolicyParts(s)[1] = <<Decimal(e)>>
      BY <1>4, <1>5, <2>1, <2>3 DEF e
    <3>5. QED
      BY <3>3, <3>4
  <2>4. QED
    BY <2>2, <2>3
<1>17. PolicyParts(s)[2] = PolicyKey(splitVersion(s).version)
  BY <1>5, <1>14
<1>18. QED
  BY <1>14, <1>15, <1>16, <1>17

\* CompareVersions is the order of the Debian policy, of all versions that have
\* its form: an epoch is a number that fits, no character is NUL.
THEOREM PolicyFollowed ==
  ASSUME NEW left \in Seq(Runes), NEW right \in Seq(Runes),
         HasPolicyForm(left), HasPolicyForm(right)
  PROVE  CompareVersions(left, right) = PolicyOrder(left, right)
<1> DEFINE l == splitVersion(left)
           r == splitVersion(right)
           x == PolicyParts(left)
           y == PolicyParts(right)
           f(i) == FirstDifference(x[i], y[i])
<1>1. /\ l.epoch \in Int /\ l.version \in Plain /\ l.revision \in Plain
      /\ x[1] = <<l.epoch>> /\ x[2] = PolicyKey(l.version) /\ x[3] \in Keys
      /\ \A i \in Nat : At(x[3], i) = At(PolicyKey(l.revision), i)
  <2>1. left \in Strings
    BY DEF Strings
  <2>2. QED
    BY <2>1, SplitIs
<1>2. /\ r.epoch \in Int /\ r.version \in Plain /\ r.revision \in Plain
      /\ y[1] = <<r.epoch>> /\ y[2] = PolicyKey(r.version) /\ y[3] \in Keys
      /\ \A i \in Nat : At(y[3], i) = At(PolicyKey(r.revision), i)
  <2>1. right \in Strings
    BY DEF Strings
  <2>2. QED
    BY <2>1, SplitIs
<1>3. CompareVersions(left, right) =
        Lex(IF l.epoch # r.epoch THEN Sign(l.epoch, r.epoch) ELSE 0,
            Lex(compareVersionPart[<<l.version, r.version>>],
                compareVersionPart[<<l.revision, r.revision>>]))
  <2>1. CompareVersions(left, right) =
          IF l.epoch # r.epoch THEN Sign(l.epoch, r.epoch)
          ELSE IF compareVersionPart[<<l.version, r.version>>] # 0
               THEN compareVersionPart[<<l.version, r.version>>]
               ELSE compareVersionPart[<<l.revision, r.revision>>]
    BY DEF CompareVersions
  <2>2. l.epoch # r.epoch => Sign(l.epoch, r.epoch) # 0
    BY <1>1, <1>2 DEF Sign
  <2> HIDE DEF l, r
  <2>3. QED
    BY <2>1, <2>2 DEF Lex
<1>4. PolicyOrder(left, right) = Lex(f(1), Lex(f(2), f(3)))
  <2> DEFINE D == {i \in 1 .. 3 : f(i) # 0}
  <2>1. PolicyOrder(left, right) = IF D = {} THEN 0 ELSE f(Min(D))
    BY DEF PolicyOrder
  <2> HIDE DEF x, y
  <2>2. D \in SUBSET Nat /\ \A i : i \in D <=> (i = 1 \/ i = 2 \/ i = 3) /\ f(i) # 0
    OBVIOUS
  <2>3. D # {} => Min(D) \in D /\ \A i \in D : Min(D) <= i
    <3> HIDE DEF D
    <3>1. QED
      BY <2>2, LeastOf
  <2> HIDE DEF D, f
  <2>4. PICK m : m = Min(D)
    OBVIOUS
  <2>5. CASE D = {}
    BY <2>1, <2>2, <2>5 DEF Lex
  <2>6. CASE D # {} /\ m = 1
    BY <2>1, <2>2, <2>3, <2>4, <2>6 DEF Lex
  <2>7. CASE D # {} /\ m = 2
    <3>1. 1 \notin D
      BY <2>3, <2>4, <2>7
    <3>2. QED
      BY <2>1, <2>2, <2>3, <2>4, <2>7, <3>1 DEF Lex
  <2>8. CASE D # {} /\ m = 3
    <3>1. 1 \notin D /\ 2 \notin D
      BY <2>3, <2>4, <2>8
    <3>2. QED
      BY <2>1, <2>2, <2>3, <2>4, <2>8, <3>1 DEF Lex
  <2>9. QED
    BY <2>2, <2>3, <2>4, <2>5, <2>6, <2>7, <2>8
<1> HIDE DEF l, r, x, y
<1>5. f(1) = IF l.epoch # r.epoch THEN Sign(l.epoch, r.epoch) ELSE 0
  <2> DEFINE e == l.epoch
             d == r.epoch
  <2>1. e \in Int /\ d \in Int
    BY <1>1, <1>2
  <2> HIDE DEF e, d
  <2>2. <<e>> \in Keys /\ <<d>> \in Keys /\ At(<<e>>, 1) = e /\ At(<<d>>, 1) = d
    BY <2>1 DEF Keys, At
  <2>3. Rest(<<e>>) = <<>> /\ Rest(<<d>>) = <<>>
    BY DEF Rest
  <2>4. FirstDifference(<<>>, <<>>) = 0
    <3>1. <<>> \in Keys
      BY DEF Keys
    <3>2. QED
      BY <3>1, DiffersNowhere
  <2>5. FirstDifference(<<e>>, <<d>>) = Lex(Sign(e, d), 0)
    BY <2>2, <2>3, <2>4, DifferenceStep
  <2>6. FirstDifference(<<e>>, <<d>>) = IF e # d THEN Sign(e, d) ELSE 0
    BY <2>1, <2>5 DEF Lex, Sign
  <2>7. QED
    BY <1>1, <1>2, <2>6 DEF e, d
<1>6. f(2) = compareVersionPart[<<l.version, r.version>>]
  <2>1. compareVersionPart[<<l.version, r.version>>] =
          FirstDifference(PolicyKey(l.version), PolicyKey(r.version))
    BY <1>1, <1>2, PartOrder
  <2>2. QED
    BY <1>1, <1>2, <2>1
<1>7. f(3) = compareVersionPart[<<l.revision, r.revision>>]
  <2> DEFINE a == PolicyKey(l.revision)
             b == PolicyKey(r.revision)
             c == x[3]
             d == y[3]
  <2>1. compareVersionPart[<<l.revision, r.revision>>] = FirstDifference(a, b)
    BY <1>1, <1>2, PartOrder
  <2>2. a \in Keys /\ b \in Keys
    <3>1. l.revision \in Strings /\ r.revision \in Strings
      BY <1>1, <1>2, RanksOf
    <3>2. QED
      BY <3>1, KeyOf
  <2>3. /\ c \in Keys /\ d \in Keys
        /\ \A i \in Nat : At(c, i) = At(a, i) /\ At(d, i) = At(b, i)
    BY <1>1, <1>2
  <2> HIDE DEF a, b, c, d
  <2>4. FirstDifference(c, d) = FirstDifference(a, b)
    <3>1. CASE \A i \in Nat : At(a, i) = At(b, i)
      BY <2>2, <2>3, <3>1, DiffersNowhere
    <3>2. ASSUME NEW m \in Nat, FirstDifference(a, b) = Sign(At(a, m), At(b, m)),
                 At(a, m) # At(b, m), \A i \in Nat : i < m => At(a, i) = At(b, i)
          PROVE  FirstDifference(c, d) = FirstDifference(a, b)
      BY <2>2, <2>3, <3>2, DiffersAt
    <3>3. QED
      BY <2>2, <3>1, <3>2, FirstDifferenceIs DEF Keys
  <2>5. QED
    BY <2>1, <2>4 DEF c, d
<1>8. QED
  BY <1>3, <1>4, <1>5, <1>6, <1>7
=============================================================================
