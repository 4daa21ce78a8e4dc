---------------------------- MODULE VersionOrder ----------------------------
(***************************************************************************)
(* CompareVersions and the functions under it, and the order of the Debian *)
(* policy as a comparison of numeric keys.                                 *)
(*                                                                         *)
(* A string is the sequence of its code points.  Versions are ASCII; what  *)
(* the functions make of bytes that are not UTF-8 is left out.             *)
(***************************************************************************)
EXTENDS Integers, SequencesExt

Zero   == 48
Plus   == 43
Hyphen == 45
Colon  == 58
Tilde  == 126
Runes  == 0 .. 127
Digits == 48 .. 57
Others == Runes \ Digits
IsDigit(r)  == r \in Digits
IsLetter(r) == r \in 65 .. 90 \cup 97 .. 122

\* -1, 0 or 1.
Sign(left, right) == IF left < right THEN -1 ELSE IF left > right THEN 1 ELSE 0

\* Two sequences by their first difference; where one has ended it reads 0.
At(s, i) == IF i \in DOMAIN s THEN s[i] ELSE 0
FirstDifference(left, right) ==
  LET differ == {i \in 1 .. (Len(left) + Len(right)) : At(left, i) # At(right, i)}
  IN IF differ = {} THEN 0
     ELSE Sign(At(left, Min(differ)), At(right, Min(differ)))

----------------------------------------------------------------------------
(* The code *)

\* The longest prefix of characters that satisfy a predicate, and the rest.
takeWhile(value, predicate) ==
  LET stop == SelectInSeq(value, LAMBDA r : r \notin predicate)
  IN IF stop = 0 THEN <<value, <<>>>>
     ELSE <<SubSeq(value, 1, stop - 1), SubSeq(value, stop, Len(value))>>

Rest(value) == IF value = <<>> THEN <<>> ELSE Tail(value)
nextRune(value) == IF value = <<>> THEN 0 ELSE Head(value)

\* Mutant: the tilde is a character like any other.
OrderWithoutTilde(r) ==
  CASE r = 0       -> 0
    [] IsLetter(r) -> r
    [] OTHER       -> r + 256

nonDigitOrder(r) ==
  CASE r = Tilde   -> -1
    [] r = 0       -> 0
    [] IsLetter(r) -> r
    [] OTHER       -> r + 256

\* Two strings, of which the rest is compared where the first runes are equal.
Pairs == Seq(Runes) \X Seq(Runes)

compareNonDigit[p \in Pairs] ==
  LET cmp == Sign(nonDigitOrder(nextRune(p[1])), nonDigitOrder(nextRune(p[2])))
  IN IF p = << <<>>, <<>> >> THEN 0
     ELSE IF cmp # 0 THEN cmp
     ELSE compareNonDigit[<<Rest(p[1]), Rest(p[2])>>]

compareDigit(left, right) ==
  LET l == takeWhile(left, {Zero})[2]
      r == takeWhile(right, {Zero})[2]
  IN IF Len(l) # Len(r) THEN Sign(Len(l), Len(r)) ELSE FirstDifference(l, r)

\* A part begins with a text, possibly empty, and a number, possibly empty.
textOf(s)   == takeWhile(s, Others)[1]
numberOf(s) == takeWhile(takeWhile(s, Others)[2], Digits)[1]
afterOf(s)  == takeWhile(takeWhile(s, Others)[2], Digits)[2]

compareVersionPart[p \in Pairs] ==
  LET byText   == compareNonDigit[<<textOf(p[1]), textOf(p[2])>>]
      byNumber == compareDigit(numberOf(p[1]), numberOf(p[2]))
  IN IF p = << <<>>, <<>> >> THEN 0
     ELSE IF byText # 0 THEN byText
     ELSE IF byNumber # 0 THEN byNumber
     ELSE compareVersionPart[<<afterOf(p[1]), afterOf(p[2])>>]

\* The value of a string of digits.
Decimal(digits) ==
  LET value[n \in 0 .. Len(digits)] ==
        IF n = 0 THEN 0 ELSE 10 * value[n - 1] + digits[n] - Zero
  IN value[Len(digits)]
AllDigits(s) == s # <<>> /\ \A i \in DOMAIN s : IsDigit(s[i])

\* strconv.Atoi: a number has digits after an optional sign and fits 64 bits,
\* anything else is an error.
Largest  == [i \in 1 .. 19 |-> Zero + <<9, 2, 2, 3, 3, 7, 2, 0, 3, 6,
                                       8, 5, 4, 7, 7, 5, 8, 0, 7>>[i]]
Smallest == [Largest EXCEPT ![19] = Zero + 8]
Fits(digits, bound) == AllDigits(digits) /\ compareDigit(digits, bound) <= 0

Unsigned(s)   == IF nextRune(s) \in {Plus, Hyphen} THEN Tail(s) ELSE s
AtoiErr(s)    == ~Fits(Unsigned(s), IF nextRune(s) = Hyphen THEN Smallest ELSE Largest)
AtoiParsed(s) == IF nextRune(s) = Hyphen THEN -Decimal(Unsigned(s))
                                         ELSE Decimal(Unsigned(s))

\* An epoch that is no number is passed over.
epochOf(epochPart) == IF AtoiErr(epochPart) THEN 0 ELSE AtoiParsed(epochPart)

\* Up to the first colon the epoch, from the last hyphen on the revision.
splitVersion(version) ==
  LET colon  == SelectInSeq(version, LAMBDA r : r = Colon)
      rest   == SubSeq(version, colon + 1, Len(version))
      hyphen == SelectLastInSeq(rest, LAMBDA r : r = Hyphen)
  IN [epoch    |-> IF colon = 0 THEN 0 ELSE epochOf(SubSeq(version, 1, colon - 1)),
      version  |-> IF hyphen = 0 THEN rest ELSE SubSeq(rest, 1, hyphen - 1),
      revision |-> IF hyphen = 0 THEN <<Zero>>
                                 ELSE SubSeq(rest, hyphen + 1, Len(rest))]

CompareVersions(left, right) ==
  LET l == splitVersion(left)
      r == splitVersion(right)
      byVersion == compareVersionPart[<<l.version, r.version>>]
  IN IF l.epoch # r.epoch THEN Sign(l.epoch, r.epoch)
     ELSE IF byVersion # 0 THEN byVersion
     ELSE compareVersionPart[<<l.revision, r.revision>>]

----------------------------------------------------------------------------
(* The reference: deb-version(7) *)

\* Letters before other characters, a tilde even before the end.
Rank(r) == IF r = Tilde THEN -1 ELSE IF IsLetter(r) THEN r ELSE 1000 + r

\* The string as numbers: the rank of each character outside of a number; for
\* each number, 0 for the end of the text before it and its value.  With zeros
\* after its end the order of strings is that of the first differing number.
PolicyKey(s) ==
  LET startsNumber(i) == IsDigit(s[i]) /\ (i = 1 \/ ~IsDigit(s[i - 1]))
      endOf(i) == CHOOSE j \in i .. Len(s) :
                    /\ \A k \in i .. j : IsDigit(s[k])
                    /\ j = Len(s) \/ ~IsDigit(s[j + 1])
  IN FlattenSeq([i \in DOMAIN s |->
       CASE ~IsDigit(s[i])  -> <<Rank(s[i])>>
         [] startsNumber(i) -> <<0, Decimal(SubSeq(s, i, endOf(i)))>>
         [] OTHER           -> <<>>])

Positions(s, r) == {i \in DOMAIN s : s[i] = r}

\* A colon ends the epoch, a number (dpkg takes none that needs more than 32
\* bits); no character is NUL.
HasPolicyForm(s) ==
  /\ Positions(s, 0) = {}
  /\ \/ Positions(s, Colon) = {}
     \/ Fits(SubSeq(s, 1, Min(Positions(s, Colon)) - 1), Largest)

\* Without colon there is no epoch, without hyphen no revision.
PolicyParts(s) ==
  LET colons  == Positions(s, Colon)
      start   == IF colons = {} THEN 1 ELSE Min(colons) + 1
      hyphens == {i \in Positions(s, Hyphen) : i >= start}
      end     == IF hyphens = {} THEN Len(s) + 1 ELSE Max(hyphens)
  IN << <<Decimal(SubSeq(s, 1, start - 2))>>,
        PolicyKey(SubSeq(s, start, end - 1)),
        PolicyKey(SubSeq(s, end + 1, Len(s))) >>

PolicyOrder(left, right) ==
  LET l == PolicyParts(left)
      r == PolicyParts(right)
      decisive == {i \in 1 .. 3 : FirstDifference(l[i], r[i]) # 0}
  IN IF decisive = {} THEN 0
     ELSE FirstDifference(l[Min(decisive)], r[Min(decisive)])
=============================================================================
