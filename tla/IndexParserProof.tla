-------------------------- MODULE IndexParserProof --------------------------
(***************************************************************************)
(* The parsers return what the paragraphs of a text say, for every text:   *)
(* by induction over the lines that their loops have read.                 *)
(***************************************************************************)
EXTENDS IndexParser, Induction

----------------------------------------------------------------------------
(* Lines *)

\* The provers do not know of a string that it is one.
Words  == STRING \cup {"all"}
Values == Seq(Words)
Lines  == [kind : Kinds, value : Values]
Texts  == Seq(Lines)
Offers == [Name : Values, Architecture : Values, Version : Values]

\* The lines of a kind, as the text goes on by a line.
LEMMA NextLines ==
  ASSUME NEW text \in Texts, NEW n \in 1 .. Len(text), NEW kind
  PROVE  LinesOf(text, n + 1, kind) =
           IF text[n].kind = "blank" THEN {}
           ELSE IF text[n].kind = kind THEN LinesOf(text, n, kind) \cup {n}
           ELSE LinesOf(text, n, kind)
<1>1. (n + 1) - 1 = n /\ n \in Nat /\ n >= 1 /\ n <= Len(text) /\ Len(text) \in Nat
  BY DEF Texts
<1>2. CASE text[n].kind = "blank"
  <2>1. \A i \in 1 .. n : n \in i .. n
    BY <1>1
  <2>2. QED
    BY <1>1, <1>2, <2>1 DEF LinesOf
<1>3. CASE text[n].kind # "blank"
  <2>1. ASSUME NEW i \in 1 .. n - 1
        PROVE  (\A k \in i .. n : text[k].kind # "blank")
                 <=> (\A k \in i .. n - 1 : text[k].kind # "blank")
    <3>1. i .. n = (i .. n - 1) \cup {n}
      BY <1>1
    <3>2. QED
      BY <1>3, <3>1
  <2>2. \A k \in n .. n : text[k].kind # "blank"
    BY <1>1, <1>3
  <2>3. 1 .. n = (1 .. n - 1) \cup {n}
    BY <1>1
  <2>4. LinesOf(text, n, kind) =
          {i \in 1 .. n - 1 : /\ text[i].kind = kind
                              /\ \A k \in i .. n - 1 : text[k].kind # "blank"}
    BY DEF LinesOf
  <2>5. LinesOf(text, n + 1, kind) =
          {i \in 1 .. n : /\ text[i].kind = kind
                          /\ \A k \in i .. n : text[k].kind # "blank"}
    BY <1>1 DEF LinesOf
  <2>6. ASSUME NEW i
        PROVE  i \in LinesOf(text, n + 1, kind)
                 <=> i \in LinesOf(text, n, kind) \/ (i = n /\ text[n].kind = kind)
    BY <1>1, <2>1, <2>2, <2>3, <2>4, <2>5
  <2>7. QED
    BY <1>3, <2>6
<1>4. QED
  BY <1>2, <1>3

LEMMA LinesBound ==
  ASSUME NEW text, NEW e \in Nat, NEW kind, NEW i \in LinesOf(text, e, kind)
  PROVE  /\ i \in Nat /\ 1 <= i /\ i < e /\ text[i].kind = kind
         /\ \A k \in i .. e - 1 : text[k].kind # "blank"
BY DEF LinesOf

LEMMA NextValue ==
  ASSUME NEW text \in Texts, NEW n \in 1 .. Len(text), NEW field
  PROVE  ValueOf(text, n + 1, field) =
           IF text[n].kind = "blank" THEN <<>>
           ELSE IF text[n].kind = field THEN text[n].value
           ELSE ValueOf(text, n, field)
<1>1. CASE text[n].kind = "blank"
  BY <1>1, NextLines DEF ValueOf
<1>2. CASE text[n].kind # "blank" /\ text[n].kind = field
  <2> DEFINE I == LinesOf(text, n + 1, field)
  <2>1. n \in I /\ \A i \in I : i \in Nat /\ i <= n
    <3>1. I = LinesOf(text, n, field) \cup {n}
      BY <1>2, NextLines
    <3>2. n \in Nat
      BY DEF Texts
    <3>3. \A i \in LinesOf(text, n, field) : i \in Nat /\ i < n
      BY <3>2, LinesBound
    <3>4. QED
      BY <3>1, <3>2, <3>3
  <2>2. Max(I) = n
    BY <2>1 DEF Max
  <2>3. QED
    BY <1>2, <2>1, <2>2 DEF ValueOf
<1>3. CASE text[n].kind # "blank" /\ text[n].kind # field
  BY <1>3, NextLines DEF ValueOf
<1>4. QED
  BY <1>1, <1>2, <1>3

LEMMA FirstValue ==
  ASSUME NEW text, NEW field
  PROVE  LinesOf(text, 1, field) = {} /\ ValueOf(text, 1, field) = <<>>
BY DEF ValueOf, LinesOf

\* What the lines of a paragraph before line e say.
Current(text, e) ==
  Offer(ValueOf(text, e, "Package"), ValueOf(text, e, "Architecture"),
        ValueOf(text, e, "Version"))

LEMMA NextCurrent ==
  ASSUME NEW text \in Texts, NEW n \in 1 .. Len(text)
  PROVE  Current(text, n + 1) =
           IF text[n].kind = "blank" THEN NoFields
           ELSE SetField(Current(text, n), text[n])
BY NextValue DEF Current, SetField, NoFields, Offer

----------------------------------------------------------------------------
(* The stream parser *)

LEMMA AppendIs ==
  ASSUME NEW pkg \in Offers, NEW filter
  PROVE  appendAvailablePackage(pkg, filter) \in Seq(Offers)
<1> DEFINE offer == Offer(pkg.Name, ArchitectureOr(pkg.Architecture), pkg.Version)
<1>1. ArchitectureOr(pkg.Architecture) \in Values
  <2>1. <<"all">> \in Values
    <3>1. "all" \in Words
      BY DEF Words
    <3>2. \A w \in Words : <<w>> \in Seq(Words)
      <4> HIDE DEF Words
      <4>1. QED
        OBVIOUS
    <3>3. QED
      BY <3>1, <3>2 DEF Values
  <2>2. pkg.Architecture \in Values
    BY DEF Offers
  <2>3. QED
    BY <2>1, <2>2 DEF ArchitectureOr
<1>2. offer \in Offers
  BY <1>1 DEF Offer, Offers
<1> HIDE DEF offer
<1>3. <<>> \in Seq(Offers) /\ <<offer>> \in Seq(Offers)
  BY <1>2
<1>4. QED
  BY <1>3 DEF appendAvailablePackage, offer

Contribution(text, filter, e) ==
  IF EndsEntry(text, e) THEN appendAvailablePackage(Current(text, e), filter) ELSE <<>>

IsScan(f, text, filter) ==
  f = [n \in 0 .. Len(text) |->
         IF n = 0 THEN [result |-> <<>>, pkg |-> NoFields]
         ELSE StreamLine(f[n - 1], text[n], filter)]

States == [result : Seq(Offers), pkg : Offers]

LEMMA ScanExists ==
  ASSUME NEW text \in Texts, NEW filter
  PROVE  \E f \in [0 .. Len(text) -> States] : IsScan(f, text, filter)
<1> DEFINE N    == Len(text)
           base == [result |-> <<>>, pkg |-> NoFields]
           step == [n \in 1 .. N |-> [s \in States |-> StreamLine(s, text[n], filter)]]
<1>1. N \in Nat /\ \A n \in 1 .. N : text[n] \in Lines
  BY DEF Texts
<1>2. base \in States
  BY DEF States, NoFields, Offer, Offers, Values
<1>3. ASSUME NEW s \in States, NEW n \in 1 .. N
      PROVE  StreamLine(s, text[n], filter) \in States
  <2>1. s.result \in Seq(Offers) /\ s.pkg \in Offers
    BY DEF States
  <2>2. CASE text[n].kind = "blank"
    <3>1. appendAvailablePackage(s.pkg, filter) \in Seq(Offers)
      BY <2>1, AppendIs
    <3>2. s.result \o appendAvailablePackage(s.pkg, filter) \in Seq(Offers)
      BY <2>1, <3>1
    <3>3. QED
      BY <2>2, <3>2, <1>2 DEF StreamLine, flush, States
  <2>3. CASE text[n].kind # "blank"
    <3>1. text[n].value \in Values
      BY <1>1 DEF Lines
    <3>2. SetField(s.pkg, text[n]) \in Offers
      BY <2>1, <3>1 DEF SetField, Offer, Offers
    <3>3. QED
      BY <2>1, <2>3, <3>2 DEF StreamLine, States
  <2>4. QED
    BY <2>2, <2>3
<1>4. PICK f : IsStepwise(f, N, States, base, step)
  <2>1. step \in [1 .. N -> [States -> States]]
    BY <1>3
  <2> HIDE DEF N, base, step
  <2>2. QED
    BY <1>1, <1>2, <2>1, LoopExists
<1>5. f \in [0 .. N -> States] /\ f[0] = base
  BY <1>4 DEF IsStepwise
<1>6. ASSUME NEW n \in 1 .. N PROVE f[n] = StreamLine(f[n - 1], text[n], filter)
  <2>1. f[n - 1] \in States
    BY <1>1, <1>5
  <2>2. f[n] = step[n][f[n - 1]]
    BY <1>4 DEF IsStepwise
  <2>3. QED
    BY <2>1, <2>2
<1>7. IsScan(f, text, filter)
  <2> DEFINE g == [n \in 0 .. N |-> IF n = 0 THEN base
                                    ELSE StreamLine(f[n - 1], text[n], filter)]
  <2>1. ASSUME NEW n \in 0 .. N PROVE f[n] = g[n]
    BY <1>1, <1>5, <1>6
  <2>2. g = [n \in 0 .. N |-> g[n]] /\ f = [n \in 0 .. N |-> f[n]]
    BY <1>5
  <2> HIDE DEF g
  <2>3. f = g
    BY <2>1, <2>2
  <2>4. QED
    BY <2>3 DEF g, IsScan
<1>8. QED
  BY <1>5, <1>7

LEMMA CurrentIs ==
  ASSUME NEW text \in Texts, NEW e \in 1 .. Len(text) + 1
  PROVE  Current(text, e) \in Offers
<1> DEFINE A == {n \in Nat : Current(text, n + 1) \in Offers}
<1>1. Len(text) \in Nat /\ \A n \in 1 .. Len(text) : text[n].value \in Values
  <2>1. Len(text) \in Nat /\ \A n \in 1 .. Len(text) : text[n] \in Lines
    BY DEF Texts
  <2>2. QED
    BY <2>1 DEF Lines
<1>2. NoFields \in Offers
  BY DEF NoFields, Offer, Offers, Values
<1>3. 0 \in A
  BY <1>2, FirstValue DEF Current, NoFields
<1>4. ASSUME NEW n \in 1 .. Len(text), n - 1 \in A PROVE n \in A
  <2>1. Current(text, n) \in Offers /\ n \in Nat
    BY <1>1, <1>4
  <2>2. SetField(Current(text, n), text[n]) \in Offers
    BY <1>1, <2>1 DEF SetField, Offer, Offers
  <2>3. Current(text, n + 1) \in Offers
    BY <1>2, <2>2, NextCurrent
  <2>4. QED
    BY <2>1, <2>3
<1> HIDE DEF A
<1>5. \A n \in 0 .. Len(text) : n \in A
  BY <1>1, <1>3, <1>4, LoopInduction
<1>6. e - 1 \in 0 .. Len(text) /\ (e - 1) + 1 = e
  BY <1>1
<1>7. QED
  BY <1>5, <1>6 DEF A

LEMMA StreamIs ==
  ASSUME NEW text \in Texts, NEW filter
  PROVE  parseAvailablePackageReader(text, filter) =
           FlattenSeq([e \in 1 .. Len(text) + 1 |-> Contribution(text, filter, e)])
<1> DEFINE N    == Len(text)
           seqs == [e \in 1 .. N + 1 |-> Contribution(text, filter, e)]
<1>1. N \in Nat
  BY DEF Texts
<1>2. seqs \in [1 .. N + 1 -> Seq(Offers)]
  BY CurrentIs, AppendIs DEF Contribution
<1>3. PICK g \in [0 .. N + 1 -> Seq(Offers)] :
        /\ g[0] = <<>>
        /\ \A n \in 1 .. N + 1 : g[n] = g[n - 1] \o seqs[n]
        /\ FlattenSeq(seqs) = g[N + 1]
  <2> HIDE DEF seqs
  <2>1. N + 1 \in Nat
    BY <1>1
  <2>2. QED
    BY <1>2, <2>1, FlattenIs
<1>4. PICK f : /\ IsScan(f, text, filter)
               /\ parseAvailablePackageReader(text, filter) = flush(f[N], filter).result
  <2>1. parseAvailablePackageReader(text, filter) =
          flush((CHOOSE f : IsScan(f, text, filter))[N], filter).result
    BY DEF parseAvailablePackageReader, IsScan
  <2>2. QED
    BY <2>1, ScanExists
<1>5. f[0] = [result |-> <<>>, pkg |-> NoFields]
      /\ \A n \in 1 .. N : f[n] = StreamLine(f[n - 1], text[n], filter)
  BY <1>1, <1>4 DEF IsScan
<1> DEFINE A == {n \in 0 .. N : f[n].pkg = Current(text, n + 1) /\ f[n].result = g[n]}
<1>6. 0 \in A
  BY <1>1, <1>3, <1>5, FirstValue DEF Current, NoFields
<1>7. ASSUME NEW n \in 1 .. N, n - 1 \in A PROVE n \in A
  <2>1. f[n - 1].pkg = Current(text, n) /\ f[n - 1].result = g[n - 1]
    BY <1>1, <1>7
  <2>2. f[n] = StreamLine(f[n - 1], text[n], filter) /\ n \in 0 .. N
    BY <1>1, <1>5
  <2>3. g[n] = g[n - 1] \o Contribution(text, filter, n) /\ g[n - 1] \in Seq(Offers)
    <3>1. n \in 1 .. N + 1 /\ n - 1 \in 0 .. N + 1
      BY <1>1
    <3>2. seqs[n] = Contribution(text, filter, n) /\ g[n] = g[n - 1] \o seqs[n]
      BY <1>3, <3>1
    <3>3. QED
      BY <3>1, <3>2
  <2>4. CASE text[n].kind = "blank"
    <3>1. Contribution(text, filter, n) = appendAvailablePackage(Current(text, n), filter)
      BY <2>4 DEF Contribution, EndsEntry
    <3>2. f[n] = [result |-> g[n - 1] \o appendAvailablePackage(Current(text, n), filter),
                  pkg    |-> NoFields]
      BY <2>1, <2>2, <2>4 DEF StreamLine, flush
    <3>3. Current(text, n + 1) = NoFields
      BY <2>4, NextCurrent
    <3>4. f[n].pkg = Current(text, n + 1) /\ f[n].result = g[n]
      BY <2>3, <3>1, <3>2, <3>3
    <3>5. QED
      BY <2>2, <3>4
  <2>5. CASE text[n].kind # "blank"
    <3>1. Contribution(text, filter, n) = <<>>
      BY <1>1, <2>5 DEF Contribution, EndsEntry
    <3>2. f[n] = [result |-> g[n - 1], pkg |-> SetField(Current(text, n), text[n])]
      BY <2>1, <2>2, <2>5 DEF StreamLine
    <3>3. Current(text, n + 1) = SetField(Current(text, n), text[n])
      BY <2>5, NextCurrent
    <3>4. g[n] = g[n - 1]
      BY <2>3, <3>1
    <3>5. f[n].pkg = Current(text, n + 1) /\ f[n].result = g[n]
      BY <3>2, <3>3, <3>4
    <3>6. QED
      BY <2>2, <3>5
  <2>6. QED
    BY <2>4, <2>5
<1> HIDE DEF A
<1>8. N \in A
  <2>1. \A n \in 0 .. N : n \in A
    BY <1>1, <1>6, <1>7, LoopInduction
  <2>2. QED
    BY <1>1, <2>1
<1>9. f[N].pkg = Current(text, N + 1) /\ f[N].result = g[N]
  BY <1>8 DEF A
<1>10. g[N + 1] = g[N] \o Contribution(text, filter, N + 1)
  <2>1. N + 1 \in 1 .. N + 1 /\ (N + 1) - 1 = N
    BY <1>1
  <2>2. QED
    BY <1>3, <2>1
<1>11. Contribution(text, filter, N + 1) =
         appendAvailablePackage(Current(text, N + 1), filter)
  BY DEF Contribution, EndsEntry
<1>12. QED
  BY <1>3, <1>4, <1>9, <1>10, <1>11 DEF flush

----------------------------------------------------------------------------
(* The offers for installed packages *)

Wanted(installed, name, arch) ==
  \E pkg \in ToSet(installed) :
    /\ isInstalledStatus(pkg.Status)
    /\ pkg.Name = name
    /\ arch \in {<<"all">>, ArchitectureOr(pkg.Architecture)}

LEMMA FilterIs ==
  ASSUME NEW installed, NEW name, name # <<>>, NEW arch
  PROVE  packageFilterAllowsArch(installedPackageFilter(installed), name, arch)
           <=> Wanted(installed, name, ArchitectureOr(arch))
<1> DEFINE selected == {pkg \in ToSet(installed) :
                          isInstalledStatus(pkg.Status) /\ pkg.Name # <<>>}
           filter == installedPackageFilter(installed)
<1>1. DOMAIN filter = {pkg.Name : pkg \in selected}
  BY DEF installedPackageFilter
<1>2. \A n \in DOMAIN filter :
        filter[n] = {<<"all">>} \cup {ArchitectureOr(pkg.Architecture) :
                                        pkg \in {p \in selected : p.Name = n}}
  BY DEF installedPackageFilter
<1> HIDE DEF filter
<1>3. ASSUME name \in DOMAIN filter, ArchitectureOr(arch) \in filter[name]
      PROVE  \E pkg \in selected :
               /\ pkg.Name = name
               /\ ArchitectureOr(arch) \in {<<"all">>, ArchitectureOr(pkg.Architecture)}
  BY <1>1, <1>2, <1>3
<1>4. ASSUME NEW pkg \in selected, pkg.Name = name,
             ArchitectureOr(arch) \in {<<"all">>, ArchitectureOr(pkg.Architecture)}
      PROVE  name \in DOMAIN filter /\ ArchitectureOr(arch) \in filter[name]
  BY <1>1, <1>2, <1>4
<1>5. packageFilterAllowsArch(filter, name, arch)
        <=> name \in DOMAIN filter /\ ArchitectureOr(arch) \in filter[name]
  BY DEF packageFilterAllowsArch
<1>6. QED
  BY <1>3, <1>4, <1>5 DEF filter, Wanted

LEMMA StreamOffers ==
  ASSUME NEW text \in Texts, NEW installed
  PROVE  parseAvailablePackageReader(text, installedPackageFilter(installed)) =
           OffersFor(text, installed)
<1> DEFINE filter == installedPackageFilter(installed)
           offer(e) == Offer(ValueOf(text, e, "Package"),
                             ArchitectureOr(ValueOf(text, e, "Architecture")),
                             ValueOf(text, e, "Version"))
           wanted(o) == \E pkg \in ToSet(installed) :
                          /\ isInstalledStatus(pkg.Status)
                          /\ pkg.Name = o.Name
                          /\ o.Architecture \in {<<"all">>, ArchitectureOr(pkg.Architecture)}
           wantedOf(e) ==
             IF /\ EndsEntry(text, e)
                /\ offer(e).Name # <<>> /\ offer(e).Version # <<>> /\ wanted(offer(e))
             THEN <<offer(e)>> ELSE <<>>
<1>1. ASSUME NEW e \in 1 .. Len(text) + 1
      PROVE  Contribution(text, filter, e) = wantedOf(e)
  <2> DEFINE name == ValueOf(text, e, "Package")
             arch == ValueOf(text, e, "Architecture")
             version == ValueOf(text, e, "Version")
  <2>1. /\ Current(text, e).Name = name /\ Current(text, e).Architecture = arch
        /\ Current(text, e).Version = version
        /\ offer(e).Name = name /\ offer(e).Architecture = ArchitectureOr(arch)
        /\ offer(e).Version = version
    BY DEF Current, Offer
  <2>2. name # <<>> => (packageFilterAllowsArch(filter, name, arch) <=> wanted(offer(e)))
    <3> HIDE DEF name, arch
    <3>1. ASSUME name # <<>>
          PROVE  packageFilterAllowsArch(installedPackageFilter(installed), name, arch)
                   <=> Wanted(installed, name, ArchitectureOr(arch))
      BY <3>1, FilterIs
    <3>2. wanted(offer(e)) <=> Wanted(installed, name, ArchitectureOr(arch))
      BY <2>1 DEF Wanted
    <3> HIDE DEF offer, wanted
    <3>3. QED
      BY <3>1, <3>2
  <2>3. appendAvailablePackage(Current(text, e), filter) =
          IF name = <<>> \/ version = <<>> \/ ~packageFilterAllowsArch(filter, name, arch)
          THEN <<>> ELSE <<offer(e)>>
    BY <2>1 DEF appendAvailablePackage
  <2> HIDE DEF name, arch, version, filter, offer, wanted
  <2>4. QED
    BY <2>1, <2>2, <2>3 DEF Contribution
<1>2. [e \in 1 .. Len(text) + 1 |-> Contribution(text, filter, e)] =
        [e \in 1 .. Len(text) + 1 |-> wantedOf(e)]
  <2> HIDE DEF filter, wantedOf
  <2>1. QED
    BY <1>1
<1>3. parseAvailablePackageReader(text, filter) =
        FlattenSeq([e \in 1 .. Len(text) + 1 |-> Contribution(text, filter, e)])
  BY StreamIs
<1>4. OffersFor(text, installed) = FlattenSeq([e \in 1 .. Len(text) + 1 |-> wantedOf(e)])
  BY DEF OffersFor
<1> HIDE DEF wantedOf
<1>5. QED
  BY <1>2, <1>3, <1>4

----------------------------------------------------------------------------
(* Entries *)

\* The entry that ends before line e begins after line b.
Begins(text, b, e) ==
  /\ b \in 0 .. e - 1
  /\ b = 0 \/ text[b].kind = "blank"
  /\ \A k \in b + 1 .. e - 1 : text[k].kind # "blank"

LEMMA EntryIs ==
  ASSUME NEW text \in Texts, NEW e \in 1 .. Len(text) + 1
  PROVE  \E b \in Nat :
           /\ Begins(text, b, e)
           /\ Entry(text, e) \in Texts
           /\ Len(Entry(text, e)) = e - 1 - b
           /\ \A m \in 1 .. e - 1 - b : /\ Entry(text, e)[m] = text[b + m]
                                        /\ b + m \in 1 .. Len(text)
<1> DEFINE I == {k \in 1 .. e - 1 : text[k].kind = "blank"} \cup {0}
<1>1. Len(text) \in Nat /\ e \in Nat /\ e >= 1 /\ e - 1 <= Len(text)
  BY DEF Texts
<1>2. \E i \in I : \A j \in I : i >= j
  <2> DEFINE S == {e - 1 - i : i \in I}
  <2>1. \A i \in I : i \in 0 .. e - 1
    BY <1>1
  <2>2. S \in SUBSET Nat /\ S # {}
    BY <1>1, <2>1
  <2>3. PICK n \in S : \A m \in S : n <= m
    <3> HIDE DEF S
    <3>1. QED
      BY <2>2, LeastNatural
  <2>4. PICK i \in I : n = e - 1 - i
    OBVIOUS
  <2>5. ASSUME NEW j \in I PROVE i >= j
    <3>1. e - 1 - i <= e - 1 - j
      BY <2>3, <2>4
    <3>2. i \in Nat /\ j \in Nat
      BY <2>1
    <3>3. QED
      BY <1>1, <3>1, <3>2
  <2>6. QED
    BY <2>5
<1>3. PICK b : b = Max(I)
  OBVIOUS
<1>4. b \in I /\ \A j \in I : b >= j
  BY <1>2, <1>3 DEF Max
<1>5. Begins(text, b, e)
  <2>1. b \in 0 .. e - 1 /\ (b = 0 \/ text[b].kind = "blank")
    BY <1>1, <1>4
  <2>2. ASSUME NEW k \in b + 1 .. e - 1 PROVE text[k].kind # "blank"
    <3>1. k \in 1 .. e - 1 /\ k > b
      BY <1>1, <2>1
    <3>2. k \notin I
      BY <1>1, <1>4, <2>1, <3>1
    <3>3. QED
      BY <3>1, <3>2
  <2>3. QED
    BY <2>1, <2>2 DEF Begins
<1>6. Entry(text, e) = SubSeq(text, b + 1, e - 1)
  BY <1>3 DEF Entry
<1>7. b \in Nat /\ b <= e - 1
  BY <1>1, <1>5 DEF Begins
<1>8. SubSeq(text, b + 1, e - 1) \in Seq(Lines)
      /\ Len(SubSeq(text, b + 1, e - 1)) = e - 1 - b
  BY <1>1, <1>7 DEF Texts
<1>9. \A m \in 1 .. e - 1 - b : /\ SubSeq(text, b + 1, e - 1)[m] = text[b + m]
                                /\ b + m \in 1 .. Len(text)
  BY <1>1, <1>7 DEF Texts
<1>10. QED
  BY <1>5, <1>6, <1>7, <1>8, <1>9 DEF Texts

\* Where an entry begins no line of it has been read.
LEMMA NothingRead ==
  ASSUME NEW text \in Texts, NEW e \in 1 .. Len(text) + 1, NEW b \in Nat,
         Begins(text, b, e), NEW kind
  PROVE  LinesOf(text, b + 1, kind) = {} /\ ValueOf(text, b + 1, kind) = <<>>
<1>1. CASE b = 0
  BY <1>1, FirstValue
<1>2. CASE b # 0
  <2>1. b \in 1 .. Len(text) /\ text[b].kind = "blank"
    BY <1>2 DEF Begins, Texts
  <2>2. QED
    BY <2>1, NextLines, NextValue
<1>3. QED
  BY <1>1, <1>2

\* A line of an entry remains a line of it, and where no field comes twice it
\* gives the field its value.
LEMMA LinesRemain ==
  ASSUME NEW text, NEW e \in Nat, NEW b \in Nat, Begins(text, b, e),
         NEW i \in b + 1 .. e, NEW kind
  PROVE  LinesOf(text, i, kind) \subseteq LinesOf(text, e, kind)
<1> SUFFICES ASSUME NEW j \in LinesOf(text, i, kind) PROVE j \in LinesOf(text, e, kind)
  OBVIOUS
<1>1. j \in 1 .. i - 1 /\ text[j].kind = kind /\ \A k \in j .. i - 1 : text[k].kind # "blank"
  BY DEF LinesOf
<1>2. \A k \in b + 1 .. e - 1 : text[k].kind # "blank"
  BY DEF Begins
<1>3. i \in Nat /\ i >= b + 1 /\ i <= e
  OBVIOUS
<1>4. ASSUME NEW k \in j .. e - 1 PROVE text[k].kind # "blank"
  <2>1. CASE k <= i - 1
    BY <1>1, <1>3, <2>1
  <2>2. CASE ~(k <= i - 1)
    BY <1>1, <1>2, <1>3, <2>2
  <2>3. QED
    BY <2>1, <2>2
<1>5. j \in 1 .. e - 1
  BY <1>1, <1>3
<1>6. QED
  BY <1>1, <1>4, <1>5 DEF LinesOf

LEMMA ValueRemains ==
  ASSUME NEW text \in Texts, WellFormed(text), NEW e \in 1 .. Len(text) + 1,
         NEW b \in Nat, Begins(text, b, e), NEW i \in b + 1 .. e,
         NEW field \in Fields, LinesOf(text, i, field) # {}
  PROVE  ValueOf(text, e, field) = ValueOf(text, i, field)
<1>1. \A j, k \in LinesOf(text, e, field) : j = k
  BY DEF WellFormed
<1>2. LinesOf(text, i, field) \subseteq LinesOf(text, e, field)
  <2>1. e \in Nat
    BY DEF Texts
  <2>2. QED
    BY <2>1, LinesRemain
<1>3. LinesOf(text, i, field) = LinesOf(text, e, field)
  BY <1>1, <1>2
<1>4. QED
  BY <1>3 DEF ValueOf

----------------------------------------------------------------------------
(* The byte parser *)

IsReading(f, entry, filter) ==
  f = [n \in 0 .. Len(entry) |->
         IF n = 0 THEN [pkg |-> NoFields, left |-> FALSE]
         ELSE ByteLine(f[n - 1], entry[n], filter)]

LEMMA ReadingExists ==
  ASSUME NEW entry \in Texts, NEW filter
  PROVE  \E f : IsReading(f, entry, filter)
<1> DEFINE N    == Len(entry)
           S    == [pkg : Offers, left : BOOLEAN]
           base == [pkg |-> NoFields, left |-> FALSE]
           step == [n \in 1 .. N |-> [s \in S |-> ByteLine(s, entry[n], filter)]]
<1>1. N \in Nat /\ \A n \in 1 .. N : entry[n].value \in Values
  <2>1. N \in Nat /\ \A n \in 1 .. N : entry[n] \in Lines
    BY DEF Texts
  <2>2. QED
    BY <2>1 DEF Lines
<1>2. NoFields \in Offers
  BY DEF NoFields, Offer, Offers, Values
<1>3. base \in S /\ [pkg |-> NoFields, left |-> TRUE] \in S
  BY <1>2
<1>4. ASSUME NEW s \in S, NEW n \in 1 .. N
      PROVE  ByteLine(s, entry[n], filter) \in S
  <2>1. SetField(s.pkg, entry[n]) \in Offers
    BY <1>1 DEF SetField, Offer, Offers
  <2>2. Enough(SetField(s.pkg, entry[n])) \in BOOLEAN
    BY DEF Enough
  <2>3. [pkg |-> SetField(s.pkg, entry[n]), left |-> Enough(SetField(s.pkg, entry[n]))] \in S
    BY <2>1, <2>2
  <2>4. QED
    BY <1>3, <2>3 DEF ByteLine
<1>5. PICK f : IsStepwise(f, N, S, base, step)
  <2>1. step \in [1 .. N -> [S -> S]]
    BY <1>4
  <2> HIDE DEF N, S, base, step
  <2>2. QED
    BY <1>1, <1>3, <2>1, LoopExists
<1>6. f \in [0 .. N -> S] /\ f[0] = base
  BY <1>5 DEF IsStepwise
<1>7. ASSUME NEW n \in 1 .. N PROVE f[n] = ByteLine(f[n - 1], entry[n], filter)
  <2>1. f[n - 1] \in S
    BY <1>1, <1>6
  <2>2. f[n] = step[n][f[n - 1]]
    BY <1>5 DEF IsStepwise
  <2>3. QED
    BY <2>1, <2>2
<1>8. IsReading(f, entry, filter)
  <2> DEFINE g == [n \in 0 .. N |-> IF n = 0 THEN base
                                    ELSE ByteLine(f[n - 1], entry[n], filter)]
  <2>1. ASSUME NEW n \in 0 .. N PROVE f[n] = g[n]
    BY <1>1, <1>6, <1>7
  <2>2. g = [n \in 0 .. N |-> g[n]] /\ f = [n \in 0 .. N |-> f[n]]
    BY <1>6
  <2> HIDE DEF g
  <2>3. f = g
    BY <2>1, <2>2
  <2>4. QED
    BY <2>3 DEF g, IsReading
<1>9. QED
  BY <1>8

\* What is known after some lines of an entry: while it is read, the fields up
\* to there; after it has been left, what becomes of it.
Knows(s, text, i, e, filter) ==
  /\ ~s.left => s.pkg = Current(text, i)
  /\ s.left => appendAvailablePackage(s.pkg, filter)
                 = appendAvailablePackage(Current(text, e), filter)

LEMMA ByteLineKnows ==
  ASSUME NEW text \in Texts, WellFormed(text), NEW e \in 1 .. Len(text) + 1,
         NEW b \in Nat, Begins(text, b, e), NEW i \in b + 1 .. e - 1,
         NEW filter, NEW s, Knows(s, text, i, e, filter)
  PROVE  Knows(ByteLine(s, text[i], filter), text, i + 1, e, filter)
<1>1. /\ i \in 1 .. Len(text) /\ i \in b + 1 .. e /\ i + 1 \in b + 1 .. e
      /\ text[i].kind # "blank"
  BY DEF Texts, Begins
<1>2. Current(text, i + 1) = SetField(Current(text, i), text[i])
  BY <1>1, NextCurrent
<1>3. ASSUME NEW field \in Fields, ValueOf(text, i, field) # <<>>
      PROVE  ValueOf(text, e, field) = ValueOf(text, i, field)
  <2>1. LinesOf(text, i, field) # {}
    BY <1>3 DEF ValueOf
  <2>2. QED
    BY <1>1, <2>1, ValueRemains
<1>4. ASSUME NEW field \in Fields,
             ValueOf(text, i + 1, field) # <<>> \/ text[i].kind = field
      PROVE  ValueOf(text, e, field) = ValueOf(text, i + 1, field)
  <2>1. LinesOf(text, i + 1, field) # {}
    BY <1>1, <1>4, NextLines DEF ValueOf
  <2>2. QED
    BY <1>1, <2>1, ValueRemains
<1>5. {"Package", "Architecture", "Version"} \subseteq Fields
  BY DEF Fields
<1>6. \A k : /\ Current(text, k).Name = ValueOf(text, k, "Package")
             /\ Current(text, k).Architecture = ValueOf(text, k, "Architecture")
             /\ Current(text, k).Version = ValueOf(text, k, "Version")
  BY DEF Current, Offer
<1>7. CASE s.left
  BY <1>7 DEF Knows, ByteLine
<1>8. CASE ~s.left /\ text[i].kind \notin Fields
  <2>1. SetField(Current(text, i), text[i]) = Current(text, i)
    BY <1>5, <1>8 DEF SetField, Current, Offer
  <2>2. QED
    BY <1>2, <1>8, <2>1 DEF Knows, ByteLine
<1>9. CASE ~s.left /\ text[i].kind \in Fields /\ Rejects(s.pkg, text[i], filter)
  <2>1. s.pkg = Current(text, i)
    BY <1>9 DEF Knows
  <2>2. appendAvailablePackage(Current(text, e), filter) = <<>>
    <3>1. CASE text[i].kind = "Package" /\ text[i].value \notin DOMAIN filter
      <4>1. Current(text, e).Name = text[i].value
        <5>1. ValueOf(text, i + 1, "Package") = text[i].value
          BY <1>1, <3>1, NextValue
        <5>2. ValueOf(text, e, "Package") = ValueOf(text, i + 1, "Package")
          BY <1>4, <1>5, <3>1
        <5>3. QED
          BY <1>6, <5>1, <5>2
      <4>2. QED
        BY <3>1, <4>1 DEF appendAvailablePackage, packageFilterAllowsArch
    <3>2. CASE /\ text[i].kind = "Architecture" /\ s.pkg.Name # <<>>
               /\ ~packageFilterAllowsArch(filter, s.pkg.Name, text[i].value)
      <4>1. Current(text, e).Name = s.pkg.Name
        BY <1>3, <1>5, <1>6, <2>1, <3>2
      <4>2. Current(text, e).Architecture = text[i].value
        <5>1. ValueOf(text, i + 1, "Architecture") = text[i].value
          BY <1>1, <3>2, NextValue
        <5>2. ValueOf(text, e, "Architecture") = ValueOf(text, i + 1, "Architecture")
          BY <1>4, <1>5, <3>2
        <5>3. QED
          BY <1>6, <5>1, <5>2
      <4>3. QED
        BY <3>2, <4>1, <4>2 DEF appendAvailablePackage
    <3>3. QED
      BY <1>9, <3>1, <3>2 DEF Rejects
  <2>3. appendAvailablePackage(NoFields, filter) = <<>>
    BY DEF appendAvailablePackage, NoFields, Offer
  <2>4. ByteLine(s, text[i], filter) = [pkg |-> NoFields, left |-> TRUE]
    BY <1>9 DEF ByteLine
  <2>5. QED
    BY <2>2, <2>3, <2>4 DEF Knows
<1>10. CASE ~s.left /\ text[i].kind \in Fields /\ ~Rejects(s.pkg, text[i], filter)
  <2>1. s.pkg = Current(text, i)
    BY <1>10 DEF Knows
  <2>2. ByteLine(s, text[i], filter) =
          [pkg |-> Current(text, i + 1), left |-> Enough(Current(text, i + 1))]
    BY <1>2, <1>10, <2>1 DEF ByteLine
  <2>3. ASSUME Enough(Current(text, i + 1))
        PROVE  Current(text, e) = Current(text, i + 1)
    BY <1>4, <1>5, <1>6, <2>3 DEF Enough, Current
  <2>4. QED
    BY <2>2, <2>3 DEF Knows
<1>11. QED
  BY <1>7, <1>8, <1>9, <1>10

LEMMA ReadsEntry ==
  ASSUME NEW text \in Texts, WellFormed(text), NEW e \in 1 .. Len(text) + 1, NEW filter
  PROVE  appendAvailablePackage(parseAvailablePackageFields(Entry(text, e), filter), filter)
           = appendAvailablePackage(Current(text, e), filter)
<1> DEFINE entry == Entry(text, e)
           N     == Len(entry)
<1>1. PICK b \in Nat :
        /\ Begins(text, b, e)
        /\ entry \in Texts
        /\ N = e - 1 - b
        /\ \A m \in 1 .. e - 1 - b : entry[m] = text[b + m] /\ b + m \in 1 .. Len(text)
  BY EntryIs
<1>2. PICK f : /\ IsReading(f, entry, filter)
               /\ parseAvailablePackageFields(entry, filter) = f[N].pkg
  <2>1. parseAvailablePackageFields(entry, filter) =
          (CHOOSE f : IsReading(f, entry, filter))[N].pkg
    BY DEF parseAvailablePackageFields, IsReading
  <2>2. \E f : IsReading(f, entry, filter)
    <3> HIDE DEF entry
    <3>1. QED
      BY <1>1, ReadingExists
  <2>3. QED
    BY <2>1, <2>2
<1>3. N \in Nat /\ e \in Nat /\ b + 1 + N = e
  BY <1>1 DEF Begins, Texts
<1> HIDE DEF entry, N
<1>4. f[0] = [pkg |-> NoFields, left |-> FALSE]
      /\ \A n \in 1 .. N : f[n] = ByteLine(f[n - 1], entry[n], filter)
  <2>1. \A n \in 0 .. N : f[n] = IF n = 0 THEN [pkg |-> NoFields, left |-> FALSE]
                                ELSE ByteLine(f[n - 1], entry[n], filter)
    BY <1>2 DEF IsReading, N
  <2>2. \A n \in 1 .. N : n \in 0 .. N /\ n # 0
    BY <1>3
  <2>3. 0 \in 0 .. N
    BY <1>3
  <2>4. QED
    BY <2>1, <2>2, <2>3
<1> DEFINE A == {n \in 0 .. N : Knows(f[n], text, b + 1 + n, e, filter)}
<1>5. 0 \in A
  <2>1. Current(text, b + 1) = NoFields
    BY <1>1, NothingRead DEF Current, NoFields
  <2>2. Knows(f[0], text, b + 1, e, filter)
    BY <1>4, <2>1 DEF Knows
  <2>3. b + 1 + 0 = b + 1 /\ 0 \in 0 .. N
    BY <1>3
  <2>4. QED
    BY <2>2, <2>3
<1>6. ASSUME NEW n \in 1 .. N, n - 1 \in A PROVE n \in A
  <2>1. PICK i \in b + 1 .. e - 1 : i = b + n
    BY <1>3
  <2>2. b + 1 + (n - 1) = i /\ b + 1 + n = i + 1 /\ n \in 0 .. N
    BY <1>3, <2>1
  <2>3. Knows(f[n - 1], text, i, e, filter)
    BY <1>6, <2>2
  <2>4. entry[n] = text[i]
    BY <1>1, <1>3, <2>1
  <2>5. Knows(ByteLine(f[n - 1], text[i], filter), text, i + 1, e, filter)
    BY <1>1, <2>3, ByteLineKnows
  <2>6. Knows(f[n], text, i + 1, e, filter)
    BY <1>4, <2>4, <2>5
  <2>7. QED
    BY <2>2, <2>6
<1> HIDE DEF A
<1>7. N \in A
  <2>1. \A n \in 0 .. N : n \in A
    BY <1>3, <1>5, <1>6, LoopInduction
  <2>2. QED
    BY <1>3, <2>1
<1>8. Knows(f[N], text, e, e, filter)
  BY <1>3, <1>7 DEF A
<1>9. QED
  BY <1>2, <1>8 DEF Knows, entry

LEMMA BytesAsStream ==
  ASSUME NEW text \in Texts, WellFormed(text), NEW filter
  PROVE  parseAvailablePackages(text, filter) = parseAvailablePackageReader(text, filter)
<1> DEFINE byEntry(e) ==
             IF EndsEntry(text, e)
             THEN appendAvailablePackage(parseAvailablePackageFields(Entry(text, e), filter),
                                         filter)
             ELSE <<>>
<1>1. \A e \in 1 .. Len(text) + 1 : byEntry(e) = Contribution(text, filter, e)
  BY ReadsEntry DEF Contribution
<1>2. parseAvailablePackages(text, filter) =
        FlattenSeq([e \in 1 .. Len(text) + 1 |-> byEntry(e)])
  BY DEF parseAvailablePackages
<1> HIDE DEF byEntry
<1>3. [e \in 1 .. Len(text) + 1 |-> byEntry(e)] =
        [e \in 1 .. Len(text) + 1 |-> Contribution(text, filter, e)]
  BY <1>1
<1>4. QED
  BY <1>2, <1>3, StreamIs

----------------------------------------------------------------------------
(* The status database *)

\* Line i continues the last line of a field in the paragraph before line e.
Follows(text, e, field, i) ==
  /\ i \in LinesOf(text, e, Continuation)
  /\ \E j \in LinesOf(text, e, field) :
       /\ j < i /\ j = Max(LinesOf(text, e, field))
       /\ \A k \in j + 1 .. i : text[k].kind \notin Fields

Continued(text, e, field) ==
  [i \in 1 .. e - 1 |-> IF Follows(text, e, field, i) THEN text[i].value ELSE <<>>]

LEMMA FoldedIs ==
  ASSUME NEW text, NEW e, NEW field
  PROVE  FoldedValueOf(text, e, field) =
           ValueOf(text, e, field) \o FlattenSeq(Continued(text, e, field))
BY DEF FoldedValueOf, Continued, Follows

LEMMA ContinuedIs ==
  ASSUME NEW text \in Texts, NEW e \in 1 .. Len(text) + 1, NEW field
  PROVE  Continued(text, e, field) \in [1 .. e - 1 -> Values]
<1>1. \A i \in 1 .. e - 1 : text[i] \in Lines
  BY DEF Texts
<1>2. \A i \in 1 .. e - 1 : text[i].value \in Values
  BY <1>1 DEF Lines
<1>3. <<>> \in Values
  BY DEF Values
<1>4. QED
  BY <1>2, <1>3 DEF Continued

LEMMA ValueIs ==
  ASSUME NEW text \in Texts, NEW e \in 1 .. Len(text) + 1, NEW field
  PROVE  ValueOf(text, e, field) \in Values
<1> DEFINE A == {n \in Nat : ValueOf(text, n + 1, field) \in Values}
<1>1. Len(text) \in Nat /\ <<>> \in Values
  BY DEF Texts, Values
<1>2. 0 \in A
  BY <1>1, FirstValue
<1>3. ASSUME NEW n \in 1 .. Len(text), n - 1 \in A PROVE n \in A
  <2>1. n \in Nat /\ ValueOf(text, n, field) \in Values
    BY <1>1, <1>3
  <2>2. text[n].value \in Values
    <3>1. text[n] \in Lines
      BY DEF Texts
    <3>2. QED
      BY <3>1 DEF Lines
  <2>3. ValueOf(text, n + 1, field) \in Values
    BY <1>1, <2>1, <2>2, NextValue
  <2>4. QED
    BY <2>1, <2>3
<1> HIDE DEF A
<1>4. \A n \in 0 .. Len(text) : n \in A
  BY <1>1, <1>2, <1>3, LoopInduction
<1>5. e - 1 \in 0 .. Len(text) /\ (e - 1) + 1 = e
  BY <1>1
<1>6. QED
  BY <1>4, <1>5 DEF A

\* The folded value of a field, as the paragraph goes on by a line.
LEMMA NextFolded ==
  ASSUME NEW text \in Texts, NEW n \in 1 .. Len(text), text[n].kind # "blank",
         NEW field \in Fields
  PROVE  FoldedValueOf(text, n + 1, field) =
           IF text[n].kind = field THEN text[n].value
           ELSE IF /\ text[n].kind = Continuation
                   /\ \E j \in LinesOf(text, n, field) :
                        /\ j = Max(LinesOf(text, n, field))
                        /\ \A k \in j + 1 .. n - 1 : text[k].kind \notin Fields
                THEN FoldedValueOf(text, n, field) \o text[n].value
                ELSE FoldedValueOf(text, n, field)
<1>1. /\ n \in Nat /\ n >= 1 /\ (n + 1) - 1 = n /\ Len(text) \in Nat
      /\ n \in 1 .. Len(text) + 1 /\ n + 1 \in 1 .. Len(text) + 1
  BY DEF Texts
<1>2. Continued(text, n, field) \in [1 .. n - 1 -> Seq(Words)]
      /\ Continued(text, n + 1, field) \in [1 .. n -> Seq(Words)]
  BY <1>1, ContinuedIs DEF Values
<1>3. text[n].value \in Seq(Words) /\ ValueOf(text, n, field) \in Seq(Words)
  <2>1. text[n] \in Lines
    BY DEF Texts
  <2>2. text[n].value \in Values /\ ValueOf(text, n, field) \in Values
    BY <1>1, <2>1, ValueIs DEF Lines
  <2>3. QED
    BY <2>2 DEF Values
<1>4. Continuation \notin Fields
  BY DEF Continuation, Fields
<1>5. CASE text[n].kind = field
  <2> DEFINE I == LinesOf(text, n + 1, field)
  <2>1. Max(I) = n
    <3>1. I = LinesOf(text, n, field) \cup {n}
      BY <1>5, NextLines
    <3>2. \A i \in LinesOf(text, n, field) : i \in Nat /\ i < n
      BY <1>1, LinesBound
    <3> HIDE DEF I
    <3>3. n \in I /\ \A i \in I : i \in Nat /\ i <= n
      BY <1>1, <3>1, <3>2
    <3>4. PICK m : m = Max(I)
      OBVIOUS
    <3>5. m \in I /\ \A i \in I : m >= i
      BY <1>1, <3>3, <3>4 DEF Max
    <3>6. QED
      BY <1>1, <3>3, <3>4, <3>5
  <2>2. ASSUME NEW i \in 1 .. n PROVE ~Follows(text, n + 1, field, i)
    BY <1>1, <2>1 DEF Follows
  <2>3. \A i \in 1 .. n : Continued(text, n + 1, field)[i] = <<>>
    BY <1>1, <2>2 DEF Continued
  <2>4. FlattenSeq(Continued(text, n + 1, field)) = <<>>
    BY <1>1, <1>2, <2>3, FlattenNothing
  <2>5. ValueOf(text, n + 1, field) = text[n].value
    BY <1>5, NextValue
  <2>6. text[n].value \o <<>> = text[n].value
    BY <1>3
  <2>7. QED
    BY <1>5, <2>4, <2>5, <2>6, FoldedIs
<1>6. CASE text[n].kind # field
  <2> DEFINE last == \E j \in LinesOf(text, n, field) :
                       /\ j = Max(LinesOf(text, n, field))
                       /\ \A k \in j + 1 .. n - 1 : text[k].kind \notin Fields
             seqs == Continued(text, n, field)
             more == Continued(text, n + 1, field)
  <2>1. LinesOf(text, n + 1, field) = LinesOf(text, n, field)
        /\ ValueOf(text, n + 1, field) = ValueOf(text, n, field)
    BY <1>6, NextLines, NextValue
  <2>2. ASSUME NEW i \in 1 .. n - 1
        PROVE  Follows(text, n + 1, field, i) <=> Follows(text, n, field, i)
    <3>1. i \in LinesOf(text, n + 1, Continuation) <=> i \in LinesOf(text, n, Continuation)
      <4>1. LinesOf(text, n + 1, Continuation) =
              IF text[n].kind = Continuation THEN LinesOf(text, n, Continuation) \cup {n}
              ELSE LinesOf(text, n, Continuation)
        BY NextLines
      <4>2. i # n
        BY <1>1
      <4>3. QED
        BY <4>1, <4>2
    <3>2. QED
      BY <2>1, <3>1 DEF Follows
  <2>3. ASSUME NEW i \in 1 .. n - 1 PROVE more[i] = seqs[i]
    <3>1. i \in 1 .. n
      BY <1>1
    <3>2. more[i] = IF Follows(text, n + 1, field, i) THEN text[i].value ELSE <<>>
      BY <1>1, <3>1 DEF Continued
    <3>3. seqs[i] = IF Follows(text, n, field, i) THEN text[i].value ELSE <<>>
      BY DEF Continued
    <3>4. QED
      BY <2>2, <3>2, <3>3
  <2>4. FlattenSeq(more) = FlattenSeq(seqs) \o more[n]
    <3> DEFINE N == n - 1
    <3>1. N \in Nat /\ N + 1 = n
      BY <1>1
    <3>2. seqs \in [1 .. N -> Seq(Words)] /\ more \in [1 .. N + 1 -> Seq(Words)]
          /\ \A i \in 1 .. N : more[i] = seqs[i]
      BY <1>2, <2>3, <3>1
    <3> HIDE DEF N, seqs, more
    <3>3. FlattenSeq(more) = FlattenSeq(seqs) \o more[N + 1]
      BY <3>1, <3>2, FlattenAppend
    <3>4. QED
      BY <3>1, <3>3
  <2>5. Follows(text, n + 1, field, n) <=> text[n].kind = Continuation /\ last
    <3>1. n \in LinesOf(text, n + 1, Continuation) <=> text[n].kind = Continuation
      <4>1. n \notin LinesOf(text, n, Continuation)
        BY <1>1, LinesBound
      <4>2. QED
        BY <4>1, NextLines
    <3>2. \A j \in LinesOf(text, n, field) : j \in Nat /\ j < n
      BY <1>1, LinesBound
    <3>3. ASSUME text[n].kind = Continuation, NEW j \in Nat, j < n
          PROVE  (\A k \in j + 1 .. n : text[k].kind \notin Fields)
                   <=> (\A k \in j + 1 .. n - 1 : text[k].kind \notin Fields)
      <4>1. j + 1 .. n = (j + 1 .. n - 1) \cup {n}
        BY <1>1, <3>3
      <4>2. QED
        BY <1>4, <3>3, <4>1
    <3>4. QED
      BY <2>1, <3>1, <3>2, <3>3 DEF Follows
  <2>6. more[n] = IF text[n].kind = Continuation /\ last THEN text[n].value ELSE <<>>
    <3>1. more[n] = IF Follows(text, n + 1, field, n) THEN text[n].value ELSE <<>>
      BY <1>1 DEF Continued
    <3>2. QED
      BY <2>5, <3>1
  <2>7. FlattenSeq(seqs) \in Seq(Words)
    <3>1. n - 1 \in Nat
      BY <1>1
    <3>2. QED
      BY <1>2, <3>1, FlattenInSeq
  <2>8. /\ FoldedValueOf(text, n, field) = ValueOf(text, n, field) \o FlattenSeq(seqs)
        /\ FoldedValueOf(text, n + 1, field) = ValueOf(text, n, field) \o FlattenSeq(more)
    BY <2>1, FoldedIs
  <2> HIDE DEF last, seqs, more
  <2>9. CASE text[n].kind = Continuation /\ last
    <3>1. \A u, v, w \in Seq(Words) : u \o (v \o w) = (u \o v) \o w
      OBVIOUS
    <3>2. FoldedValueOf(text, n + 1, field) = FoldedValueOf(text, n, field) \o text[n].value
      <4>1. FoldedValueOf(text, n + 1, field) =
              ValueOf(text, n, field) \o (FlattenSeq(seqs) \o text[n].value)
        BY <2>4, <2>6, <2>8, <2>9
      <4>2. ValueOf(text, n, field) \o (FlattenSeq(seqs) \o text[n].value) =
              (ValueOf(text, n, field) \o FlattenSeq(seqs)) \o text[n].value
        BY <1>3, <2>7, <3>1
      <4>3. QED
        BY <2>8, <4>1, <4>2
    <3>3. QED
      BY <1>6, <2>9, <3>2 DEF last
  <2>10. CASE ~(text[n].kind = Continuation /\ last)
    <3>1. FlattenSeq(more) = FlattenSeq(seqs)
      BY <2>4, <2>6, <2>7, <2>10
    <3>2. QED
      BY <1>6, <2>8, <2>10, <3>1 DEF last
  <2>11. QED
    BY <2>9, <2>10
<1>7. QED
  BY <1>5, <1>6

IsFieldReading(f, entry) ==
  f = [n \in 0 .. Len(entry) |->
         IF n = 0 THEN [fields |-> [field \in Fields |-> <<>>], current |-> ""]
         ELSE Deb822Line(f[n - 1], entry[n])]

FieldStates == [fields : [Fields -> Values], current : Fields \cup {""}]

LEMMA Deb822LineIs ==
  ASSUME NEW s \in FieldStates, NEW line, line.value \in Values
  PROVE  Deb822Line(s, line) \in FieldStates
<1>1. s.fields \in [Fields -> Values] /\ s.current \in Fields \cup {""}
  BY DEF FieldStates
<1>2. CASE line.kind \in Fields
  <2>1. [s.fields EXCEPT ![line.kind] = line.value] \in [Fields -> Values]
    BY <1>1
  <2>2. QED
    BY <1>2, <2>1 DEF Deb822Line, FieldStates
<1>3. CASE line.kind \notin Fields /\ line.kind = Continuation /\ s.current # ""
  <2>1. s.fields[s.current] \o line.value \in Values
    <3>1. s.fields[s.current] \in Values
      BY <1>1, <1>3
    <3>2. \A u, v \in Seq(Words) : u \o v \in Seq(Words)
      OBVIOUS
    <3>3. QED
      BY <3>1, <3>2 DEF Values
  <2>2. [s.fields EXCEPT ![s.current] = @ \o line.value] \in [Fields -> Values]
    BY <1>1, <2>1
  <2>3. QED
    BY <1>1, <1>3, <2>2 DEF Deb822Line, FieldStates
<1>4. CASE line.kind \notin Fields /\ ~(line.kind = Continuation /\ s.current # "")
  BY <1>4 DEF Deb822Line
<1>5. QED
  BY <1>2, <1>3, <1>4

LEMMA FieldReadingExists ==
  ASSUME NEW entry \in Texts
  PROVE  \E f : IsFieldReading(f, entry)
<1> DEFINE N    == Len(entry)
           S    == FieldStates
           base == [fields |-> [field \in Fields |-> <<>>], current |-> ""]
           step == [n \in 1 .. N |-> [s \in S |-> Deb822Line(s, entry[n])]]
<1>1. N \in Nat /\ \A n \in 1 .. N : entry[n].value \in Values
  <2>1. N \in Nat /\ \A n \in 1 .. N : entry[n] \in Lines
    BY DEF Texts
  <2>2. QED
    BY <2>1 DEF Lines
<1>2. base \in S
  BY DEF FieldStates, Values
<1>3. ASSUME NEW s \in S, NEW n \in 1 .. N
      PROVE  Deb822Line(s, entry[n]) \in S
  BY <1>1, Deb822LineIs
<1>4. PICK f : IsStepwise(f, N, S, base, step)
  <2>1. step \in [1 .. N -> [S -> S]]
    BY <1>3
  <2> HIDE DEF N, S, base, step
  <2>2. QED
    BY <1>1, <1>2, <2>1, LoopExists
<1>5. f \in [0 .. N -> S] /\ f[0] = base
  BY <1>4 DEF IsStepwise
<1>6. ASSUME NEW n \in 1 .. N PROVE f[n] = Deb822Line(f[n - 1], entry[n])
  <2>1. f[n - 1] \in S
    <3>1. n - 1 \in 0 .. N
      BY <1>1
    <3> HIDE DEF N, S, base, step
    <3>2. QED
      BY <1>5, <3>1
  <2>2. f[n] = step[n][f[n - 1]]
    BY <1>4 DEF IsStepwise
  <2>3. QED
    BY <2>1, <2>2
<1>7. IsFieldReading(f, entry)
  <2> DEFINE g == [n \in 0 .. N |-> IF n = 0 THEN base
                                    ELSE Deb822Line(f[n - 1], entry[n])]
  <2>1. ASSUME NEW n \in 0 .. N PROVE f[n] = g[n]
    <3>1. CASE n = 0
      BY <1>1, <1>5, <3>1
    <3>2. CASE n # 0
      <4>1. n \in 1 .. N
        BY <1>1, <3>2
      <4>2. f[n] = Deb822Line(f[n - 1], entry[n])
        BY <1>6, <4>1
      <4>3. g[n] = Deb822Line(f[n - 1], entry[n])
        BY <3>2
      <4>4. QED
        BY <4>2, <4>3
    <3>3. QED
      BY <3>1, <3>2
  <2>2. g = [n \in 0 .. N |-> g[n]] /\ f = [n \in 0 .. N |-> f[n]]
    BY <1>5
  <2> HIDE DEF g
  <2>3. f = g
    BY <2>1, <2>2
  <2>4. QED
    BY <2>3 DEF g, IsFieldReading
<1>8. QED
  BY <1>7

\* What is known before line i of an entry that begins after line b: the folded
\* fields up to there, and which of them the last line of a field belongs to.
KnowsFields(s, text, b, i) ==
  /\ s.fields = [field \in Fields |-> FoldedValueOf(text, i, field)]
  /\ \/ s.current = "" /\ \A k \in b + 1 .. i - 1 : text[k].kind \notin Fields
     \/ \E j \in b + 1 .. i - 1 :
          /\ text[j].kind = s.current /\ s.current \in Fields
          /\ \A k \in j + 1 .. i - 1 : text[k].kind \notin Fields

\* The field that a continuation line goes on with is the current one.
LEMMA LastField ==
  ASSUME NEW text \in Texts, NEW e \in 1 .. Len(text) + 1, NEW b \in Nat,
         Begins(text, b, e), NEW i \in b + 1 .. e - 1, NEW s,
         KnowsFields(s, text, b, i), NEW field \in Fields
  PROVE  s.current = field
           <=> \E j \in LinesOf(text, i, field) :
                 /\ j = Max(LinesOf(text, i, field))
                 /\ \A k \in j + 1 .. i - 1 : text[k].kind \notin Fields
<1>1. i \in Nat /\ i >= b + 1 /\ i <= Len(text) /\ Len(text) \in Nat /\ e \in Nat
  BY DEF Texts
<1>2. \A k \in b + 1 .. i - 1 : text[k].kind # "blank"
  BY <1>1 DEF Begins
<1>3. \A j \in LinesOf(text, i, field) : j \in b + 1 .. i - 1 /\ text[j].kind = field
  <2> SUFFICES ASSUME NEW j \in LinesOf(text, i, field)
               PROVE  j \in b + 1 .. i - 1 /\ text[j].kind = field
    OBVIOUS
  <2>1. j \in Nat /\ 1 <= j /\ j < i /\ text[j].kind = field
        /\ \A k \in j .. i - 1 : text[k].kind # "blank"
    BY <1>1, LinesBound
  <2>2. j > b
    <3>1. CASE b = 0
      BY <2>1, <3>1
    <3>2. CASE b # 0 /\ j <= b
      <4>1. b \in j .. i - 1 /\ text[b].kind = "blank"
        BY <1>1, <2>1, <3>2 DEF Begins
      <4>2. QED
        BY <2>1, <4>1
    <3>3. QED
      BY <2>1, <3>1, <3>2
  <2>3. QED
    BY <1>1, <2>1, <2>2
<1>4. ASSUME NEW j \in b + 1 .. i - 1, text[j].kind = field,
             \A k \in j + 1 .. i - 1 : text[k].kind \notin Fields
      PROVE  j \in LinesOf(text, i, field) /\ j = Max(LinesOf(text, i, field))
  <2>1. j \in LinesOf(text, i, field)
    <3>1. j \in 1 .. i - 1 /\ \A k \in j .. i - 1 : k \in b + 1 .. i - 1
      BY <1>1
    <3>2. QED
      BY <1>2, <1>4, <3>1 DEF LinesOf
  <2>2. \A m \in LinesOf(text, i, field) : m \in Nat /\ j >= m
    <3> SUFFICES ASSUME NEW m \in LinesOf(text, i, field) PROVE m \in Nat /\ j >= m
      OBVIOUS
    <3>1. m \in b + 1 .. i - 1 /\ text[m].kind = field
      BY <1>3
    <3>2. m \notin j + 1 .. i - 1
      BY <1>4, <3>1
    <3>3. QED
      BY <1>1, <3>1, <3>2
  <2>3. PICK m : m = Max(LinesOf(text, i, field))
    OBVIOUS
  <2>4. m \in LinesOf(text, i, field) /\ \A n \in LinesOf(text, i, field) : m >= n
    BY <2>1, <2>2, <2>3 DEF Max
  <2>5. m = j
    BY <1>1, <2>1, <2>2, <2>4
  <2>6. QED
    BY <2>1, <2>3, <2>5
<1>5. "" \notin Fields
  BY DEF Fields
<1>6. ASSUME s.current = field
      PROVE  \E j \in LinesOf(text, i, field) :
               /\ j = Max(LinesOf(text, i, field))
               /\ \A k \in j + 1 .. i - 1 : text[k].kind \notin Fields
  <2>1. PICK j \in b + 1 .. i - 1 :
          /\ text[j].kind = field
          /\ \A k \in j + 1 .. i - 1 : text[k].kind \notin Fields
    BY <1>5, <1>6 DEF KnowsFields
  <2>2. QED
    BY <1>4, <2>1
<1>7. ASSUME NEW j \in LinesOf(text, i, field),
             \A k \in j + 1 .. i - 1 : text[k].kind \notin Fields
      PROVE  s.current = field
  <2>1. j \in b + 1 .. i - 1 /\ text[j].kind = field
    BY <1>3
  <2>2. CASE s.current = "" /\ \A k \in b + 1 .. i - 1 : text[k].kind \notin Fields
    BY <2>1, <2>2
  <2>3. CASE \E m \in b + 1 .. i - 1 :
               /\ text[m].kind = s.current /\ s.current \in Fields
               /\ \A k \in m + 1 .. i - 1 : text[k].kind \notin Fields
    <3>1. PICK m \in b + 1 .. i - 1 :
            /\ text[m].kind = s.current /\ s.current \in Fields
            /\ \A k \in m + 1 .. i - 1 : text[k].kind \notin Fields
      BY <2>3
    <3>2. m \notin j + 1 .. i - 1 /\ j \notin m + 1 .. i - 1
      BY <1>7, <2>1, <3>1
    <3>3. m = j
      BY <1>1, <2>1, <3>2
    <3>4. QED
      BY <2>1, <3>1, <3>3
  <2>4. QED
    BY <2>2, <2>3 DEF KnowsFields
<1>8. QED
  BY <1>6, <1>7

LEMMA NothingFolded ==
  ASSUME NEW text \in Texts, NEW e \in 1 .. Len(text) + 1, NEW b \in Nat,
         Begins(text, b, e), NEW field \in Fields
  PROVE  FoldedValueOf(text, b + 1, field) = <<>>
<1>1. b + 1 \in 1 .. Len(text) + 1 /\ (b + 1) - 1 = b
  BY DEF Begins, Texts
<1>2. /\ LinesOf(text, b + 1, field) = {}
      /\ ValueOf(text, b + 1, field) = <<>>
  BY NothingRead DEF ValueOf
<1>3. Continued(text, b + 1, field) \in [1 .. b -> Seq(Words)]
  BY <1>1, ContinuedIs DEF Values
<1>4. ASSUME NEW i \in 1 .. b PROVE Continued(text, b + 1, field)[i] = <<>>
  BY <1>1, <1>2 DEF Continued, Follows
<1>5. FlattenSeq(Continued(text, b + 1, field)) = <<>>
  BY <1>3, <1>4, FlattenNothing
<1>6. <<>> \o <<>> = <<>>
  OBVIOUS
<1>7. QED
  BY <1>2, <1>5, <1>6, FoldedIs

LEMMA Deb822LineKnows ==
  ASSUME NEW text \in Texts, NEW e \in 1 .. Len(text) + 1, NEW b \in Nat,
         Begins(text, b, e), NEW i \in b + 1 .. e - 1, NEW s \in FieldStates,
         KnowsFields(s, text, b, i)
  PROVE  KnowsFields(Deb822Line(s, text[i]), text, b, i + 1)
<1>1. /\ i \in Nat /\ b \in Nat /\ i >= b + 1 /\ (i + 1) - 1 = i
      /\ i \in 1 .. Len(text) /\ text[i].kind # "blank"
  BY DEF Texts, Begins
<1>2. /\ s.fields = [field \in Fields |-> FoldedValueOf(text, i, field)]
      /\ s.current \in Fields \cup {""}
  BY DEF KnowsFields, FieldStates
<1>3. Continuation \notin Fields /\ "" \notin Fields
  BY DEF Continuation, Fields
<1>4. ASSUME NEW field \in Fields
      PROVE  FoldedValueOf(text, i + 1, field) =
               IF text[i].kind = field THEN text[i].value
               ELSE IF text[i].kind = Continuation /\ s.current = field
                    THEN FoldedValueOf(text, i, field) \o text[i].value
                    ELSE FoldedValueOf(text, i, field)
  <2>1. s.current = field
          <=> \E j \in LinesOf(text, i, field) :
                /\ j = Max(LinesOf(text, i, field))
                /\ \A k \in j + 1 .. i - 1 : text[k].kind \notin Fields
    BY LastField
  <2>2. QED
    BY <1>1, <2>1, NextFolded
<1>5. CASE text[i].kind \in Fields
  <2>1. Deb822Line(s, text[i]) =
          [fields  |-> [s.fields EXCEPT ![text[i].kind] = text[i].value],
           current |-> text[i].kind]
    BY <1>5 DEF Deb822Line
  <2>2. [s.fields EXCEPT ![text[i].kind] = text[i].value] =
          [field \in Fields |-> FoldedValueOf(text, i + 1, field)]
    BY <1>2, <1>3, <1>4, <1>5
  <2>3. i \in b + 1 .. i /\ \A k \in i + 1 .. i : text[k].kind \notin Fields
    BY <1>1
  <2>4. \E j \in b + 1 .. i :
          /\ text[j].kind = text[i].kind /\ text[i].kind \in Fields
          /\ \A k \in j + 1 .. i : text[k].kind \notin Fields
    BY <1>5, <2>3
  <2>5. /\ Deb822Line(s, text[i]).fields =
             [field \in Fields |-> FoldedValueOf(text, i + 1, field)]
        /\ Deb822Line(s, text[i]).current = text[i].kind
    BY <2>1, <2>2
  <2>6. QED
    BY <1>1, <2>4, <2>5 DEF KnowsFields
<1>6. CASE text[i].kind \notin Fields
  <2>1. CASE text[i].kind = Continuation /\ s.current # ""
    <3>1. Deb822Line(s, text[i]) =
            [fields  |-> [s.fields EXCEPT ![s.current] = @ \o text[i].value],
             current |-> s.current]
      BY <1>6, <2>1 DEF Deb822Line
    <3>2. [s.fields EXCEPT ![s.current] = @ \o text[i].value] =
            [field \in Fields |-> FoldedValueOf(text, i + 1, field)]
      BY <1>2, <1>4, <1>6, <2>1
    <3>3. PICK j \in b + 1 .. i - 1 :
            /\ text[j].kind = s.current /\ s.current \in Fields
            /\ \A k \in j + 1 .. i - 1 : text[k].kind \notin Fields
      BY <2>1 DEF KnowsFields
    <3>4. j \in b + 1 .. i /\ \A k \in j + 1 .. i : k = i \/ k \in j + 1 .. i - 1
      BY <1>1
    <3>5. \A k \in j + 1 .. i : text[k].kind \notin Fields
      BY <1>6, <3>3, <3>4
    <3>6. \E m \in b + 1 .. i :
            /\ text[m].kind = s.current /\ s.current \in Fields
            /\ \A k \in m + 1 .. i : text[k].kind \notin Fields
      BY <3>3, <3>4, <3>5
    <3>7. /\ Deb822Line(s, text[i]).fields =
               [field \in Fields |-> FoldedValueOf(text, i + 1, field)]
          /\ Deb822Line(s, text[i]).current = s.current
      BY <3>1, <3>2
    <3>8. QED
      BY <1>1, <3>6, <3>7 DEF KnowsFields
  <2>2. CASE ~(text[i].kind = Continuation /\ s.current # "")
    <3>1. Deb822Line(s, text[i]) = s
      BY <1>6, <2>2 DEF Deb822Line
    <3>2. ASSUME NEW field \in Fields
          PROVE  FoldedValueOf(text, i + 1, field) = FoldedValueOf(text, i, field)
      BY <1>3, <1>4, <1>6, <2>2
    <3>3. s.fields = [field \in Fields |-> FoldedValueOf(text, i + 1, field)]
      BY <1>2, <3>2
    <3>4. \/ s.current = "" /\ \A k \in b + 1 .. i : text[k].kind \notin Fields
          \/ \E j \in b + 1 .. i :
               /\ text[j].kind = s.current /\ s.current \in Fields
               /\ \A k \in j + 1 .. i : text[k].kind \notin Fields
      <4>1. CASE s.current = "" /\ \A k \in b + 1 .. i - 1 : text[k].kind \notin Fields
        <5>1. \A k \in b + 1 .. i : k = i \/ k \in b + 1 .. i - 1
          BY <1>1
        <5>2. QED
          BY <1>6, <4>1, <5>1
      <4>2. CASE \E j \in b + 1 .. i - 1 :
                   /\ text[j].kind = s.current /\ s.current \in Fields
                   /\ \A k \in j + 1 .. i - 1 : text[k].kind \notin Fields
        <5>1. PICK j \in b + 1 .. i - 1 :
                /\ text[j].kind = s.current /\ s.current \in Fields
                /\ \A k \in j + 1 .. i - 1 : text[k].kind \notin Fields
          BY <4>2
        <5>2. j \in b + 1 .. i /\ \A k \in j + 1 .. i : k = i \/ k \in j + 1 .. i - 1
          BY <1>1
        <5>3. \A k \in j + 1 .. i : text[k].kind \notin Fields
          BY <1>6, <5>1, <5>2
        <5>4. QED
          BY <5>1, <5>2, <5>3
      <4>3. QED
        BY <4>1, <4>2 DEF KnowsFields
    <3>5. QED
      BY <1>1, <3>1, <3>3, <3>4 DEF KnowsFields
  <2>3. QED
    BY <2>1, <2>2
<1>7. QED
  BY <1>5, <1>6

LEMMA ReadsFields ==
  ASSUME NEW text \in Texts, NEW e \in 1 .. Len(text) + 1
  PROVE  parseDeb822Fields(Entry(text, e)) =
           [field \in Fields |-> FoldedValueOf(text, e, field)]
<1> DEFINE entry == Entry(text, e)
           N     == Len(entry)
           base  == [fields |-> [field \in Fields |-> <<>>], current |-> ""]
<1>1. PICK b \in Nat :
        /\ Begins(text, b, e)
        /\ entry \in Texts
        /\ N = e - 1 - b
        /\ \A m \in 1 .. e - 1 - b : entry[m] = text[b + m] /\ b + m \in 1 .. Len(text)
  BY EntryIs
<1>2. PICK f : /\ IsFieldReading(f, entry)
               /\ parseDeb822Fields(entry) = f[N].fields
  <2>1. parseDeb822Fields(entry) = (CHOOSE f : IsFieldReading(f, entry))[N].fields
    BY DEF parseDeb822Fields, IsFieldReading
  <2>2. \E f : IsFieldReading(f, entry)
    <3> HIDE DEF entry
    <3>1. QED
      BY <1>1, FieldReadingExists
  <2>3. QED
    BY <2>1, <2>2
<1>3. N \in Nat /\ e \in Nat /\ b + 1 + N = e
  BY <1>1 DEF Begins, Texts
<1> HIDE DEF entry, N
<1>4. f[0] = base /\ \A n \in 1 .. N : f[n] = Deb822Line(f[n - 1], entry[n])
  <2>1. \A n \in 0 .. N : f[n] = IF n = 0 THEN base ELSE Deb822Line(f[n - 1], entry[n])
    BY <1>2 DEF IsFieldReading, N
  <2>2. \A n \in 1 .. N : n \in 0 .. N /\ n # 0
    BY <1>3
  <2>3. 0 \in 0 .. N
    BY <1>3
  <2> HIDE DEF base
  <2>4. QED
    BY <2>1, <2>2, <2>3
<1> DEFINE A == {n \in 0 .. N : f[n] \in FieldStates /\ KnowsFields(f[n], text, b, b + 1 + n)}
<1>5. 0 \in A
  <2>1. \A field \in Fields : FoldedValueOf(text, b + 1, field) = <<>>
    BY <1>1, NothingFolded
  <2>2. base.fields = [field \in Fields |-> FoldedValueOf(text, b + 1, field)]
    BY <2>1
  <2>3. \A k \in b + 1 .. (b + 1) - 1 : text[k].kind \notin Fields
    OBVIOUS
  <2>4. KnowsFields(base, text, b, b + 1)
    BY <2>2, <2>3 DEF KnowsFields
  <2>5. base \in FieldStates
    BY DEF FieldStates, Values
  <2>6. b + 1 + 0 = b + 1 /\ 0 \in 0 .. N
    BY <1>3
  <2> HIDE DEF base
  <2>7. QED
    BY <1>4, <2>4, <2>5, <2>6
<1>6. ASSUME NEW n \in 1 .. N, n - 1 \in A PROVE n \in A
  <2>1. PICK i \in b + 1 .. e - 1 : i = b + n
    BY <1>3
  <2>2. b + 1 + (n - 1) = i /\ b + 1 + n = i + 1 /\ n \in 0 .. N
    BY <1>3, <2>1
  <2>3. f[n - 1] \in FieldStates /\ KnowsFields(f[n - 1], text, b, i)
    BY <1>6, <2>2
  <2>4. entry[n] = text[i]
    BY <1>1, <1>3, <2>1
  <2>5. KnowsFields(Deb822Line(f[n - 1], text[i]), text, b, i + 1)
    BY <1>1, <2>3, Deb822LineKnows
  <2>6. Deb822Line(f[n - 1], entry[n]) \in FieldStates
    <3>1. entry \in Texts /\ n \in 1 .. Len(entry)
      BY <1>1 DEF N
    <3>2. entry[n].value \in Values
      <4>1. entry[n] \in Lines
        BY <3>1 DEF Texts
      <4>2. QED
        BY <4>1 DEF Lines
    <3>3. QED
      BY <2>3, <3>2, Deb822LineIs
  <2>7. f[n] \in FieldStates /\ KnowsFields(f[n], text, b, i + 1)
    BY <1>4, <2>4, <2>5, <2>6
  <2>8. QED
    BY <2>2, <2>7
<1> HIDE DEF A
<1>7. N \in A
  <2>1. \A n \in 0 .. N : n \in A
    BY <1>3, <1>5, <1>6, LoopInduction
  <2>2. QED
    BY <1>3, <2>1
<1>8. KnowsFields(f[N], text, b, e)
  BY <1>3, <1>7 DEF A
<1>9. QED
  BY <1>2, <1>8 DEF KnowsFields, entry

LEMMA StatusByParagraphs ==
  ASSUME NEW text \in Texts
  PROVE  ParseInstalledPackages(text) = PackagesOf(text)
<1> DEFINE parsed(e) ==
             IF EndsEntry(text, e)
             THEN LET fields == parseDeb822Fields(Entry(text, e))
                  IN IF fields["Package"] = <<>> THEN <<>>
                     ELSE <<[Name         |-> fields["Package"],
                             Architecture |-> fields["Architecture"],
                             Version      |-> fields["Version"],
                             Status       |-> fields["Status"]]>>
             ELSE <<>>
           named(e) ==
             IF EndsEntry(text, e) /\ FoldedValueOf(text, e, "Package") # <<>>
             THEN <<[Name         |-> FoldedValueOf(text, e, "Package"),
                     Architecture |-> FoldedValueOf(text, e, "Architecture"),
                     Version      |-> FoldedValueOf(text, e, "Version"),
                     Status       |-> FoldedValueOf(text, e, "Status")]>>
             ELSE <<>>
<1>1. ASSUME NEW e \in 1 .. Len(text) + 1 PROVE parsed(e) = named(e)
  <2>1. \A field \in Fields :
          parseDeb822Fields(Entry(text, e))[field] = FoldedValueOf(text, e, field)
    BY ReadsFields
  <2>2. {"Package", "Architecture", "Version", "Status"} \subseteq Fields
    BY DEF Fields
  <2>3. QED
    BY <2>1, <2>2
<1>2. ParseInstalledPackages(text) = FlattenSeq([e \in 1 .. Len(text) + 1 |-> parsed(e)])
  BY DEF ParseInstalledPackages
<1>3. PackagesOf(text) = FlattenSeq([e \in 1 .. Len(text) + 1 |-> named(e)])
  BY DEF PackagesOf
<1> HIDE DEF parsed, named
<1>4. [e \in 1 .. Len(text) + 1 |-> parsed(e)] = [e \in 1 .. Len(text) + 1 |-> named(e)]
  BY <1>1
<1>5. QED
  BY <1>2, <1>3, <1>4
=============================================================================
