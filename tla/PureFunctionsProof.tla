------------------------- MODULE PureFunctionsProof -------------------------
(***************************************************************************)
(* What the functions that keep no state return, for any texts,            *)
(* inventories, statuses and release files.                                *)
(***************************************************************************)
EXTENDS PureFunctions, IndexParserProof, VersionOrderProof, FiniteSetTheorems

\* What a step has called.
LEMMA Calls ==
  ASSUME [Next]_call
  PROVE  \/ call' = call
         \/ call'.function = "none"
         \/ Compare /\ call'.function = "CompareVersions"
         \/ ParseStatus /\ call'.function = "ParseInstalledPackages"
         \/ CountStatus /\ call'.function = "countInstalledPackages"
         \/ ParseIndex /\ call'.function = "ParseAvailablePackages"
         \/ Revise /\ call'.function = "installedPackageRevision"
         \/ LookUpRelease /\ call'.function = "packageIndexMetadata"
         \/ ResolveConfig /\ call'.function = "ResolveFeatureConfig"
<1>1. CASE Compare
  BY <1>1 DEF Compare
<1>2. CASE ParseStatus
  BY <1>2 DEF ParseStatus
<1>3. CASE CountStatus
  BY <1>3 DEF CountStatus
<1>4. CASE ParseIndex
  BY <1>4 DEF ParseIndex
<1>5. CASE Revise
  BY <1>5 DEF Revise
<1>6. CASE LookUpRelease
  BY <1>6 DEF LookUpRelease
<1>7. CASE ResolveConfig
  BY <1>7 DEF ResolveConfig
<1>8. CASE Return
  BY <1>8 DEF Return, Idle
<1>9. QED
  BY <1>1, <1>2, <1>3, <1>4, <1>5, <1>6, <1>7, <1>8 DEF Next

\* Nothing has been called yet.
LEMMA NothingReturned ==
  ASSUME Init, NEW function \in {"CompareVersions", "ParseInstalledPackages",
                                 "countInstalledPackages", "ParseAvailablePackages",
                                 "installedPackageRevision", "packageIndexMetadata",
                                 "ResolveFeatureConfig"}
  PROVE  ~Returned(function)
BY DEF Init, Idle, Returned

----------------------------------------------------------------------------
(* The revision of an inventory *)

\* The packages a filter is made of, by what the revision says of them.
LEMMA SameRevision ==
  ASSUME NEW installed, NEW other,
         installedPackageRevision(installed) = installedPackageRevision(other)
  PROVE  \A i \in DOMAIN installed :
           isInstalledStatus(installed[i].Status) =>
             \E j \in DOMAIN other :
               /\ isInstalledStatus(other[j].Status)
               /\ other[j].Name = installed[i].Name
               /\ ArchitectureOr(other[j].Architecture)
                    = ArchitectureOr(installed[i].Architecture)
<1> DEFINE Chosen(inv)  == {i \in DOMAIN inv : isInstalledStatus(inv[i].Status)}
           LineOf(inv, i) == <<inv[i].Name, ArchitectureOr(inv[i].Architecture),
                               inv[i].Version>>
<1>1. \A inv : DOMAIN installedPackageRevision(inv) = {LineOf(inv, i) : i \in Chosen(inv)}
  BY DEF installedPackageRevision
<1>2. {LineOf(installed, i) : i \in Chosen(installed)} = {LineOf(other, i) : i \in Chosen(other)}
  BY <1>1
<1>3. ASSUME NEW i \in Chosen(installed)
      PROVE  \E j \in Chosen(other) : LineOf(other, j) = LineOf(installed, i)
  BY <1>2
<1>4. QED
  BY <1>3

LEMMA FilterIn ==
  ASSUME NEW installed, NEW other,
         installedPackageRevision(installed) = installedPackageRevision(other)
  PROVE  /\ DOMAIN installedPackageFilter(installed)
              \subseteq DOMAIN installedPackageFilter(other)
         /\ \A name \in DOMAIN installedPackageFilter(installed) :
              installedPackageFilter(installed)[name]
                \subseteq installedPackageFilter(other)[name]
<1> DEFINE Selected(inv) == {pkg \in ToSet(inv) :
                               isInstalledStatus(pkg.Status) /\ pkg.Name # <<>>}
<1>1. ASSUME NEW pkg \in Selected(installed)
      PROVE  \E p \in Selected(other) :
               p.Name = pkg.Name
                 /\ ArchitectureOr(p.Architecture) = ArchitectureOr(pkg.Architecture)
  <2>1. PICK i \in DOMAIN installed : pkg = installed[i]
    BY DEF ToSet
  <2>2. PICK j \in DOMAIN other :
          /\ isInstalledStatus(other[j].Status) /\ other[j].Name = pkg.Name
          /\ ArchitectureOr(other[j].Architecture) = ArchitectureOr(pkg.Architecture)
    BY <2>1, SameRevision, ZenonT(60)
  <2>3. other[j] \in Selected(other)
    BY <2>2 DEF ToSet
  <2>4. QED
    BY <2>2, <2>3
<1>2. \A inv : /\ DOMAIN installedPackageFilter(inv) = {pkg.Name : pkg \in Selected(inv)}
               /\ \A name \in DOMAIN installedPackageFilter(inv) :
                    installedPackageFilter(inv)[name] =
                      {<<"all">>} \cup {ArchitectureOr(pkg.Architecture) :
                                          pkg \in {p \in Selected(inv) : p.Name = name}}
  BY DEF installedPackageFilter
<1> HIDE DEF Selected
<1>3. DOMAIN installedPackageFilter(installed) \subseteq DOMAIN installedPackageFilter(other)
  <2>1. DOMAIN installedPackageFilter(installed) = {pkg.Name : pkg \in Selected(installed)}
    BY <1>2
  <2>2. DOMAIN installedPackageFilter(other) = {pkg.Name : pkg \in Selected(other)}
    BY <1>2
  <2>3. QED
    BY <1>1, <2>1, <2>2
<1>4. ASSUME NEW name \in DOMAIN installedPackageFilter(installed)
      PROVE  installedPackageFilter(installed)[name] \subseteq
               installedPackageFilter(other)[name]
  BY <1>1, <1>2, <1>3
<1>5. QED
  BY <1>3, <1>4

LEMMA SameFilter ==
  ASSUME NEW installed, NEW other,
         installedPackageRevision(installed) = installedPackageRevision(other)
  PROVE  installedPackageFilter(installed) = installedPackageFilter(other)
<1> DEFINE f == installedPackageFilter(installed)
           g == installedPackageFilter(other)
<1>1. DOMAIN f \subseteq DOMAIN g /\ \A name \in DOMAIN f : f[name] \subseteq g[name]
  BY FilterIn
<1>2. DOMAIN g \subseteq DOMAIN f /\ \A name \in DOMAIN g : g[name] \subseteq f[name]
  BY FilterIn
<1>3. f = [name \in DOMAIN f |-> f[name]] /\ g = [name \in DOMAIN g |-> g[name]]
  BY DEF installedPackageFilter
<1> HIDE DEF f, g
<1>4. f = g
  BY <1>1, <1>2, <1>3
<1>5. QED
  BY <1>4 DEF f, g

\* The revision under which parsed packages are cached leaves out nothing that
\* the filter of the parser looks at.
THEOREM Revisions == Spec => []RevisionDeterminesFilter
<1>1. Init => RevisionDeterminesFilter
  BY NothingReturned DEF RevisionDeterminesFilter
<1>2. ASSUME Revise PROVE RevisionDeterminesFilter'
  <2>1. PICK installed \in Inventories, other \in Inventories :
          call' = [function |-> "installedPackageRevision",
                   installed |-> installed, other |-> other,
                   result |-> [installed |-> installedPackageRevision(installed),
                               other |-> installedPackageRevision(other)]]
    BY <1>2 DEF Revise
  <2>2. QED
    BY <2>1, SameFilter DEF RevisionDeterminesFilter
<1>3. RevisionDeterminesFilter /\ [Next]_call => RevisionDeterminesFilter'
  <2> SUFFICES ASSUME RevisionDeterminesFilter, [Next]_call
               PROVE  RevisionDeterminesFilter'
    OBVIOUS
  <2>1. CASE call' = call
    BY <2>1 DEF RevisionDeterminesFilter, Returned
  <2>2. CASE call'.function # "installedPackageRevision"
    BY <2>2 DEF RevisionDeterminesFilter, Returned
  <2>3. QED
    BY <1>2, <2>1, <2>2, Calls
<1>4. QED
  BY <1>1, <1>3, PTL DEF Spec


----------------------------------------------------------------------------
(* The counts of installed and broken packages *)

Flags   == {"ok", "reinstreq"}
Present == {"half-installed", "unpacked", "half-configured",
            "triggers-awaited", "triggers-pending", "installed"}
Chosen(installed, want, states) ==
  {i \in DOMAIN installed :
     \E s \in states, flag \in Flags : installed[i].Status = <<want, flag, s>>}

LEMMA ThreeWords ==
  ASSUME NEW words \in Seq(STRING), NEW want, NEW states
  PROVE  (\E s \in states, flag \in Flags : words = <<want, flag, s>>)
           <=> /\ Len(words) = 3 /\ words[1] = want
               /\ words[2] \in Flags /\ words[3] \in states
<1>1. ASSUME Len(words) = 3 PROVE words = <<words[1], words[2], words[3]>>
  BY <1>1
<1>2. ASSUME NEW flag, NEW s, words = <<want, flag, s>>
      PROVE  Len(words) = 3 /\ words[1] = want /\ words[2] = flag /\ words[3] = s
  BY <1>2
<1>3. QED
  BY <1>1, <1>2

\* What is chosen and present is installed or broken, and what is installed is
\* wanted or held.
LEMMA Partition ==
  ASSUME NEW installed \in StatusLists
  PROVE  LET complete == {i \in DOMAIN installed : isInstalledStatus(installed[i].Status)}
             broken   == {i \in DOMAIN installed : isBrokenStatus(installed[i].Status)}
             wanted   == Chosen(installed, "install", {"installed"})
             held     == Chosen(installed, "hold", {"installed"})
         IN  /\ complete = wanted \cup held /\ wanted \cap held = {}
             /\ Chosen(installed, "install", Present) = wanted \cup broken
             /\ wanted \cap broken = {}
<1>1. ASSUME NEW i \in DOMAIN installed
      PROVE  /\ installed[i].Status \in Seq(STRING)
             /\ Len(installed[i].Status) = 3 =>
                  /\ installed[i].Status[2] \in Flags
                  /\ installed[i].Status[3] \in Present \cup {"not-installed", "config-files"}
  <2> DEFINE Package == [Status : Seq(STRING)]
  <2>1. installed[i] \in Package
    <3>1. installed \in Seq(Package)
      BY StatusListsAssumption
    <3> HIDE DEF Package
    <3>2. QED
      BY <3>1
  <2>2. Len(installed[i].Status) = 3 =>
          /\ installed[i].Status[2] \in {"ok", "reinstreq"}
          /\ installed[i].Status[3] \in
               {"not-installed", "config-files", "half-installed", "unpacked",
                "half-configured", "triggers-awaited", "triggers-pending", "installed"}
    BY StatusListsAssumption
  <2>3. QED
    BY <2>1, <2>2 DEF Flags, Present
<1>2. ASSUME NEW i \in DOMAIN installed, NEW want, NEW states
      PROVE  i \in Chosen(installed, want, states)
               <=> /\ Len(installed[i].Status) = 3 /\ installed[i].Status[1] = want
                   /\ installed[i].Status[2] \in Flags /\ installed[i].Status[3] \in states
  <2>1. installed[i].Status \in Seq(STRING)
    BY <1>1
  <2>2. i \in Chosen(installed, want, states)
          <=> \E s \in states, flag \in Flags : installed[i].Status = <<want, flag, s>>
    BY DEF Chosen
  <2>3. (\E s \in states, flag \in Flags : installed[i].Status = <<want, flag, s>>)
          <=> /\ Len(installed[i].Status) = 3 /\ installed[i].Status[1] = want
              /\ installed[i].Status[2] \in Flags /\ installed[i].Status[3] \in states
    BY <2>1, ThreeWords
  <2>4. QED
    BY <2>2, <2>3
<1>3. \A want, states : Chosen(installed, want, states) \subseteq DOMAIN installed
  BY DEF Chosen
<1>4. QED
  BY <1>1, <1>2, <1>3 DEF isInstalledStatus, isBrokenStatus, Present

\* A package that should be installed and is present is counted once, as
\* installed or as broken.
THEOREM Counting == Spec => []PresentIsCountedOnce
<1>1. Init => PresentIsCountedOnce
  BY NothingReturned DEF PresentIsCountedOnce
<1>2. ASSUME NEW installed \in StatusLists
      PROVE  /\ countInstalledPackages(installed) + countBrokenPackages(installed)
                  = Cardinality(Chosen(installed, "install", Present))
                      + Cardinality(Chosen(installed, "hold", {"installed"}))
             /\ countInstalledPackages(installed)
                  = Cardinality(Chosen(installed, "install", {"installed"}))
                      + Cardinality(Chosen(installed, "hold", {"installed"}))
  <2> DEFINE complete == {i \in DOMAIN installed : isInstalledStatus(installed[i].Status)}
             broken   == {i \in DOMAIN installed : isBrokenStatus(installed[i].Status)}
             wanted   == Chosen(installed, "install", {"installed"})
             held     == Chosen(installed, "hold", {"installed"})
             present  == Chosen(installed, "install", Present)
  <2>1. IsFiniteSet(DOMAIN installed)
    <3>1. DOMAIN installed = 1 .. Len(installed) /\ Len(installed) \in Nat
      BY StatusListsAssumption
    <3>2. QED
      BY <3>1, FS_Interval
  <2>2. /\ complete = wanted \cup held /\ wanted \cap held = {}
        /\ present = wanted \cup broken /\ wanted \cap broken = {}
    BY Partition
  <2>3. wanted \subseteq DOMAIN installed /\ held \subseteq DOMAIN installed
    BY DEF Chosen
  <2>4. countInstalledPackages(installed) = Cardinality(complete)
        /\ countBrokenPackages(installed) = Cardinality(broken)
    BY DEF countInstalledPackages, countBrokenPackages
  <2>5. broken \subseteq DOMAIN installed
    OBVIOUS
  <2> HIDE DEF complete, broken, wanted, held, present
  <2>6. IsFiniteSet(wanted) /\ IsFiniteSet(held) /\ IsFiniteSet(broken)
    BY <2>1, <2>3, <2>5, FS_Subset
  <2>7. /\ Cardinality(wanted) \in Nat /\ Cardinality(held) \in Nat
        /\ Cardinality(broken) \in Nat
    BY <2>6, FS_CardinalityType
  <2>8. Cardinality(complete) = Cardinality(wanted) + Cardinality(held)
    <3>1. Cardinality(wanted \cup held)
            = Cardinality(wanted) + Cardinality(held) - Cardinality(wanted \cap held)
      BY <2>6, FS_Union
    <3>2. QED
      BY <2>2, <2>7, <3>1, FS_EmptySet
  <2>9. Cardinality(present) = Cardinality(wanted) + Cardinality(broken)
    <3>1. Cardinality(wanted \cup broken)
            = Cardinality(wanted) + Cardinality(broken) - Cardinality(wanted \cap broken)
      BY <2>6, FS_Union
    <3>2. QED
      BY <2>2, <2>7, <3>1, FS_EmptySet
  <2>10. QED
    BY <2>4, <2>7, <2>8, <2>9 DEF wanted, held, present
<1>3. ASSUME CountStatus PROVE PresentIsCountedOnce'
  <2>1. PICK installed \in StatusLists :
          call' = [function |-> "countInstalledPackages", installed |-> installed,
                   result |-> [installed |-> countInstalledPackages(installed),
                               broken    |-> countBrokenPackages(installed)]]
    BY <1>3 DEF CountStatus
  <2>2. /\ call'.installed = installed
        /\ call'.result.installed = countInstalledPackages(installed)
        /\ call'.result.broken = countBrokenPackages(installed)
    BY <2>1
  <2>3. QED
    BY <1>2, <2>2 DEF PresentIsCountedOnce, Chosen, Present, Flags
<1>4. PresentIsCountedOnce /\ [Next]_call => PresentIsCountedOnce'
  <2> SUFFICES ASSUME PresentIsCountedOnce, [Next]_call
               PROVE  PresentIsCountedOnce'
    OBVIOUS
  <2>1. CASE call' = call
    BY <2>1, ZenonT(60) DEF PresentIsCountedOnce, Returned
  <2>2. CASE call'.function # "countInstalledPackages"
    BY <2>2 DEF PresentIsCountedOnce, Returned
  <2>3. QED
    BY <1>3, <2>1, <2>2, Calls
<1>5. QED
  BY <1>1, <1>4, PTL DEF Spec

----------------------------------------------------------------------------
(* The release file of an index *)

IsOver(prefix, name) == IsStrictPrefix(prefix, name)

\* What the loop over the releases knows after n of them: the metadata are those
\* of the longest prefix so far.
Longest(name, releases, order, start, s, n) ==
  /\ s.longestPrefix \in Nat
  /\ \A i \in 1 .. n : IsOver(order[i], name) => Len(order[i]) <= s.longestPrefix
  /\ \/ /\ s = start
        /\ \A i \in 1 .. n : ~IsOver(order[i], name)
     \/ \E i \in 1 .. n : /\ IsOver(order[i], name)
                          /\ s.longestPrefix = Len(order[i])
                          /\ s.metadata = releases[order[i]]

\* f[n] is what the loop knows after n releases.
IsLoop(f, name, releases, order, N, start) ==
  f = [n \in 0 .. N |->
         IF n = 0 THEN start ELSE Visit(name, releases, f[n - 1], order[n])]

LEMMA VisitLongest ==
  ASSUME NEW name, NEW releases, NEW n \in Nat, NEW N \in Nat, n < N,
         NEW order \in [1 .. N -> Seq(STRING) \ {<<>>}],
         NEW start, start.longestPrefix = 0,
         NEW s, Longest(name, releases, order, start, s, n)
  PROVE  Longest(name, releases, order, start,
                 Visit(name, releases, s, order[n + 1]), n + 1)
<1> DEFINE p == order[n + 1]
<1>1. n + 1 \in 1 .. N /\ p \in Seq(STRING) /\ p # <<>>
  OBVIOUS
<1>2. Len(p) \in Nat /\ Len(p) > 0
  BY <1>1
<1>3. \A i \in 1 .. n + 1 : i \in 1 .. n \/ i = n + 1
  OBVIOUS
<1>4. \A i \in 1 .. n : i \in 1 .. n + 1 /\ Len(order[i]) \in Nat
  OBVIOUS
<1>5. CASE IsOver(p, name) /\ Len(p) > s.longestPrefix
  <2>1. Visit(name, releases, s, p) = [metadata |-> releases[p], longestPrefix |-> Len(p)]
    BY <1>5 DEF Visit, IsOver
  <2> DEFINE t == Visit(name, releases, s, p)
  <2>2. t.longestPrefix = Len(p) /\ t.metadata = releases[p]
    BY <2>1
  <2>3. n + 1 \in 1 .. n + 1
    OBVIOUS
  <2> HIDE DEF t
  <2>4. \A i \in 1 .. n + 1 : IsOver(order[i], name) => Len(order[i]) <= t.longestPrefix
    BY <1>2, <1>3, <1>4, <1>5, <2>2 DEF Longest
  <2>5. Longest(name, releases, order, start, t, n + 1)
    BY <1>2, <1>5, <2>2, <2>3, <2>4 DEF Longest
  <2>6. QED
    BY <2>5 DEF t
<1>6. CASE ~(IsOver(p, name) /\ Len(p) > s.longestPrefix)
  <2>1. Visit(name, releases, s, p) = s
    BY <1>6 DEF Visit, IsOver
  <2>2. IsOver(p, name) => Len(p) <= s.longestPrefix
    BY <1>2, <1>6 DEF Longest
  <2>3. CASE s = start /\ \A i \in 1 .. n : ~IsOver(order[i], name)
    <3>1. ~IsOver(p, name)
      BY <1>2, <2>2, <2>3
    <3>2. QED
      BY <1>3, <2>1, <2>3, <3>1 DEF Longest
  <2>4. CASE \E i \in 1 .. n : /\ IsOver(order[i], name)
                               /\ s.longestPrefix = Len(order[i])
                               /\ s.metadata = releases[order[i]]
    BY <1>3, <1>4, <2>1, <2>2, <2>4 DEF Longest
  <2>5. QED
    BY <2>3, <2>4 DEF Longest
<1>7. QED
  BY <1>5, <1>6

\* So it knows of all of them when it ends.
LEMMA LoopEnds ==
  ASSUME NEW name, NEW releases, NEW N \in Nat,
         NEW order \in [1 .. N -> Seq(STRING) \ {<<>>}],
         NEW start, start.longestPrefix = 0,
         NEW f, IsLoop(f, name, releases, order, N, start)
  PROVE  Longest(name, releases, order, start, f[N], N)
<1> DEFINE A == {n \in Nat : n <= N => Longest(name, releases, order, start, f[n], n)}
<1>1. 0 \in A
  BY DEF Longest, IsLoop
<1>2. ASSUME NEW n \in Nat, n \in A PROVE n + 1 \in A
  <2> SUFFICES ASSUME n + 1 <= N
               PROVE  Longest(name, releases, order, start, f[n + 1], n + 1)
    OBVIOUS
  <2>1. Longest(name, releases, order, start, f[n], n)
    BY <1>2
  <2>2. f[n + 1] = Visit(name, releases, f[n], order[n + 1])
    <3>1. n + 1 \in 0 .. N /\ n + 1 # 0 /\ (n + 1) - 1 = n
      OBVIOUS
    <3>2. f[n + 1] = Visit(name, releases, f[(n + 1) - 1], order[n + 1])
      BY <3>1 DEF IsLoop
    <3>3. QED
      BY <3>1, <3>2
  <2>3. n < N
    OBVIOUS
  <2>4. Longest(name, releases, order, start, Visit(name, releases, f[n], order[n + 1]), n + 1)
    BY <2>1, <2>3, VisitLongest
  <2>5. QED
    BY <2>2, <2>4
<1> HIDE DEF A
<1>3. N \in A
  BY <1>1, <1>2, SetInduction
<1>4. QED
  BY <1>3 DEF A

\* The loop of packageIndexMetadata is such an iteration.
LEMMA VisitsExist ==
  ASSUME NEW name, NEW releases, NEW N \in Nat, NEW order, NEW start
  PROVE  \E f : IsLoop(f, name, releases, order, N, start)
<1> DEFINE Outcome(n, s) == Visit(name, releases, s, order[n])
\* Visit needs no more than the states that can be reached.
           Metadata == {start} \cup {[metadata |-> releases[order[n]],
                                      longestPrefix |-> Len(order[n])] : n \in 1 .. N}
           step == [n \in 1 .. N |-> [s \in Metadata |-> Outcome(n, s)]]
<1>1. \A n \in 1 .. N, s \in Metadata : Outcome(n, s) \in Metadata
  BY DEF Visit
<1>2. PICK f : IsIteration(f, N, start, step)
  <2> HIDE DEF step
  <2> QED BY IterationExists
<1>3. \A n \in 0 .. N : f[n] = IF n = 0 THEN start ELSE step[n][f[n - 1]]
  BY <1>2 DEF IsIteration
<1>4. \A n \in 1 .. N, s \in Metadata : step[n][s] = Outcome(n, s)
  OBVIOUS
<1> HIDE DEF step, Outcome, Metadata
<1>5. \A n \in 0 .. N : f[n] \in Metadata
  <2> DEFINE A == {n \in Nat : n <= N => f[n] \in Metadata}
  <2>1. 0 \in A
    BY <1>3 DEF Metadata
  <2>2. ASSUME NEW n \in Nat, n \in A PROVE n + 1 \in A
    <3> SUFFICES ASSUME n + 1 <= N PROVE f[n + 1] \in Metadata
      OBVIOUS
    <3>1. n + 1 \in 1 .. N /\ n + 1 \in 0 .. N /\ (n + 1) - 1 = n /\ f[n] \in Metadata
      BY <2>2
    <3>2. f[n + 1] = step[n + 1][f[n]]
      BY <1>3, <3>1
    <3>3. QED
      BY <1>1, <1>4, <3>1, <3>2
  <2> HIDE DEF A
  <2>3. Nat \subseteq A
    BY <2>1, <2>2, SetInduction
  <2>4. QED
    BY <2>3 DEF A
<1>6. \A n \in 0 .. N : f[n] = IF n = 0 THEN start ELSE Outcome(n, f[n - 1])
  <2> SUFFICES ASSUME NEW n \in 0 .. N, n # 0 PROVE f[n] = Outcome(n, f[n - 1])
    BY <1>3
  <2>1. n \in 1 .. N /\ n - 1 \in 0 .. N
    OBVIOUS
  <2>2. f[n] = step[n][f[n - 1]]
    BY <1>3
  <2>3. QED
    BY <1>4, <1>5, <2>1, <2>2
<1>7. f = [n \in 0 .. N |-> f[n]]
  BY <1>2 DEF IsIteration
<1>8. f = [n \in 0 .. N |-> IF n = 0 THEN start ELSE Outcome(n, f[n - 1])]
  BY <1>6, <1>7
<1>9. QED
  BY <1>8 DEF Outcome, IsLoop

NoRelease(name) == [Priority |-> defaultPackagePriority, Backports |-> isBackportsValue(name)]

\* In whatever order the releases are visited, the one with the longest prefix
\* over the index counts.
LEMMA LongestCounts ==
  ASSUME NEW name, NEW releases, NEW order \in Seq(Seq(STRING) \ {<<>>})
  PROVE  \/ /\ packageIndexMetadata(name, releases, order) = NoRelease(name)
            /\ \A i \in DOMAIN order : ~IsOver(order[i], name)
         \/ \E i \in DOMAIN order :
              /\ IsOver(order[i], name)
              /\ \A j \in DOMAIN order :
                   IsOver(order[j], name) => Len(order[j]) <= Len(order[i])
              /\ packageIndexMetadata(name, releases, order) = releases[order[i]]
<1> DEFINE N     == Len(order)
           start == [metadata |-> NoRelease(name), longestPrefix |-> 0]
           f == CHOOSE f : IsLoop(f, name, releases, order, N, start)
<1>1. /\ N \in Nat /\ DOMAIN order = 1 .. N
      /\ order \in [1 .. N -> Seq(STRING) \ {<<>>}]
  <2> DEFINE T == Seq(STRING) \ {<<>>}
  <2>1. order \in Seq(T)
    OBVIOUS
  <2> HIDE DEF T
  <2>2. N \in Nat /\ DOMAIN order = 1 .. N /\ order \in [1 .. N -> T]
    BY <2>1
  <2>3. QED
    BY <2>2 DEF T
<1>2. packageIndexMetadata(name, releases, order) = f[N].metadata
  BY DEF packageIndexMetadata, NoRelease, IsLoop
<1>3. start.longestPrefix = 0 /\ start.metadata = NoRelease(name)
  OBVIOUS
<1> HIDE DEF N, start
<1>4. \E g : IsLoop(g, name, releases, order, N, start)
  BY <1>1, VisitsExist
<1>5. IsLoop(f, name, releases, order, N, start)
  BY <1>4
<1> HIDE DEF f
<1>6. Longest(name, releases, order, start, f[N], N)
  BY <1>1, <1>3, <1>5, LoopEnds
<1>7. QED
  BY <1>1, <1>2, <1>3, <1>6 DEF Longest

----------------------------------------------------------------------------
(* The map of the releases *)

LEMMA ReleaseOf ==
  ASSUME NEW files \in ReleaseFiles, NEW prefix \in DOMAIN readReleaseMetadata(files)
  PROVE  \E file \in files :
           /\ file.readable /\ file.prefix = prefix
           /\ \A other \in files :
                other.readable /\ other.prefix = prefix /\ other.suffix = "Release"
                  => other = file
           /\ readReleaseMetadata(files)[prefix] = MetadataOf(file)
<1> DEFINE same == {file \in files : file.readable /\ file.prefix = prefix}
           Kept(file) == file \in same
                           /\ \A other \in same : other.suffix = "Release" => file = other
<1>1. same # {}
  BY DEF readReleaseMetadata
<1>2. \E file \in same : \A other \in same : other.suffix = "Release" => file = other
  <2>1. \A file, other \in same : file.suffix = other.suffix => file = other
    BY ReleaseFilesAssumption
  <2>2. CASE \E file \in same : file.suffix = "Release"
    BY <2>1, <2>2
  <2>3. CASE ~\E file \in same : file.suffix = "Release"
    BY <1>1, <2>3
  <2>4. QED
    BY <2>2, <2>3
<1>3. readReleaseMetadata(files)[prefix] =
        MetadataOf(CHOOSE file \in same :
                     \A other \in same : other.suffix = "Release" => file = other)
  <2> DEFINE readable == {file \in files : file.readable}
  <2>1. {file \in readable : file.prefix = prefix} = same
    OBVIOUS
  <2>2. prefix \in {file.prefix : file \in readable}
    BY DEF readReleaseMetadata
  <2>3. QED
    BY <2>1, <2>2 DEF readReleaseMetadata
<1>4. QED
  BY <1>2, <1>3

LEMMA MetadataFields ==
  ASSUME NEW file, file.NotAutomatic \in BOOLEAN, file.ButAutomaticUpgrades \in BOOLEAN
  PROVE  /\ MetadataOf(file).Priority = Pin(file)
         /\ MetadataOf(file).Backports =
              (isBackportsValue(file.prefix) \/ file.namesBackports)
BY DEF MetadataOf, releasePriority, releaseIsBackports, Pin, defaultPackagePriority,
       notAutomaticButAutomaticUpgradesPriority, notAutomaticPriority

\* Every release has a place in the order in which they are visited.
LEMMA AllVisited ==
  ASSUME NEW S, IsFiniteSet(S), NEW order \in SetToSeqs(S)
  PROVE  /\ order \in [1 .. Cardinality(S) -> S] /\ Cardinality(S) \in Nat
         /\ \A x \in S : \E i \in 1 .. Cardinality(S) : order[i] = x
<1> DEFINE D == 1 .. Cardinality(S)
<1>1. Cardinality(S) \in Nat
  BY FS_CardinalityType
<1>2. order \in [D -> S] /\ \A i, j \in D : i # j => order[i] # order[j]
  BY DEF SetToSeqs
<1>3. IsFiniteSet(D) /\ Cardinality(D) = Cardinality(S)
  BY <1>1, FS_Interval
<1>4. order \in Injection(D, S)
  BY <1>2 DEF Injection, IsInjective
<1>5. order \in Surjection(D, S)
  <2> HIDE DEF D
  <2> QED BY <1>3, <1>4, FS_Injection
<1>6. QED
  BY <1>1, <1>2, <1>5 DEF Surjection

LEMMA PrefixMarks ==
  ASSUME NEW prefix, NEW name, prefix \in Seq(STRING), name \in Seq(STRING),
         IsStrictPrefix(prefix, name), isBackportsValue(prefix)
  PROVE  isBackportsValue(name)
<1>1. Len(prefix) <= Len(name) /\ SubSeq(prefix, 1, Len(prefix)) = SubSeq(name, 1, Len(prefix))
  BY DEF IsStrictPrefix, IsPrefix
<1>2. PICK i \in 1 .. Len(prefix) : prefix[i] = "backports"
  BY DEF isBackportsValue, ToSet
<1>3. SubSeq(prefix, 1, Len(prefix))[i] = prefix[i] /\ SubSeq(name, 1, Len(prefix))[i] = name[i]
  BY <1>1
<1>4. i \in 1 .. Len(name) /\ name[i] = "backports"
  BY <1>1, <1>2, <1>3
<1>5. QED
  BY <1>4 DEF isBackportsValue, ToSet

LEMMA ReleasesOfFiles ==
  ASSUME NEW files \in ReleaseFiles
  PROVE  LET releases == readReleaseMetadata(files)
         IN  /\ DOMAIN releases = {file.prefix : file \in {f \in files : f.readable}}
             /\ IsFiniteSet(DOMAIN releases)
             /\ DOMAIN releases \subseteq Seq(STRING) \ {<<>>}
<1> DEFINE readable == {f \in files : f.readable}
           P == {file.prefix : file \in readable}
           g == [file \in readable |-> file.prefix]
<1>1. DOMAIN readReleaseMetadata(files) = P
  BY DEF readReleaseMetadata
<1>2. IsFiniteSet(readable)
  BY ReleaseFilesAssumption, FS_Subset
<1>3. g \in Surjection(readable, P)
  BY DEF Surjection
<1>4. IsFiniteSet(P)
  <2> HIDE DEF g, P, readable
  <2> QED BY <1>2, <1>3, FS_Surjection
<1>5. P \subseteq Seq(STRING) \ {<<>>}
  <2> SUFFICES ASSUME NEW file \in files PROVE file.prefix \in Seq(STRING) \ {<<>>}
    OBVIOUS
  <2>1. files \subseteq [prefix : Seq(STRING) \ {<<>>}, suffix : ReleaseSuffixes,
                         readable : BOOLEAN, NotAutomatic : BOOLEAN,
                         ButAutomaticUpgrades : BOOLEAN, namesBackports : BOOLEAN]
    BY ReleaseFilesAssumption
  <2> DEFINE T == Seq(STRING) \ {<<>>}
  <2>2. file.prefix \in T
    <3>1. files \subseteq [prefix : T, suffix : ReleaseSuffixes,
                           readable : BOOLEAN, NotAutomatic : BOOLEAN,
                           ButAutomaticUpgrades : BOOLEAN, namesBackports : BOOLEAN]
      BY <2>1
    <3> HIDE DEF T
    <3>2. QED
      BY <3>1
  <2>3. QED
    BY <2>2
<1>6. QED
  BY <1>1, <1>4, <1>5

LEMMA GoverningRelease ==
  ASSUME NEW files \in ReleaseFiles, NEW name \in IndexNames,
         NEW order \in SetToSeqs(DOMAIN readReleaseMetadata(files))
  PROVE  LET result == IndexMetadata(name, readReleaseMetadata(files), order)
             marked == isBackportsValue(name)
         IN  IF Governing(name, files) = {}
             THEN result = [Priority |-> 500, Backports |-> marked]
             ELSE \E file \in Governing(name, files) :
                    result = [Priority |-> Pin(file),
                              Backports |-> marked \/ file.namesBackports]
<1> DEFINE releases == readReleaseMetadata(files)
           P == DOMAIN releases
           N == Cardinality(P)
           found == packageIndexMetadata(name, releases, order)
           over == {file \in files : file.readable /\ IsStrictPrefix(file.prefix, name)}
<1>1. /\ P = {file.prefix : file \in {f \in files : f.readable}}
      /\ IsFiniteSet(P) /\ P \subseteq Seq(STRING) \ {<<>>}
  BY ReleasesOfFiles
<1>2. name \in Seq(STRING)
  BY IndexNamesAssumption
<1>3. /\ order \in [1 .. N -> P] /\ N \in Nat
      /\ \A prefix \in P : \E i \in 1 .. N : order[i] = prefix
  BY <1>1, AllVisited
<1>4. order \in Seq(Seq(STRING) \ {<<>>}) /\ DOMAIN order = 1 .. N
  <2> DEFINE T == Seq(STRING) \ {<<>>}
  <2>1. order \in [1 .. N -> T] /\ N \in Nat
    BY <1>1, <1>3
  <2> HIDE DEF T, N
  <2>2. order \in Seq(T) /\ DOMAIN order = 1 .. N
    BY <2>1
  <2>3. QED
    BY <2>2 DEF T
<1>5. IndexMetadata(name, releases, order) =
        [Priority  |-> found.Priority,
         Backports |-> found.Backports \/ isBackportsValue(name)]
  BY DEF IndexMetadata
<1>6. \A file \in over : file.prefix \in P /\ Len(file.prefix) \in Nat
  BY <1>1
<1>7. CASE /\ found = NoRelease(name)
           /\ \A i \in DOMAIN order : ~IsOver(order[i], name)
  <2>1. Governing(name, files) = {}
    BY <1>3, <1>4, <1>6, <1>7 DEF Governing, IsOver
  <2>2. found.Priority = 500
        /\ (found.Backports \/ isBackportsValue(name)) = isBackportsValue(name)
    <3>1. found.Priority = 500 /\ found.Backports = isBackportsValue(name)
      BY <1>7 DEF NoRelease, defaultPackagePriority
    <3>2. isBackportsValue(name) \in BOOLEAN
      BY DEF isBackportsValue
    <3>3. QED
      BY <3>1, <3>2
  <2>3. QED
    BY <1>5, <2>1, <2>2
<1>8. ASSUME NEW i \in DOMAIN order, IsOver(order[i], name),
             \A j \in DOMAIN order : IsOver(order[j], name) => Len(order[j]) <= Len(order[i]),
             found = releases[order[i]]
      PROVE  \E file \in Governing(name, files) :
               IndexMetadata(name, releases, order)
                 = [Priority |-> Pin(file),
                    Backports |-> isBackportsValue(name) \/ file.namesBackports]
  <2>1. order[i] \in P
    BY <1>3, <1>4
  <2>2. PICK file \in files : /\ file.readable /\ file.prefix = order[i]
                              /\ \A other \in files :
                                   other.readable /\ other.prefix = order[i]
                                     /\ other.suffix = "Release" => other = file
                              /\ releases[order[i]] = MetadataOf(file)
    BY <2>1, ReleaseOf
  <2>3. file \in over
    BY <1>8, <2>2 DEF IsOver
  <2>4. \A other \in over : Len(other.prefix) <= Len(file.prefix)
    BY <1>3, <1>4, <1>6, <1>8, <2>2 DEF IsOver
  <2>5. file \in Governing(name, files)
    BY <2>2, <2>3, <2>4 DEF Governing
  <2>6. file.NotAutomatic \in BOOLEAN /\ file.ButAutomaticUpgrades \in BOOLEAN
    BY ReleaseFilesAssumption
  <2>7. found.Priority = Pin(file)
        /\ found.Backports = (isBackportsValue(file.prefix) \/ file.namesBackports)
    BY <1>8, <2>2, <2>6, MetadataFields
  <2>8. isBackportsValue(file.prefix) => isBackportsValue(name)
    BY <1>1, <1>2, <2>1, <2>2, <2>3, PrefixMarks
  <2>9. (found.Backports \/ isBackportsValue(name))
          = (isBackportsValue(name) \/ file.namesBackports)
    BY <2>7, <2>8
  <2>10. QED
    BY <1>5, <2>5, <2>7, <2>9
<1>9. CASE \E i \in DOMAIN order :
             /\ IsOver(order[i], name)
             /\ \A j \in DOMAIN order :
                  IsOver(order[j], name) => Len(order[j]) <= Len(order[i])
             /\ found = releases[order[i]]
  BY <1>8, <1>9
<1>10. QED
  <2>1. \/ /\ found = NoRelease(name)
           /\ \A i \in DOMAIN order : ~IsOver(order[i], name)
        \/ \E i \in DOMAIN order :
             /\ IsOver(order[i], name)
             /\ \A j \in DOMAIN order :
                  IsOver(order[j], name) => Len(order[j]) <= Len(order[i])
             /\ found = releases[order[i]]
    BY <1>4, LongestCounts, ZenonT(60)
  <2>2. QED
    BY <1>7, <1>9, <2>1

\* An index has the priority and the backports mark of the most specific release
\* file over it, in whatever order the map of the releases is visited.
THEOREM Releases == Spec => []MostSpecificReleaseGoverns
<1>1. Init => MostSpecificReleaseGoverns
  BY NothingReturned DEF MostSpecificReleaseGoverns
<1>2. ASSUME LookUpRelease PROVE MostSpecificReleaseGoverns'
  <2>1. PICK files \in ReleaseFiles, name \in IndexNames :
          \E order \in SetToSeqs(DOMAIN readReleaseMetadata(files)) :
            call' = [function |-> "packageIndexMetadata", files |-> files, name |-> name,
                     order |-> order,
                     result |-> IndexMetadata(name, readReleaseMetadata(files), order)]
    BY <1>2 DEF LookUpRelease
  <2>2. PICK order \in SetToSeqs(DOMAIN readReleaseMetadata(files)) :
          /\ call'.files = files /\ call'.name = name
          /\ call'.result = IndexMetadata(name, readReleaseMetadata(files), order)
    BY <2>1
  <2>3. IF Governing(name, files) = {}
        THEN call'.result = [Priority |-> 500, Backports |-> isBackportsValue(name)]
        ELSE \E file \in Governing(name, files) :
               call'.result = [Priority |-> Pin(file),
                               Backports |-> isBackportsValue(name) \/ file.namesBackports]
    BY <2>2, GoverningRelease
  <2>4. QED
    BY <2>2, <2>3 DEF MostSpecificReleaseGoverns, isBackportsValue
<1>3. MostSpecificReleaseGoverns /\ [Next]_call => MostSpecificReleaseGoverns'
  <2> SUFFICES ASSUME MostSpecificReleaseGoverns, [Next]_call
               PROVE  MostSpecificReleaseGoverns'
    OBVIOUS
  <2>1. CASE call' = call
    BY <2>1 DEF MostSpecificReleaseGoverns, Returned
  <2>2. CASE call'.function # "packageIndexMetadata"
    BY <2>2 DEF MostSpecificReleaseGoverns, Returned
  <2>3. QED
    BY <1>2, <2>1, <2>2, Calls
<1>4. QED
  BY <1>1, <1>3, PTL DEF Spec

----------------------------------------------------------------------------
(* Texts *)

LEMMA TextsOfStrings == StatusTexts \cup IndexTexts \subseteq Texts
<1> DEFINE lines == [kind : Kinds, value : Seq(STRING)]
<1>1. Seq(STRING) \subseteq Values
  <2> DEFINE strings == STRING
  <2>1. strings \subseteq Words
    BY DEF Words
  <2> HIDE DEF strings
  <2>2. Seq(strings) \subseteq Seq(Words)
    BY <2>1
  <2>3. QED
    BY <2>2 DEF Values, strings
<1>2. lines \subseteq Lines
  BY <1>1 DEF Lines
<1>3. StatusTexts \cup IndexTexts \subseteq Seq(lines)
  BY TextsAssumption
<1> HIDE DEF lines
<1>4. Seq(lines) \subseteq Seq(Lines)
  BY <1>2
<1>5. QED
  BY <1>3, <1>4 DEF Texts

\* The packages read from a status database are those that its paragraphs name,
\* in the order of the text and with the folded fields of one paragraph each.
THEOREM StatusReading == Spec => []StatusIsReadByParagraphs
<1>1. Init => StatusIsReadByParagraphs
  BY NothingReturned DEF StatusIsReadByParagraphs
<1>2. ASSUME ParseStatus PROVE StatusIsReadByParagraphs'
  <2>1. PICK text \in StatusTexts :
          call'.text = text /\ call'.result = ParseInstalledPackages(text)
    BY <1>2 DEF ParseStatus
  <2>2. ParseInstalledPackages(text) = PackagesOf(text)
    BY TextsOfStrings, StatusByParagraphs
  <2>3. QED
    BY <2>1, <2>2 DEF StatusIsReadByParagraphs
<1>3. StatusIsReadByParagraphs /\ [Next]_call => StatusIsReadByParagraphs'
  <2> SUFFICES ASSUME StatusIsReadByParagraphs, [Next]_call
               PROVE  StatusIsReadByParagraphs'
    OBVIOUS
  <2>1. CASE call' = call
    BY <2>1 DEF StatusIsReadByParagraphs, Returned
  <2>2. CASE call'.function # "ParseInstalledPackages"
    BY <2>2 DEF StatusIsReadByParagraphs, Returned
  <2>3. QED
    BY <1>2, <2>1, <2>2, Calls
<1>4. QED
  BY <1>1, <1>3, PTL DEF Spec

LEMMA IndexRead ==
  ASSUME ParseIndex
  PROVE  \E text \in IndexTexts, installed \in Inventories :
           LET filter == installedPackageFilter(installed)
           IN /\ call'.text = text /\ call'.installed = installed
              /\ call'.streamed = parseAvailablePackageReader(text, filter)
              /\ call'.parsed = parseAvailablePackages(text, filter)
BY DEF ParseIndex

\* The stream parser returns, in the order of the text, what the paragraphs offer
\* for the packages that are installed, each offer from the fields of one
\* paragraph.
THEOREM Streaming == Spec => []StreamSelectsOffers
<1>1. Init => StreamSelectsOffers
  BY NothingReturned DEF StreamSelectsOffers
<1>2. ASSUME ParseIndex PROVE StreamSelectsOffers'
  <2>1. PICK text \in IndexTexts, installed \in Inventories :
          /\ call'.text = text /\ call'.installed = installed
          /\ call'.streamed =
               parseAvailablePackageReader(text, installedPackageFilter(installed))
    BY <1>2, IndexRead
  <2>2. parseAvailablePackageReader(text, installedPackageFilter(installed)) =
          OffersFor(text, installed)
    BY TextsOfStrings, StreamOffers
  <2>3. QED
    BY <2>1, <2>2 DEF StreamSelectsOffers
<1>3. StreamSelectsOffers /\ [Next]_call => StreamSelectsOffers'
  <2> SUFFICES ASSUME StreamSelectsOffers, [Next]_call
               PROVE  StreamSelectsOffers'
    OBVIOUS
  <2>1. CASE call' = call
    BY <2>1 DEF StreamSelectsOffers, Returned
  <2>2. CASE call'.function # "ParseAvailablePackages"
    BY <2>2 DEF StreamSelectsOffers, Returned
  <2>3. QED
    BY <1>2, <2>1, <2>2, Calls
<1>4. QED
  BY <1>1, <1>3, PTL DEF Spec

\* The byte parser returns the same, although it leaves a paragraph as soon as its
\* fate is known, where no paragraph names a field twice.
THEOREM Agreement == Spec => []ParsersAgree
<1>1. Init => ParsersAgree
  BY NothingReturned DEF ParsersAgree
<1>2. ASSUME ParseIndex PROVE ParsersAgree'
  <2>1. PICK text \in IndexTexts, installed \in Inventories :
          LET filter == installedPackageFilter(installed)
          IN /\ call'.text = text /\ call'.installed = installed
             /\ call'.streamed = parseAvailablePackageReader(text, filter)
             /\ call'.parsed = parseAvailablePackages(text, filter)
    BY <1>2, IndexRead
  <2>2. WellFormed(text) =>
          parseAvailablePackages(text, installedPackageFilter(installed))
            = parseAvailablePackageReader(text, installedPackageFilter(installed))
    BY TextsOfStrings, BytesAsStream
  <2>3. QED
    BY <2>1, <2>2 DEF ParsersAgree
<1>3. ParsersAgree /\ [Next]_call => ParsersAgree'
  <2> SUFFICES ASSUME ParsersAgree, [Next]_call
               PROVE  ParsersAgree'
    OBVIOUS
  <2>1. CASE call' = call
    BY <2>1 DEF ParsersAgree, Returned
  <2>2. CASE call'.function # "ParseAvailablePackages"
    BY <2>2 DEF ParsersAgree, Returned
  <2>3. QED
    BY <1>2, <2>1, <2>2, Calls
<1>4. QED
  BY <1>1, <1>3, PTL DEF Spec

----------------------------------------------------------------------------
(* Versions *)

\* Two versions in the form of the policy compare as the policy orders them:
\* by epoch, version and revision, a tilde before the end, letters before the
\* other characters and numbers by their value.
THEOREM Comparing == Spec => []VersionsCompareAsDebian
<1>1. Init => VersionsCompareAsDebian
  BY NothingReturned DEF VersionsCompareAsDebian
<1>2. ASSUME Compare PROVE VersionsCompareAsDebian'
  <2>1. PICK left \in VersionTexts, right \in VersionTexts :
          /\ call'.left = left /\ call'.right = right
          /\ call'.result = CompareVersions(left, right)
    BY <1>2 DEF Compare
  <2>2. left \in Seq(Runes) /\ right \in Seq(Runes)
    BY VersionsAssumption
  <2>3. HasPolicyForm(left) /\ HasPolicyForm(right) =>
          CompareVersions(left, right) = PolicyOrder(left, right)
    BY <2>2, PolicyFollowed
  <2>4. QED
    BY <2>1, <2>3 DEF VersionsCompareAsDebian
<1>3. VersionsCompareAsDebian /\ [Next]_call => VersionsCompareAsDebian'
  <2> SUFFICES ASSUME VersionsCompareAsDebian, [Next]_call
               PROVE  VersionsCompareAsDebian'
    OBVIOUS
  <2>1. CASE call' = call
    BY <2>1 DEF VersionsCompareAsDebian, Returned
  <2>2. CASE call'.function # "CompareVersions"
    BY <2>2 DEF VersionsCompareAsDebian, Returned
  <2>3. QED
    BY <1>2, <2>1, <2>2, Calls
<1>4. QED
  BY <1>1, <1>3, PTL DEF Spec
=============================================================================
