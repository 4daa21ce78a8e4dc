----------------------- MODULE PackageIndexCacheProof -----------------------
(***************************************************************************)
(* FreshResult and OwnFilter for any number of list files, collectors,     *)
(* updates and read faults.                                                *)
(*                                                                         *)
(* The argument: a call's window holds every state its files were in, so   *)
(* what the call itself stats or reads is in it.  A hit returns a content  *)
(* read by another call, whose revision r of the file is the one this call *)
(* has just seen.  That content is a generation from r on, and the window  *)
(* holds all of those; or the file was gone when the other call read it,   *)
(* and then generation r never comes back, so a call that has seen r has   *)
(* also seen the file go.                                                  *)
(***************************************************************************)
EXTENDS PackageIndexCache, TLAPS

\* The files whose unreadability ends a call.
Trusted == Files \ (FaultyPaths \cap ReleaseFiles)

\* Generation r of f is over, and the calls that have seen it know.
Gone(f, r) ==
  /\ r <= gen[f]
  /\ Stat(f) # r
  /\ \A c \in Collectors :
       Calling(c) /\ r \in window[c][f] => Absent \in window[c][f]

\* Content k was read after generation r of f was seen.
Covers(f, r, k) ==
  r # Absent => \/ r <= k /\ k <= gen[f]
                \/ k = Absent /\ Gone(f, r)

\* A file in the directory has been written.
DiskInv == \A f \in present : gen[f] # Absent

\* A call in progress has seen the present state of every file, and every
\* generation since the first it has seen.
WindowInv ==
  \A c \in Collectors, f \in Files :
    Calling(c) => /\ Stat(f) \in window[c][f]
                  /\ \A s \in window[c][f] :
                       s # Absent => s .. gen[f] \subseteq window[c][f]

\* The revision of a call holds generations it has seen, of every file that
\* did not leave the directory.
RevisionInv ==
  \A c \in Collectors, f \in Files :
    /\ revision[c][f] # Absent =>
         /\ Calling(c)
         /\ revision[c][f] \in window[c][f] /\ revision[c][f] <= gen[f]
    /\ pc[c] = "stat" /\ f \notin todo[c] /\ Absent \notin window[c][f] =>
         revision[c][f] # Absent

\* A call has parsed contents it has seen, none older than its revision.
ReadInv ==
  \A c \in Collectors, f \in Files :
    pc[c] = "read" =>
      /\ Known(c, f) # Absent => Known(c, f) \in window[c][f]
      /\ f \in todo[c] => Known(c, f) = Absent
      /\ f \in Trusted \ todo[c] =>
           /\ Absent \notin window[c][f] => Known(c, f) # Absent
           /\ Covers(f, revision[c][f], Known(c, f))

\* The cached packages are no older than the revision they are filed under.
CacheInv ==
  \A f \in Trusted :
    Covers(f, cachedPackageRevision[f], cachedAvailable.content[f])

\* Packages stay with the installed revision they were selected for.
FilterInv ==
  /\ cachedAvailable.filter = cachedInstalledRevision
  /\ \A c \in Collectors :
       pc[c] \in {"read", "done"} => available[c].filter = installed[c]

IInv == /\ TypeOK /\ DiskInv /\ WindowInv /\ RevisionInv
        /\ ReadInv /\ CacheInv /\ FilterInv /\ FreshResult

----------------------------------------------------------------------------
(* Type correctness *)

LEMMA BumpType == \A n \in Nat : Bump(n) \in 0 .. CounterMod - 1
BY BoundAssumption DEF Bump

LEMMA InitTypeOK == Init => TypeOK
<1> SUFFICES ASSUME Init PROVE TypeOK
  OBVIOUS
<1>1. cachedAvailable \in Available /\ NoFiles \in Revision
  BY DEF Init, NoFiles, Nothing, Available, Revision, Absent
<1>2. gen \in [Files -> Nat] /\ 0 \in 0 .. CounterMod - 1
  BY BoundAssumption DEF Init
<1>3. QED
  BY <1>1, <1>2 DEF Init, TypeOK

LEMMA NextTypeOK == TypeOK /\ [Next]_vars => TypeOK'
<1> SUFFICES ASSUME TypeOK, [Next]_vars PROVE TypeOK'
  OBVIOUS
<1> USE DEF TypeOK, Revision, disk, cache, counter, result
<1>1. CASE Environment
  <2>1. CASE ChangeDpkg
    BY <2>1 DEF ChangeDpkg
  <2>2. ASSUME NEW f \in Files, WriteFile(f) PROVE TypeOK'
    BY <2>2 DEF WriteFile, Witness
  <2>3. ASSUME NEW f \in Files, RemoveFile(f) PROVE TypeOK'
    BY <2>3 DEF RemoveFile, Witness, Absent
  <2>4. QED
    BY <1>1, <2>1, <2>2, <2>3 DEF Environment
<1>2. ASSUME NEW c \in Collectors, Collect(c) PROVE TypeOK'
  <2>1. CASE BeginCollect(c)
    BY <2>1 DEF BeginCollect, Listed, Nothing, NoFiles, Available, Absent, Stat
  <2>2. ASSUME Fail(c) PROVE TypeOK'
    BY <2>2 DEF Fail, Return, NoFiles, Available, Absent
  <2>3. CASE CacheHit(c)
    BY <2>3, BumpType DEF CacheHit, Return, NoFiles, Absent
  <2>4. CASE CacheMiss(c)
    BY <2>4, BumpType DEF CacheMiss, LookedUp
  <2>5. CASE ListStreams(c)
    BY <2>5 DEF ListStreams, Listed, Nothing, NoFiles, Available, Absent
  <2>6. CASE StoreCache(c)
    BY <2>6 DEF StoreCache, Return, NoFiles, Absent
  <2>7. ASSUME NEW f \in Files, StatFile(c, f) PROVE TypeOK'
    BY <2>7 DEF StatFile
  <2>8. ASSUME NEW f \in Files, ReadFile(c, f) PROVE TypeOK'
    BY <2>8 DEF ReadFile, Visit, Available
  <2>9. ASSUME NEW f \in Files, SkipRelease(c, f) PROVE TypeOK'
    BY <2>9 DEF SkipRelease, Visit
  <2>10. QED
    BY <1>2, <2>1, <2>2, <2>3, <2>4, <2>5, <2>6, <2>7, <2>8, <2>9
       DEF Collect, DirectoryFails, StatFails, ParseFails
<1>3. CASE UNCHANGED vars
  BY <1>3 DEF vars
<1>4. QED
  BY <1>1, <1>2, <1>3 DEF Next

\* Every variable keeps its type: the counters wrap at their width and each
\* call stays at one of the code's steps.
THEOREM TypeCorrect == Spec => []TypeOK
BY InitTypeOK, NextTypeOK, PTL DEF Spec

----------------------------------------------------------------------------
(* How a step changes what the calls in progress have seen *)

\* A file stays as it is, leaves the directory or is written again.
DiskStep(f) ==
  \/ gen'[f] = gen[f] /\ Stat(f)' \in {Stat(f), Absent}
  \/ gen'[f] = gen[f] + 1 /\ Stat(f)' = gen'[f]

\* A call in progress has just begun, or has seen the file's new state.
WindowStep(c, f) ==
  Calling(c)' => \/ ~Calling(c) /\ window'[c][f] = {Stat(f)'}
                 \/ /\ Calling(c)
                    /\ window'[c][f] = window[c][f] \cup {Stat(f)'}

LEMMA EveryStep ==
  ASSUME TypeOK, WindowInv, [Next]_vars, NEW f \in Files
  PROVE  DiskStep(f) /\ \A c \in Collectors : WindowStep(c, f)
<1> USE DEF TypeOK, disk, cache, counter, result, DiskStep, WindowStep, Calling
<1>1. CASE Environment
  <2>1. CASE ChangeDpkg
    BY <2>1 DEF ChangeDpkg, Stat, WindowInv
  <2>2. ASSUME NEW g \in Files, WriteFile(g)
        PROVE  DiskStep(f) /\ \A c \in Collectors : WindowStep(c, f)
    BY <2>2 DEF WriteFile, Witness, Stat, WindowInv
  <2>3. ASSUME NEW g \in Files, RemoveFile(g)
        PROVE  DiskStep(f) /\ \A c \in Collectors : WindowStep(c, f)
    BY <2>3 DEF RemoveFile, Witness, Stat, WindowInv
  <2>4. QED
    BY <1>1, <2>1, <2>2, <2>3 DEF Environment
<1>2. ASSUME NEW d \in Collectors, Collect(d)
      PROVE  DiskStep(f) /\ \A c \in Collectors : WindowStep(c, f)
  <2>1. DiskStep(f) /\ Stat(f)' = Stat(f)
    BY <1>2 DEF Collect, BeginCollect, DirectoryFails, Fail, CacheHit, CacheMiss,
                ListStreams, StoreCache, StatFile, StatFails, ReadFile,
                SkipRelease, ParseFails, Stat
  <2>2. ASSUME NEW c \in Collectors PROVE WindowStep(c, f)
    <3>1. CASE BeginCollect(d)
      BY <2>1, <3>1 DEF BeginCollect, WindowInv
    <3>2. CASE Fail(d)
      BY <2>1, <3>2 DEF Fail, Return, WindowInv
    <3>3. CASE CacheHit(d) \/ StoreCache(d)
      BY <2>1, <3>3 DEF CacheHit, StoreCache, Return, WindowInv
    <3>4. CASE CacheMiss(d) \/ ListStreams(d)
      BY <2>1, <3>4 DEF CacheMiss, LookedUp, ListStreams, WindowInv
    <3>5. CASE \E g \in Files : StatFile(d, g) \/ ReadFile(d, g) \/ SkipRelease(d, g)
      BY <2>1, <3>5 DEF StatFile, ReadFile, SkipRelease, WindowInv
    <3>6. QED
      BY <1>2, <3>1, <3>2, <3>3, <3>4, <3>5
         DEF Collect, DirectoryFails, StatFails, ParseFails
  <2>3. QED
    BY <2>1, <2>2
<1>3. CASE UNCHANGED vars
  BY <1>3 DEF vars, Stat, WindowInv
<1>4. QED
  BY <1>1, <1>2, <1>3 DEF Next

\* The window of a call stays complete.
LEMMA WindowStable ==
  ASSUME TypeOK, TypeOK', DiskInv, WindowInv, [Next]_vars
  PROVE  WindowInv'
<1> SUFFICES ASSUME NEW c \in Collectors, NEW f \in Files, Calling(c)'
             PROVE  /\ Stat(f)' \in window'[c][f]
                    /\ \A s \in window'[c][f] :
                         s # Absent => s .. gen'[f] \subseteq window'[c][f]
  BY DEF WindowInv
<1>1. DiskStep(f) /\ WindowStep(c, f)
  BY EveryStep
<1>2. gen[f] \in Nat /\ gen'[f] \in Nat /\ window[c][f] \subseteq Nat
  BY DEF TypeOK
<1>3. Stat(f)' = Absent \/ Stat(f)' = gen'[f]
  BY DEF Stat
<1>4. CASE window'[c][f] = {Stat(f)'}
  BY <1>2, <1>3, <1>4 DEF Absent
<1>5. CASE Calling(c) /\ window'[c][f] = window[c][f] \cup {Stat(f)'}
  <2> SUFFICES ASSUME NEW s \in window'[c][f], s # Absent, NEW t \in s .. gen'[f]
               PROVE  t \in window'[c][f]
    BY <1>5
  <2>1. CASE s \in window[c][f]
    <3>1. s .. gen[f] \subseteq window[c][f]
      BY <1>5, <2>1 DEF WindowInv
    <3>2. CASE gen'[f] = gen[f]
      BY <1>5, <3>1, <3>2
    <3>3. CASE gen'[f] = gen[f] + 1 /\ Stat(f)' = gen'[f]
      BY <1>2, <1>5, <2>1, <3>1, <3>3
    <3>4. QED
      BY <1>1, <3>2, <3>3 DEF DiskStep
  <2>2. CASE s = Stat(f)'
    BY <1>2, <1>3, <1>5, <2>2
  <2>3. QED
    BY <1>5, <2>1, <2>2
<1>6. QED
  BY <1>1, <1>4, <1>5 DEF WindowStep

\* A generation that is over stays over, and a content that covers a revision
\* goes on covering it.
LEMMA CoversStable ==
  ASSUME TypeOK, TypeOK', WindowInv, [Next]_vars,
         NEW f \in Files, NEW r \in Nat, NEW k \in Nat, Covers(f, r, k)
  PROVE  Covers(f, r, k)'
<1>1. DiskStep(f) /\ \A c \in Collectors : WindowStep(c, f)
  BY EveryStep
<1>2. gen[f] \in Nat /\ gen'[f] \in Nat
  BY DEF TypeOK
<1>3. CASE r = Absent \/ (r <= k /\ k <= gen[f])
  BY <1>1, <1>2, <1>3 DEF Covers, DiskStep
<1>4. CASE r # Absent /\ k = Absent /\ Gone(f, r)
  <2>1. r <= gen'[f]
    BY <1>1, <1>2, <1>4 DEF DiskStep, Gone
  <2>2. Stat(f)' # r
    BY <1>1, <1>2, <1>4 DEF DiskStep, Gone
  <2>3. ASSUME NEW c \in Collectors, Calling(c)', r \in window'[c][f]
        PROVE  Absent \in window'[c][f]
    BY <1>1, <1>4, <2>2, <2>3 DEF WindowStep, Gone
  <2>4. QED
    BY <1>4, <2>1, <2>2, <2>3 DEF Covers, Gone
<1>5. QED
  BY <1>3, <1>4 DEF Covers

----------------------------------------------------------------------------
(* The parts of the inductive invariant, one by one *)

LEMMA DiskStable ==
  ASSUME TypeOK, DiskInv, [Next]_vars
  PROVE  DiskInv'
<1>1. CASE Environment
  BY <1>1 DEF Environment, ChangeDpkg, WriteFile, RemoveFile, TypeOK, DiskInv, Absent
<1>2. CASE UNCHANGED disk
  BY <1>2 DEF disk, DiskInv
<1>3. QED
  BY <1>1, <1>2 DEF Next, Collect, BeginCollect, DirectoryFails, Fail, CacheHit,
        CacheMiss, ListStreams, StoreCache, StatFile, StatFails, ReadFile,
        SkipRelease, ParseFails, vars

LEMMA RevisionStable ==
  ASSUME TypeOK, TypeOK', DiskInv, WindowInv, WindowInv', RevisionInv, [Next]_vars
  PROVE  RevisionInv'
<1> DEFINE Stated(c, f) ==
             revision[c][f] # Absent =>
               /\ Calling(c)
               /\ revision[c][f] \in window[c][f] /\ revision[c][f] <= gen[f]
           Complete(c, f) ==
             pc[c] = "stat" /\ f \notin todo[c] /\ Absent \notin window[c][f] =>
               revision[c][f] # Absent
<1> SUFFICES ASSUME NEW c \in Collectors, NEW f \in Files
             PROVE  Stated(c, f)' /\ Complete(c, f)'
  BY DEF RevisionInv
<1>1. DiskStep(f) /\ WindowStep(c, f) /\ Stated(c, f) /\ Complete(c, f)
  BY EveryStep DEF RevisionInv
<1>2. gen[f] \in Nat /\ gen'[f] \in Nat /\ revision[c][f] \in Nat
  BY DEF TypeOK, Revision
<1>3. gen[f] <= gen'[f]
  BY <1>1, <1>2 DEF DiskStep
<1>4. ASSUME pc'[c] = pc[c], revision'[c] = revision[c], todo'[c] = todo[c]
      PROVE  Stated(c, f)' /\ Complete(c, f)'
  <2>1. Stated(c, f)'
    BY <1>1, <1>2, <1>3, <1>4 DEF WindowStep, Calling
  <2>2. Complete(c, f)'
    BY <1>1, <1>4 DEF WindowStep, Calling
  <2>3. QED
    BY <2>1, <2>2
<1>5. CASE Environment
  BY <1>4, <1>5 DEF Environment, ChangeDpkg, WriteFile, RemoveFile
<1>6. ASSUME NEW d \in Collectors, Collect(d) PROVE Stated(c, f)' /\ Complete(c, f)'
  <2>1. CASE BeginCollect(d)
    <3>1. CASE c = d
      BY <1>1, <2>1, <3>1 DEF BeginCollect, Listed, Stat, TypeOK, Calling
    <3>2. CASE c # d
      BY <1>4, <2>1, <3>2 DEF BeginCollect, TypeOK
    <3>3. QED
      BY <3>1, <3>2
  <2>2. CASE Fail(d) \/ CacheHit(d) \/ StoreCache(d)
    <3>1. CASE c = d
      BY <2>2, <3>1 DEF Fail, CacheHit, StoreCache, Return, TypeOK, NoFiles
    <3>2. CASE c # d
      BY <1>4, <2>2, <3>2 DEF Fail, CacheHit, StoreCache, Return, TypeOK
    <3>3. QED
      BY <3>1, <3>2
  <2>3. CASE CacheMiss(d) \/ ListStreams(d)
    <3>1. CASE c = d
      BY <1>1, <1>3, <2>3, <3>1
         DEF CacheMiss, LookedUp, ListStreams, TypeOK, Calling, disk
    <3>2. CASE c # d
      BY <1>4, <2>3, <3>2 DEF CacheMiss, ListStreams, TypeOK
    <3>3. QED
      BY <3>1, <3>2
  <2>4. ASSUME NEW g \in Files, StatFile(d, g) PROVE Stated(c, f)' /\ Complete(c, f)'
    <3>1. CASE c = d /\ f = g
      <4>1. gen[f] \in window[c][f]
        BY <2>4, <3>1 DEF StatFile, Readable, Stat, WindowInv, Calling
      <4>2. gen[f] # Absent
        BY <2>4, <3>1 DEF StatFile, Readable, DiskInv
      <4>3. QED
        BY <1>2, <2>4, <3>1, <4>1, <4>2 DEF StatFile, TypeOK, Revision, Calling, disk
    <3>2. CASE c = d /\ f # g
      BY <1>1, <2>4, <3>2 DEF StatFile, TypeOK, Revision, Calling, disk
    <3>3. CASE c # d
      BY <1>4, <2>4, <3>3 DEF StatFile, TypeOK
    <3>4. QED
      BY <3>1, <3>2, <3>3
  <2>5. ASSUME NEW g \in Files, ReadFile(d, g) \/ SkipRelease(d, g)
        PROVE  Stated(c, f)' /\ Complete(c, f)'
    BY <1>1, <2>5 DEF ReadFile, SkipRelease, Visit, TypeOK, Calling, disk
  <2>6. QED
    BY <1>6, <2>1, <2>2, <2>3, <2>4, <2>5 DEF Collect, DirectoryFails, StatFails, ParseFails
<1>7. CASE UNCHANGED vars
  BY <1>4, <1>7 DEF vars
<1>8. QED
  BY <1>5, <1>6, <1>7 DEF Next

\* The steps that leave the reading of c as it is.
LEMMA ReadFrame ==
  ASSUME TypeOK, TypeOK', WindowInv, ReadInv, [Next]_vars,
         NEW c \in Collectors, NEW f \in Files,
         pc[c] = "read", pc'[c] = "read", revision'[c][f] = revision[c][f],
         f \in todo'[c] <=> f \in todo[c], Known(c, f)' = Known(c, f)
  PROVE  /\ Known(c, f)' # Absent => Known(c, f)' \in window'[c][f]
         /\ f \in todo'[c] => Known(c, f)' = Absent
         /\ f \in Trusted \ todo'[c] =>
              /\ Absent \notin window'[c][f] => Known(c, f)' # Absent
              /\ Covers(f, revision[c][f], Known(c, f))'
<1>1. WindowStep(c, f) /\ Calling(c)
  BY EveryStep DEF Calling
<1>2. window[c][f] \subseteq window'[c][f]
  BY <1>1 DEF WindowStep, Calling
<1>3. ASSUME f \in Trusted \ todo'[c]
      PROVE  Covers(f, revision[c][f], Known(c, f))'
  <2>1. PICK r \in Nat, k \in Nat : r = revision[c][f] /\ k = Known(c, f)
    BY DEF TypeOK, Revision, Available, Known
  <2>2. Covers(f, r, k)
    BY <1>3, <2>1 DEF ReadInv
  <2>3. Covers(f, r, k)'
    BY <2>2, CoversStable
  <2>4. QED
    BY <2>1, <2>3 DEF Covers, Gone
<1>4. QED
  BY <1>2, <1>3 DEF ReadInv

\* A file missing while a call looks for it covers any revision of it.
LEMMA MissingCovers ==
  ASSUME TypeOK, WindowInv, RevisionInv,
         NEW c \in Collectors, NEW f \in Files, Calling(c), f \notin present
  PROVE  Absent \in window[c][f] /\ Covers(f, revision[c][f], Absent)
<1>1. Stat(f) = Absent
  BY DEF Stat
<1>2. \A d \in Collectors : Calling(d) => Absent \in window[d][f]
  BY <1>1 DEF WindowInv
<1>3. revision[c][f] # Absent => Gone(f, revision[c][f])
  BY <1>1, <1>2 DEF Gone, RevisionInv
<1>4. QED
  BY <1>2, <1>3 DEF Covers

LEMMA ReadStable ==
  ASSUME TypeOK, TypeOK', DiskInv, WindowInv, RevisionInv, ReadInv, [Next]_vars
  PROVE  ReadInv'
<1> DEFINE P(c, f) ==
             /\ Known(c, f) # Absent => Known(c, f) \in window[c][f]
             /\ f \in todo[c] => Known(c, f) = Absent
             /\ f \in Trusted \ todo[c] =>
                  /\ Absent \notin window[c][f] => Known(c, f) # Absent
                  /\ Covers(f, revision[c][f], Known(c, f))
<1> SUFFICES ASSUME NEW c \in Collectors, NEW f \in Files, pc'[c] = "read"
             PROVE  P(c, f)'
  BY DEF ReadInv
<1>1. ASSUME pc[c] = "read", revision'[c] = revision[c],
             f \in todo'[c] <=> f \in todo[c], Known(c, f)' = Known(c, f)
      PROVE  P(c, f)'
  BY <1>1, ReadFrame
<1>2. CASE Environment \/ UNCHANGED vars
  BY <1>1, <1>2 DEF Environment, ChangeDpkg, WriteFile, RemoveFile, vars, result, Known
<1>3. ASSUME NEW d \in Collectors, Collect(d) PROVE P(c, f)'
  <2>1. ASSUME c # d PROVE P(c, f)'
    <3>1. /\ pc'[c] = pc[c] /\ revision'[c] = revision[c]
          /\ todo'[c] = todo[c] /\ available'[c] = available[c]
      BY <1>3, <2>1
         DEF Collect, BeginCollect, DirectoryFails, Fail, Return, CacheHit,
             CacheMiss, ListStreams, StoreCache, StatFile, StatFails, ReadFile,
             SkipRelease, ParseFails, Visit, TypeOK, result
    <3>2. QED
      BY <1>1, <3>1 DEF Known
  <2>2. CASE c = d /\ ListStreams(c)
    <3>1. Known(c, f)' = Absent /\ revision' = revision /\ todo'[c] = present
      BY <2>2 DEF ListStreams, Listed, Nothing, NoFiles, Known, TypeOK
    <3>2. ASSUME f \notin present
          PROVE  Absent \in window'[c][f] /\ Covers(f, revision[c][f], Known(c, f))'
      <4>1. Absent \in window[c][f] /\ Covers(f, revision[c][f], Absent)
        BY <2>2, <3>2, MissingCovers DEF ListStreams, Calling
      <4>2. PICK r \in Nat, k \in Nat : r = revision[c][f] /\ k = Absent
        BY DEF TypeOK, Revision, Absent
      <4>3. Covers(f, r, k)'
        BY <4>1, <4>2, CoversStable
      <4>4. QED
        BY <2>2, <3>1, <4>1, <4>2, <4>3 DEF Covers, Gone, ListStreams
    <3>3. QED
      BY <3>1, <3>2
  <2>3. ASSUME c = d, NEW g \in Files, ReadFile(c, g) PROVE P(c, f)'
    <3>1. CASE f = g
      <4>1. Known(c, f)' = gen[f] /\ f \notin todo'[c] /\ window' = window
        BY <2>3, <3>1 DEF ReadFile, Visit, Known, TypeOK, Available, Revision
      <4>2. gen[f] \in window[c][f] /\ gen[f] # Absent
        BY <2>3, <3>1 DEF ReadFile, Visit, Readable, Calling, WindowInv, Stat, DiskInv
      <4>3. revision'[c][f] # Absent => revision'[c][f] <= gen'[f]
        BY <2>3 DEF ReadFile, RevisionInv, disk
      <4>4. gen'[f] = gen[f] /\ gen[f] \in Nat
        BY <2>3 DEF ReadFile, disk, TypeOK
      <4>5. Covers(f, revision[c][f], Known(c, f))'
        BY <4>1, <4>3, <4>4 DEF Covers
      <4>6. QED
        BY <4>1, <4>2, <4>5
    <3>2. CASE f # g
      <4>1. Known(c, f)' = Known(c, f)
        BY <2>3, <3>2 DEF ReadFile, Known, TypeOK, Available, Revision
      <4>2. QED
        BY <1>1, <2>3, <3>2, <4>1 DEF ReadFile, Visit, TypeOK
    <3>3. QED
      BY <3>1, <3>2
  <2>4. ASSUME c = d, NEW g \in Files, SkipRelease(c, g) PROVE P(c, f)'
    <3>1. Known(c, f)' = Known(c, f) /\ pc[c] = "read" /\ revision' = revision
      BY <2>4 DEF SkipRelease, Visit, Known, result
    <3>2. CASE f = g
      <4>1. f \in todo[c] /\ f \notin todo'[c] /\ window' = window /\ Known(c, f) = Absent
        BY <2>4, <3>2 DEF SkipRelease, Visit, ReadInv, TypeOK
      <4>2. ASSUME f \in Trusted
            PROVE  Absent \in window[c][f] /\ Covers(f, revision[c][f], Known(c, f))'
        <5>1. f \notin present
          BY <2>4, <3>2, <4>2 DEF SkipRelease, Unreadable, Readable, Trusted
        <5>2. Absent \in window[c][f] /\ Covers(f, revision[c][f], Absent)
          BY <3>1, <5>1, MissingCovers DEF Calling
        <5>3. PICK r \in Nat, k \in Nat : r = revision[c][f] /\ k = Absent
          BY DEF TypeOK, Revision, Absent
        <5>4. Covers(f, r, k)'
          BY <5>2, <5>3, CoversStable
        <5>5. QED
          BY <3>1, <4>1, <5>2, <5>3, <5>4 DEF Covers, Gone
      <4>3. QED
        BY <3>1, <4>1, <4>2
    <3>3. CASE f # g
      BY <1>1, <2>4, <3>1, <3>3 DEF SkipRelease, Visit, TypeOK
    <3>4. QED
      BY <3>2, <3>3
  <2>5. QED
    BY <1>3, <2>1, <2>2, <2>3, <2>4
       DEF Collect, BeginCollect, DirectoryFails, Fail, Return, CacheHit, CacheMiss,
           StoreCache, StatFile, StatFails, ParseFails, TypeOK
<1>4. QED
  BY <1>2, <1>3 DEF Next

LEMMA CacheStable ==
  ASSUME TypeOK, TypeOK', WindowInv, ReadInv, CacheInv, [Next]_vars
  PROVE  CacheInv'
<1> SUFFICES ASSUME NEW f \in Trusted
             PROVE  Covers(f, cachedPackageRevision[f], cachedAvailable.content[f])'
  BY DEF CacheInv
<1> f \in Files
  BY DEF Trusted
<1>1. CASE UNCHANGED cache
  <2>1. PICK r \in Nat, k \in Nat :
          r = cachedPackageRevision[f] /\ k = cachedAvailable.content[f]
    BY DEF TypeOK, Revision, Available
  <2>2. Covers(f, r, k)'
    BY <2>1, CoversStable DEF CacheInv
  <2>3. QED
    BY <1>1, <2>1, <2>2 DEF cache, Covers, Gone
<1>2. ASSUME NEW c \in Collectors, StoreCache(c)
      PROVE  Covers(f, cachedPackageRevision[f], cachedAvailable.content[f])'
  <2>1. PICK r \in Nat, k \in Nat : r = revision[c][f] /\ k = Known(c, f)
    BY DEF TypeOK, Revision, Available, Known
  <2>2. Covers(f, r, k)
    BY <1>2, <2>1 DEF ReadInv, StoreCache
  <2>3. Covers(f, r, k)'
    BY <2>2, CoversStable
  <2>4. QED
    BY <1>2, <2>1, <2>3 DEF StoreCache, Known, Covers, Gone
<1>3. QED
  BY <1>1, <1>2
     DEF Next, Environment, ChangeDpkg, WriteFile, RemoveFile, Collect, BeginCollect,
         DirectoryFails, Fail, CacheHit, CacheMiss, ListStreams, StatFile,
         StatFails, ReadFile, SkipRelease, ParseFails, vars

LEMMA FilterStable ==
  ASSUME TypeOK, FilterInv, [Next]_vars
  PROVE  FilterInv'
<1> USE DEF TypeOK, FilterInv, cache, result
<1>1. CASE Environment \/ UNCHANGED vars
  BY <1>1 DEF Environment, ChangeDpkg, WriteFile, RemoveFile, vars
<1>2. ASSUME NEW d \in Collectors, Collect(d) PROVE FilterInv'
  <2>1. CASE BeginCollect(d)
    BY <2>1 DEF BeginCollect
  <2>2. CASE Fail(d)
    BY <2>2 DEF Fail, Return
  <2>3. CASE CacheHit(d)
    BY <2>3 DEF CacheHit, Matches, Return
  <2>4. CASE CacheMiss(d)
    BY <2>4 DEF CacheMiss
  <2>5. CASE ListStreams(d)
    BY <2>5 DEF ListStreams, Nothing
  <2>6. CASE StoreCache(d)
    BY <2>6 DEF StoreCache, Return
  <2>7. ASSUME NEW g \in Files, StatFile(d, g) \/ SkipRelease(d, g) PROVE FilterInv'
    BY <2>7 DEF StatFile, SkipRelease, Visit
  <2>8. ASSUME NEW g \in Files, ReadFile(d, g) PROVE FilterInv'
    BY <2>8 DEF ReadFile, Visit, Available
  <2>9. QED
    BY <1>2, <2>1, <2>2, <2>3, <2>4, <2>5, <2>6, <2>7, <2>8
       DEF Collect, DirectoryFails, StatFails, ParseFails
<1>3. QED
  BY <1>1, <1>2 DEF Next

\* A call that ends well returns fresh contents; afterwards nothing changes them.
LEMMA FreshStable ==
  ASSUME TypeOK, WindowInv, RevisionInv, ReadInv, CacheInv, FreshResult, [Next]_vars
  PROVE  FreshResult'
<1> SUFFICES ASSUME NEW c \in Collectors, NEW f \in Trusted,
                    pc'[c] = "done", Absent \notin window'[c][f]
             PROVE  Known(c, f)' \in window'[c][f]
  BY DEF FreshResult, Trusted
<1> f \in Files
  BY DEF Trusted
<1>1. ASSUME pc[c] = "done", available'[c] = available[c], window'[c] = window[c]
      PROVE  Known(c, f)' \in window'[c][f]
  BY <1>1 DEF FreshResult, Known, Trusted
<1>2. CASE Environment \/ UNCHANGED vars
  BY <1>1, <1>2 DEF Environment, ChangeDpkg, WriteFile, RemoveFile, Witness, Calling,
                    vars, result, TypeOK
<1>3. ASSUME NEW d \in Collectors, Collect(d) PROVE Known(c, f)' \in window'[c][f]
  <2>1. CASE CacheHit(c)
    <3>1. window' = window /\ pc[c] = "stat" /\ todo[c] = {}
      BY <2>1 DEF CacheHit, LookedUp
    <3>2. revision[c][f] # Absent /\ revision[c][f] \in window[c][f]
      BY <3>1 DEF RevisionInv
    <3>3. Covers(f, revision[c][f], Known(c, f)')
      BY <2>1 DEF CacheHit, Matches, CacheInv, Known, TypeOK
    <3>4. ~Gone(f, revision[c][f])
      BY <3>1, <3>2 DEF Gone, Calling
    <3>5. Known(c, f)' \in revision[c][f] .. gen[f]
      <4>1. Known(c, f)' \in Nat /\ revision[c][f] \in Nat /\ gen[f] \in Nat
        BY <2>1 DEF CacheHit, Known, TypeOK, Available, Revision
      <4>2. QED
        BY <3>2, <3>3, <3>4, <4>1 DEF Covers
    <3>6. QED
      BY <3>1, <3>2, <3>5 DEF WindowInv, Calling
  <2>2. CASE StoreCache(c)
    BY <2>2 DEF StoreCache, result, ReadInv, Known
  <2>3. ASSUME ~CacheHit(c), ~StoreCache(c) PROVE Known(c, f)' \in window'[c][f]
    BY <1>1, <1>3, <2>3
       DEF Collect, BeginCollect, DirectoryFails, Fail, Return, CacheHit, CacheMiss,
           ListStreams, StoreCache, StatFile, StatFails, ReadFile, SkipRelease,
           ParseFails, Visit, TypeOK, result
  <2>4. QED
    BY <2>1, <2>2, <2>3
<1>4. QED
  BY <1>2, <1>3 DEF Next

LEMMA InitIInv == Init => IInv
<1> SUFFICES ASSUME Init PROVE IInv
  OBVIOUS
<1>1. TypeOK
  BY InitTypeOK
<1>2. DiskInv /\ WindowInv /\ RevisionInv /\ ReadInv /\ FreshResult
  BY DEF Init, DiskInv, WindowInv, RevisionInv, ReadInv, FreshResult, Calling,
         NoFiles, Absent
<1>3. CacheInv /\ FilterInv
  BY DEF Init, CacheInv, FilterInv, Covers, NoFiles, Nothing, Trusted
<1>4. QED
  BY <1>1, <1>2, <1>3 DEF IInv

THEOREM Invariance == Spec => []IInv
<1>1. IInv /\ [Next]_vars => IInv'
  <2> SUFFICES ASSUME IInv, [Next]_vars PROVE IInv'
    OBVIOUS
  <2> USE DEF IInv
  <2>1. TypeOK'
    BY NextTypeOK
  <2>2. DiskInv'
    BY DiskStable
  <2>3. WindowInv'
    BY <2>1, WindowStable
  <2>4. RevisionInv'
    BY <2>1, <2>3, RevisionStable
  <2>5. ReadInv'
    BY <2>1, ReadStable
  <2>6. CacheInv'
    BY <2>1, CacheStable
  <2>7. FilterInv' /\ FreshResult'
    BY FilterStable, FreshStable
  <2>8. QED
    BY <2>1, <2>2, <2>3, <2>4, <2>5, <2>6, <2>7
<1>2. QED
  BY InitIInv, <1>1, PTL DEF Spec

\* However updates, stats, second listings, parsing and other calls interleave,
\* a finished call knows, of a file that stayed in the directory, a content the
\* file had during the call.
THEOREM Freshness == Spec => []FreshResult
BY Invariance, PTL DEF IInv

\* A finished call returns packages selected for its own installed packages.
THEOREM Selection == Spec => []OwnFilter
<1>1. IInv => OwnFilter
  BY DEF IInv, FilterInv, OwnFilter
<1>2. QED
  BY <1>1, Invariance, PTL
=============================================================================
