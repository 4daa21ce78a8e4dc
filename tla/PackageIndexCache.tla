------------------------- MODULE PackageIndexCache -------------------------
(***************************************************************************)
(* apt.Collector.availablePackages over a directory of apt lists that      *)
(* `apt-get update' rewrites while it is being read.                       *)
(*                                                                         *)
(* A call stats every list file (the package revision), looks the pair     *)
(* (package revision, installed revision) up in a one-entry cache and, on  *)
(* a miss, lists the directory again, reads the release files, parses the  *)
(* index files one by one and stores the result under the revision it      *)
(* computed at first.  Nothing holds the directory still in between.       *)
(*                                                                         *)
(* The content of a file is named by its generation, which stands for the  *)
(* size and modification time the code compares: apt replaces a list by    *)
(* rename, so an opened file never changes, and a rewritten one is assumed *)
(* to have a size or modification time it never had before.                *)
(***************************************************************************)
EXTENDS Naturals, FiniteSets

CONSTANTS
  IndexFiles,     \* the *_Packages* files that may exist
  ReleaseFiles,   \* the *_InRelease and *_Release files that may exist
  Foreign,        \* index files that offer no installed package
  FaultyPaths,    \* files (or the directory) whose reads can fail at times
  Collectors,     \* goroutines inside Collect of one shared Collector
  InstalledSets,  \* the values of installedPackageRevision
  MaxGen,         \* bound: how often one file is written
  CounterMod      \* the counters are uint64: 2^64

Files    == IndexFiles \cup ReleaseFiles
ListsDir == "apt-lists"
Absent   == 0

ASSUME FilesAssumption ==
  /\ IndexFiles \cap ReleaseFiles = {}
  /\ Foreign \subseteq IndexFiles
  /\ FaultyPaths \subseteq Files \cup {ListsDir}
ASSUME InstalledAssumption == InstalledSets # {}
ASSUME BoundAssumption == MaxGen \in Nat /\ CounterMod \in Nat \ {0}

VARIABLES
  gen,        \* [Files -> Nat]: the generation of the file's last content
  present,    \* the files in the directory now
  dpkg,       \* the installed revision the status database holds now
  cachedAvailable, cachedUpgradeMetricsValid,
  cachedPackageRevision, cachedInstalledRevision,
  cacheHits, cacheMisses,
  pc,         \* where each collector is in its call
  installed,  \* the installed revision of the call
  revision,   \* the package revision of the call
  todo,       \* the directory entries the current loop has still to visit
  available,  \* the packages the call returns
  valid,      \* the upgradeMetricsValid the call returns
  hit,        \* history: the call was served from the cache
  window      \* history: every state of each file since the call began

disk    == <<gen, present, dpkg>>
cache   == <<cachedAvailable, cachedUpgradeMetricsValid,
             cachedPackageRevision, cachedInstalledRevision>>
counter == <<cacheHits, cacheMisses>>
result  == <<available, valid, hit>>
vars    == <<disk, cache, counter, pc, installed, revision, todo, result, window>>

----------------------------------------------------------------------------
(* Values *)

\* What a stat of f sees: its generation, or that there is no such file.
Stat(f) == IF f \in present THEN gen[f] ELSE Absent

Revision == [Files -> Nat]
NoFiles  == [f \in Files |-> Absent]

\* Parsed packages, named by the files they were read from and by the
\* installed packages they were filtered for.
Available == [content : Revision, filter : InstalledSets]

\* The nil slice that parsing for the installed packages s starts from.
Nothing(s) == [content |-> NoFiles, filter |-> s]

\* No package passed the filter: the Go slice is still nil.
IsNil(a) == \A i \in IndexFiles \ Foreign : a.content[i] = Absent

Bump(n) == (n + 1) % CounterMod

Calling(c) == pc[c] \notin {"idle", "done", "failed"}

TypeOK ==
  /\ gen \in [Files -> Nat]
  /\ present \in SUBSET Files
  /\ dpkg \in InstalledSets
  /\ cachedAvailable \in Available
  /\ cachedUpgradeMetricsValid \in BOOLEAN
  /\ cachedPackageRevision \in Revision
  /\ cachedInstalledRevision \in InstalledSets
  /\ cacheHits \in 0 .. CounterMod - 1
  /\ cacheMisses \in 0 .. CounterMod - 1
  /\ pc \in [Collectors -> {"idle", "stat", "list", "read", "done", "failed"}]
  /\ installed \in [Collectors -> InstalledSets]
  /\ revision \in [Collectors -> Revision]
  /\ todo \in [Collectors -> SUBSET Files]
  /\ available \in [Collectors -> Available]
  /\ valid \in [Collectors -> BOOLEAN]
  /\ hit \in [Collectors -> BOOLEAN]
  /\ window \in [Collectors -> [Files -> SUBSET Nat]]

Init ==
  /\ present \in SUBSET Files
  /\ gen = [f \in Files |-> IF f \in present THEN 1 ELSE 0]
  /\ dpkg \in InstalledSets
  /\ cachedAvailable = Nothing(dpkg)
  /\ cachedUpgradeMetricsValid = FALSE
  /\ cachedPackageRevision = NoFiles
  /\ cachedInstalledRevision = dpkg
  /\ cacheHits = 0
  /\ cacheMisses = 0
  /\ pc = [c \in Collectors |-> "idle"]
  /\ installed = [c \in Collectors |-> dpkg]
  /\ revision = [c \in Collectors |-> NoFiles]
  /\ todo = [c \in Collectors |-> {}]
  /\ available = [c \in Collectors |-> cachedAvailable]
  /\ valid = [c \in Collectors |-> FALSE]
  /\ hit = [c \in Collectors |-> FALSE]
  /\ window = [c \in Collectors |-> [f \in Files |-> {}]]

----------------------------------------------------------------------------
(* The machine: apt-get update and dpkg at work beside the exporter *)

\* The calls in progress witness the new state s of file f.
Witness(f, s) ==
  window' = [c \in Collectors |->
               IF Calling(c) THEN [window[c] EXCEPT ![f] = @ \cup {s}]
                             ELSE window[c]]

WriteFile(f) ==
  /\ gen[f] < MaxGen
  /\ gen' = [gen EXCEPT ![f] = @ + 1]
  /\ present' = present \cup {f}
  /\ Witness(f, gen[f] + 1)
  /\ UNCHANGED <<dpkg, cache, counter, pc, installed, revision, todo, result>>

RemoveFile(f) ==
  /\ f \in present
  /\ present' = present \ {f}
  /\ Witness(f, Absent)
  /\ UNCHANGED <<gen, dpkg, cache, counter, pc, installed, revision, todo, result>>

ChangeDpkg ==
  /\ dpkg' \in InstalledSets \ {dpkg}
  /\ UNCHANGED <<gen, present, cache, counter, pc, installed, revision, todo,
                 result, window>>

Environment == ChangeDpkg \/ \E f \in Files : WriteFile(f) \/ RemoveFile(f)

----------------------------------------------------------------------------
(* CommandSource.PackageIndexRevision: one stat per directory entry *)

\* Mutant: the subdirectory for downloads is taken for a list.
ListedWithPartial == present \cup {"partial"}

\* os.ReadDir, of which the index and release files are looked at.
Listed == present

\* The call gets the installed packages and lists the directory.
BeginCollect(c) ==
  /\ ~Calling(c)
  /\ pc' = [pc EXCEPT ![c] = "stat"]
  /\ installed' = [installed EXCEPT ![c] = dpkg]
  /\ todo' = [todo EXCEPT ![c] = Listed]
  /\ available' = [available EXCEPT ![c] = Nothing(dpkg)]
  /\ valid' = [valid EXCEPT ![c] = FALSE]
  /\ hit' = [hit EXCEPT ![c] = FALSE]
  /\ window' = [window EXCEPT ![c] = [f \in Files |-> {Stat(f)}]]
  /\ UNCHANGED <<disk, cache, counter, revision>>

\* A file that is gone since it was listed can neither be opened nor have its
\* size read; any other may fail to, now or in the middle of its content, where
\* its path is one of the faulty.
Readable(f)   == f \in present
Unreadable(f) == ~Readable(f) \/ f \in FaultyPaths

StatFile(c, f) ==
  /\ pc[c] = "stat"
  /\ f \in todo[c]
  /\ Readable(f)
  /\ revision' = [revision EXCEPT ![c][f] = gen[f]]
  /\ todo' = [todo EXCEPT ![c] = @ \ {f}]
  /\ UNCHANGED <<disk, cache, counter, pc, installed, result, window>>

\* The call returns and its local variables go.
Return(c, outcome) ==
  /\ pc' = [pc EXCEPT ![c] = outcome]
  /\ revision' = [revision EXCEPT ![c] = NoFiles]
  /\ todo' = [todo EXCEPT ![c] = {}]

\* Every read error but a release file's ends the call: nil, false and the error.
Fail(c) ==
  /\ Return(c, "failed")
  /\ available' = [available EXCEPT ![c].content = NoFiles]
  /\ valid' = [valid EXCEPT ![c] = FALSE]
  /\ window' = [window EXCEPT ![c] = [f \in Files |-> {}]]
  /\ UNCHANGED <<disk, cache, counter, installed, hit>>

\* os.ReadDir fails, for the revision or for the streams.
DirectoryFails(c) ==
  /\ ListsDir \in FaultyPaths
  /\ \/ pc[c] = "stat" /\ \A f \in Files : revision[c][f] = Absent
     \/ pc[c] = "list"
  /\ Fail(c)

StatFails(c, f) ==
  /\ pc[c] = "stat"
  /\ f \in todo[c]
  /\ Unreadable(f)
  /\ Fail(c)

----------------------------------------------------------------------------
(* Collector.availablePackages: the two critical sections under c.mu *)

\* Mutant: the key is the installed revision alone.
MatchesAnyLists(c) ==
  ~IsNil(cachedAvailable) /\ cachedInstalledRevision = installed[c]

\* Mutant: the key is the package revision alone.
MatchesAnyInstalled(c) ==
  ~IsNil(cachedAvailable) /\ cachedPackageRevision = revision[c]

Matches(c) ==
  /\ ~IsNil(cachedAvailable)
  /\ cachedPackageRevision = revision[c]
  /\ cachedInstalledRevision = installed[c]

LookedUp(c) == pc[c] = "stat" /\ todo[c] = {}

CacheHit(c) ==
  /\ LookedUp(c)
  /\ Matches(c)
  /\ cacheHits' = Bump(cacheHits)
  /\ available' = [available EXCEPT ![c] = cachedAvailable]
  /\ valid' = [valid EXCEPT ![c] = cachedUpgradeMetricsValid]
  /\ hit' = [hit EXCEPT ![c] = TRUE]
  /\ Return(c, "done")
  /\ UNCHANGED <<disk, cache, cacheMisses, installed, window>>

CacheMiss(c) ==
  /\ LookedUp(c)
  /\ ~Matches(c)
  /\ cacheMisses' = Bump(cacheMisses)
  /\ pc' = [pc EXCEPT ![c] = "list"]
  /\ UNCHANGED <<disk, cache, cacheHits, installed, revision, todo, result, window>>

\* Mutant: the package revision is not stored.
StoreWithoutRevision(c) ==
  /\ pc[c] = "read"
  /\ todo[c] = {}
  /\ cachedAvailable' = available[c]
  /\ cachedUpgradeMetricsValid' = valid[c]
  /\ cachedInstalledRevision' = installed[c]
  /\ Return(c, "done")
  /\ UNCHANGED <<disk, cachedPackageRevision, counter, installed, result, window>>

StoreCache(c) ==
  /\ pc[c] = "read"
  /\ todo[c] = {}
  /\ cachedAvailable' = available[c]
  /\ cachedUpgradeMetricsValid' = valid[c]
  /\ cachedPackageRevision' = revision[c]
  /\ cachedInstalledRevision' = installed[c]
  /\ Return(c, "done")
  /\ UNCHANGED <<disk, counter, installed, result, window>>

----------------------------------------------------------------------------
(* CommandSource.PackageIndexStreams and ParseAvailablePackagesFromStreams: *)
(* a second listing, the release files, then the index files.              *)

ListStreams(c) ==
  /\ pc[c] = "list"
  /\ todo' = [todo EXCEPT ![c] = Listed]
  /\ available' = [available EXCEPT ![c] = Nothing(installed[c])]
  /\ valid' = [valid EXCEPT ![c] = Listed \cap IndexFiles # {}]
  /\ pc' = [pc EXCEPT ![c] = "read"]
  /\ UNCHANGED <<disk, cache, counter, installed, revision, hit, window>>

Visit(c, f) ==
  /\ pc[c] = "read"
  /\ f \in todo[c]
  /\ f \in IndexFiles => todo[c] \cap ReleaseFiles = {}
  /\ todo' = [todo EXCEPT ![c] = @ \ {f}]

\* The content becomes part of the packages: their versions if f is an index,
\* their priorities and backports marks if it is a release file.
ReadFile(c, f) ==
  /\ Visit(c, f)
  /\ Readable(f)
  /\ available' = [available EXCEPT ![c].content[f] = gen[f]]
  /\ UNCHANGED <<disk, cache, counter, pc, installed, revision, valid, hit, window>>

\* A release file that cannot be read is logged and skipped.
SkipRelease(c, f) ==
  /\ f \in ReleaseFiles
  /\ Visit(c, f)
  /\ Unreadable(f)
  /\ UNCHANGED <<disk, cache, counter, pc, installed, revision, result, window>>

ParseFails(c, f) ==
  /\ pc[c] = "read"
  /\ f \in todo[c] \cap IndexFiles
  /\ todo[c] \cap ReleaseFiles = {}
  /\ Unreadable(f)
  /\ Fail(c)

----------------------------------------------------------------------------

Collect(c) ==
  \/ BeginCollect(c) \/ DirectoryFails(c)
  \/ CacheHit(c) \/ CacheMiss(c) \/ ListStreams(c) \/ StoreCache(c)
  \/ \E f \in Files : \/ StatFile(c, f) \/ StatFails(c, f)
                      \/ ReadFile(c, f) \/ SkipRelease(c, f) \/ ParseFails(c, f)

Next == Environment \/ \E c \in Collectors : Collect(c)

\* The worker always finishes a call and starts the next one.
Fairness == \A c \in Collectors : WF_vars(Collect(c))

Spec == Init /\ [][Next]_vars

FairSpec == Spec /\ Fairness

----------------------------------------------------------------------------
(* Properties *)

\* What a finished call knows of file f.
Known(c, f) == available[c].content[f]

\* A file that was in the directory all the time the call ran contributes a
\* content it had during the call, cached or not, however updates interleave
\* with the stats, the second listing and the parsing; only a release file
\* whose read may fail is excepted (readReleaseMetadata swallows the error).
FreshResult ==
  \A c \in Collectors, f \in Files :
    pc[c] = "done" /\ f \notin FaultyPaths \cap ReleaseFiles
      /\ Absent \notin window[c][f]
    => Known(c, f) \in window[c][f]

\* A call returns packages selected for the installed packages it was given,
\* not for those of the call that filled the cache.
OwnFilter ==
  \A c \in Collectors : pc[c] = "done" => available[c].filter = installed[c]

\* A result taken from the cache reflects each release file that was in the
\* directory all along (the priority markers are honoured).
HitHonoursReleases ==
  \A c \in Collectors, f \in ReleaseFiles :
    pc[c] = "done" /\ hit[c] /\ Absent \notin window[c][f]
    => Known(c, f) # Absent

\* Once apt and dpkg are idle and some index offers an installed package,
\* every collector keeps finishing calls and in the end every call is a hit.
Settled ==
  /\ <>[][~Environment]_vars
  /\ <>[](present \cap (IndexFiles \ Foreign) # {})
ServedFromCache ==
  \A c \in Collectors : /\ []<>(pc[c] = "done")
                        /\ <>[](pc[c] = "done" => hit[c])
SettledHostServedFromCache == Settled => ServedFromCache
=============================================================================
