--------------------------- MODULE PackageRefresh ---------------------------
(***************************************************************************)
(* One refresh after another of the package data: apt.Collector.Collect,   *)
(* the reboot marker of pkgcheck.aptSnapshotter and the fallback of        *)
(* pkgcheck.ObservedSnapshotter, on a host whose files change and fail     *)
(* between any two reads.                                                  *)
(*                                                                         *)
(* A list file is named with the size and the modification time it has, so *)
(* the revision of the apt lists, the set of name:size:mtime, is the set   *)
(* of the files; it returns when the files do.  Counts (packages           *)
(* installed, upgradable, ...) are named by the files they are computed    *)
(* from.  A call of availablePackages reads the lists in one step: module  *)
(* PackageIndexCache shows what remains of that when they change meanwhile. *)
(* The background worker of the exporter framework is external: it starts  *)
(* one refresh at a time and publishes what Snapshot returns.              *)
(***************************************************************************)
EXTENDS Naturals, FiniteSetsExt

CONSTANTS
  StatusFiles,              \* contents the dpkg status database may have
  Malformed,                \* those the parser rejects
  InstalledRevision,        \* installedPackageRevision of each
  IndexFiles, ReleaseFiles, \* what the apt lists may consist of
  Foreign,                  \* indexes that offer none of the packages installed
  Corrupt,                  \* indexes that break off
  Overlong,                 \* indexes with a line beyond the scanner's buffer
  ModTime,                  \* the modification time of each list file
  NoFile,                   \* stands for what has not been read
  StatusStates, ListsStates, MarkerStates,  \* the states the sources may be in
  CounterMod                \* the counters are uint64: 2^64

ListFiles   == IndexFiles \cup ReleaseFiles
Directories == SUBSET ListFiles

\* What is missing can neither be read nor have its modification time read, an
\* unopenable file can still be listed and have its time read; a read of what
\* is blocked does not return, whatever timeout it was given.
StatusAccess == {"ok", "unopenable", "missing", "blocked"}
ListsAccess  == {"ok", "missing", "blocked"}

ASSUME FilesAssumption ==
  /\ NoFile \notin StatusFiles
  /\ Foreign \cup Corrupt \cup Overlong \subseteq IndexFiles
  /\ ModTime \in [ListFiles -> Nat]
ASSUME StatesAssumption ==
  /\ StatusStates \subseteq [file : StatusFiles, access : StatusAccess]
  /\ ListsStates \subseteq [files : Directories, access : ListsAccess,
                           unopenable : Directories]
  /\ MarkerStates \subseteq {"present", "absent", "unreadable"}
ASSUME BoundAssumption == CounterMod \in Nat \ {0}

ErrorCounters == {"statusReadErrors", "statusParseErrors",
                  "aptListsReadErrors", "aptListsParseErrors"}
Counters      == ErrorCounters \cup {"cacheHits", "cacheMisses"}
Stages        == {"status_read", "status_parse", "index_revision",
                  "index_read", "index_parse", "count"}
Faults        == {"status database", "package indexes", "source metadata",
                  "reboot marker"}

\* SourceMetadata: the zero time, then the latest of the files.
LastModified(files) == Max({0} \cup {ModTime[f] : f \in files})
Times == {LastModified(files) : files \in Directories}

\* Packages of the list files read, selected for the installed ones; a nil
\* slice when no index offers any.
Inventories == StatusFiles \ Malformed
Revisions   == {InstalledRevision[f] : f \in Inventories} \cup {NoFile}
Packages    == [content : Directories, filter : Revisions]
Nil         == [content |-> {}, filter |-> NoFile]

Indexes(files) == files \cap IndexFiles
Select(files, installed) ==
  IF Indexes(files) \subseteq Foreign THEN Nil
  ELSE [content |-> files, filter |-> InstalledRevision[installed]]

Health == [Up : BOOLEAN, Valid : BOOLEAN]
Down   == [Up |-> FALSE, Valid |-> FALSE]

\* apt.Stats: Installed and Broken are computed from `installed', the five
\* upgrade counts from `installed' and `available'; the time of the status
\* database is named by the file it is the time of.
Stats == [installed : Inventories \cup {NoFile}, available : Packages,
          UpgradeMetricsValid : BOOLEAN,
          DPKGStatusLastModified : StatusFiles \cup {NoFile},
          APTListsLastModified : Times,
          StageDurations : SUBSET Stages,
          StatusDatabaseSource : Health, APTListsSource : Health,
          totals : [Counters -> 0 .. CounterMod - 1]]
NoTotals   == [k \in Counters |-> 0]
BlankStats == [installed |-> NoFile, available |-> Nil,
               UpgradeMetricsValid |-> FALSE,
               DPKGStatusLastModified |-> NoFile,
               APTListsLastModified |-> LastModified({}),
               StageDurations |-> {},
               StatusDatabaseSource |-> Down, APTListsSource |-> Down,
               totals |-> NoTotals]

Snapshot      == [Success : BOOLEAN, Err : SUBSET Faults, Stats : Stats,
                  RebootRequired : BOOLEAN]
BlankSnapshot == [Success |-> FALSE, Err |-> {}, Stats |-> BlankStats,
                  RebootRequired |-> FALSE]

VARIABLES
  status,         \* [file, access] of the dpkg status database
  lists,          \* [files, access, unopenable] of the apt lists directory
  marker,         \* "present", "absent" or "unreadable"
  count,          \* the Collector's counters
  cached,         \* the Collector's one-entry cache
  pc,             \* where the refresh in progress is
  revision,       \* its package revision
  stats, errs, rebootRequired,   \* its results so far
  lastSnapshot, hasSuccessful,   \* the ObservedSnapshotter
  published       \* the snapshot the scrapes are served

host     == <<status, lists, marker>>
local    == <<revision, stats, errs, rebootRequired>>
observer == <<lastSnapshot, hasSuccessful>>
vars     == <<host, count, cached, pc, local, observer, published>>

TypeOK ==
  /\ status \in StatusStates
  /\ lists \in ListsStates
  /\ marker \in MarkerStates
  /\ count \in [Counters -> 0 .. CounterMod - 1]
  /\ cached \in [available : Packages, valid : BOOLEAN,
                 packageRevision : Directories, installedRevision : Revisions]
  /\ pc \in {"idle", "status", "available", "parse", "unfiltered", "metadata",
             "marker", "observe"}
  /\ revision \in Directories
  /\ stats \in Stats
  /\ errs \in SUBSET Faults
  /\ rebootRequired \in BOOLEAN
  /\ lastSnapshot \in Snapshot
  /\ hasSuccessful \in BOOLEAN
  /\ published \in Snapshot

Init ==
  /\ status \in StatusStates
  /\ lists \in ListsStates
  /\ marker \in MarkerStates
  /\ count = NoTotals
  /\ cached = [available |-> Nil, valid |-> FALSE,
               packageRevision |-> {}, installedRevision |-> NoFile]
  /\ pc = "idle"
  /\ revision = {}
  /\ stats = BlankStats
  /\ errs = {}
  /\ rebootRequired = FALSE
  /\ lastSnapshot = BlankSnapshot
  /\ hasSuccessful = FALSE
  /\ published = BlankSnapshot

----------------------------------------------------------------------------
(* The host *)

\* dpkg at work, or a backup put back: any other content or accessibility.
ChangeStatus ==
  /\ status' \in StatusStates \ {status}
  /\ UNCHANGED <<lists, marker, count, cached, pc, local, observer, published>>

\* apt at work: files are added, rewritten and removed, and come back.
ChangeLists ==
  /\ lists' \in ListsStates \ {lists}
  /\ UNCHANGED <<status, marker, count, cached, pc, local, observer, published>>

ChangeMarker ==
  /\ marker' \in MarkerStates \ {marker}
  /\ UNCHANGED <<status, lists, count, cached, pc, local, observer, published>>

Environment == ChangeStatus \/ ChangeLists \/ ChangeMarker

----------------------------------------------------------------------------
(* Collector.Collect *)

Bump(k) == count' = [count EXCEPT ![k] = (@ + 1) % CounterMod]

\* Where the collection reads the status database, and where the lists; the
\* metadata of a missing status database fails before the lists are read.
Blocked(at) ==
  \/ status.access = "blocked" /\ at \in {"status", "metadata"}
  \/ lists.access = "blocked" /\ at \in {"available", "parse", "unfiltered"}
  \/ lists.access = "blocked" /\ at = "metadata" /\ status.access # "missing"

\* A step of a collection from one source to the next.
Step(from, to) ==
  /\ pc = from /\ ~Blocked(from)
  /\ pc' = to
  /\ UNCHANGED <<host, rebootRequired, observer, published>>

BeginCollect == Step("idle", "status") /\ UNCHANGED <<count, cached, revision, stats, errs>>

\* A source cannot be read or parsed: the error is counted and recorded and
\* the collection goes on with the stats so far.
Fault(what, counter, s) ==
  /\ Bump(counter)
  /\ errs' = errs \cup {what}
  /\ stats' = s
  /\ UNCHANGED <<cached, revision>>

Timed(s, stages) == [s EXCEPT !.StageDurations = @ \cup stages]

ReadStatusFails ==
  /\ Step("status", "unfiltered")
  /\ status.access # "ok"
  /\ Fault("status database", "statusReadErrors", Timed(stats, {"status_read"}))

ParseStatusFails ==
  /\ Step("status", "unfiltered")
  /\ status.access = "ok" /\ status.file \in Malformed
  /\ Fault("status database", "statusParseErrors",
           [Timed(stats, {"status_read", "status_parse"})
              EXCEPT !.StatusDatabaseSource.Up = TRUE])

\* Mutant: the parser that skips what it cannot read.
ReadStatusLeniently ==
  /\ Step("status", "available")
  /\ status.access = "ok"
  /\ stats' = [Timed(stats, {"status_read", "status_parse"})
                 EXCEPT !.StatusDatabaseSource = [Up |-> TRUE, Valid |-> TRUE],
                        !.installed = status.file]
  /\ UNCHANGED <<count, cached, revision, errs>>

ReadStatus ==
  /\ Step("status", "available")
  /\ status.access = "ok" /\ status.file \notin Malformed
  /\ stats' = [Timed(stats, {"status_read", "status_parse"})
                 EXCEPT !.StatusDatabaseSource = [Up |-> TRUE, Valid |-> TRUE],
                        !.installed = status.file]
  /\ UNCHANGED <<count, cached, revision, errs>>

\* The packages have arrived: the upgrade counts are computed from them.
Loaded(s, available, valid) ==
  [Timed(s, {"count"}) EXCEPT
     !.APTListsSource = [Up |-> TRUE, Valid |-> valid],
     !.available = available,
     !.UpgradeMetricsValid = valid]

Revised == Timed(stats, {"index_revision"})

StatListsFails ==
  /\ Step("available", "metadata")
  /\ lists.access = "missing"
  /\ Fault("package indexes", "aptListsReadErrors", Revised)

\* Mutant: the key is the package revision alone.
MatchesAnyInstalled ==
  cached.available # Nil /\ cached.packageRevision = lists.files

\* Mutant: the key is the installed revision alone.
MatchesAnyLists ==
  /\ cached.available # Nil
  /\ cached.installedRevision = InstalledRevision[stats.installed]

Matches ==
  /\ cached.available # Nil
  /\ cached.packageRevision = lists.files
  /\ cached.installedRevision = InstalledRevision[stats.installed]

CacheHit ==
  /\ Step("available", "metadata")
  /\ lists.access # "missing" /\ Matches
  /\ Bump("cacheHits")
  /\ stats' = Loaded(Revised, cached.available, cached.valid)
  /\ UNCHANGED <<cached, revision, errs>>

CacheMiss ==
  /\ Step("available", "parse")
  /\ lists.access # "missing" /\ ~Matches
  /\ Bump("cacheMisses")
  /\ revision' = lists.files
  /\ stats' = Revised
  /\ UNCHANGED <<cached, errs>>

\* An index cannot be opened; a stream cannot be scanned to its end.
Unopened  == Indexes(lists.files) \cap lists.unopenable
Unscanned == (Indexes(lists.files) \cap (Corrupt \cup Overlong)) \ Unopened

\* Of an unopenable and a broken index the first in the order of names ends the
\* collection's reading: either of the two failures.
ReadListsFails ==
  /\ Step("parse", "metadata")
  /\ lists.access = "missing" \/ Unopened # {}
  /\ Fault("package indexes", "aptListsReadErrors",
           Timed(stats, IF lists.access = "missing" THEN {"index_read"}
                                                    ELSE {"index_read", "index_parse"}))

\* Mutant: the parse error is recorded but not counted.
ParseListsFailsUncounted ==
  /\ Step("parse", "metadata")
  /\ lists.access # "missing" /\ Unscanned # {}
  /\ errs' = errs \cup {"package indexes"}
  /\ UNCHANGED <<count, cached, revision, stats>>

ParseListsFails ==
  /\ Step("parse", "metadata")
  /\ lists.access # "missing" /\ Unscanned # {}
  /\ Fault("package indexes", "aptListsParseErrors",
           [Timed(stats, {"index_read", "index_parse"})
              EXCEPT !.APTListsSource.Up = TRUE])

\* A release file that cannot be opened is passed over.
ParseLists ==
  /\ Step("parse", "metadata")
  /\ lists.access # "missing" /\ Unopened = {} /\ Unscanned = {}
  /\ LET available == Select(lists.files \ lists.unopenable, stats.installed)
         valid == Indexes(lists.files) # {}
     IN /\ cached' = [available |-> available, valid |-> valid,
                      packageRevision |-> revision,
                      installedRevision |-> InstalledRevision[stats.installed]]
        /\ stats' = Loaded(Timed(stats, {"index_read", "index_parse"}), available, valid)
  /\ UNCHANGED <<count, revision, errs>>

\* Without installed packages the indexes are read whole but not parsed.
UnfilteredFails ==
  /\ Step("unfiltered", "metadata")
  /\ lists.access = "missing" \/ Unopened # {} \/ Indexes(lists.files) \cap Corrupt # {}
  /\ Fault("package indexes", "aptListsReadErrors", stats)

ReadUnfiltered ==
  /\ Step("unfiltered", "metadata")
  /\ lists.access # "missing" /\ Unopened = {} /\ Indexes(lists.files) \cap Corrupt = {}
  /\ stats' = [stats EXCEPT !.APTListsSource = [Up |-> TRUE,
                                                Valid |-> Indexes(lists.files) # {}]]
  /\ UNCHANGED <<count, cached, revision, errs>>

\* Mutant: the collection returns before it copies the counters.
MetadataFailsEarly ==
  /\ Step("metadata", "marker")
  /\ status.access = "missing" \/ lists.access = "missing"
  /\ Fault("source metadata", "aptListsReadErrors", stats)

\* Stats of the status database and of the list files; then the counters are
\* copied.
MetadataFails ==
  /\ Step("metadata", "marker")
  /\ status.access = "missing" \/ lists.access = "missing"
  /\ Fault("source metadata", "aptListsReadErrors", [stats EXCEPT !.totals = count'])

ReadMetadata ==
  /\ Step("metadata", "marker")
  /\ status.access # "missing" /\ lists.access # "missing"
  /\ stats' = [stats EXCEPT !.DPKGStatusLastModified = status.file,
                            !.APTListsLastModified = LastModified(lists.files),
                            !.totals = count]
  /\ UNCHANGED <<count, cached, revision, errs>>

Collect ==
  \/ BeginCollect \/ ReadStatusFails \/ ParseStatusFails \/ ReadStatus
  \/ StatListsFails \/ CacheHit \/ CacheMiss
  \/ ReadListsFails \/ ParseListsFails \/ ParseLists
  \/ UnfilteredFails \/ ReadUnfiltered \/ MetadataFails \/ ReadMetadata

----------------------------------------------------------------------------
(* pkgcheck *)

\* aptSnapshotter.Snapshot joins the marker's error with the collection's.
CheckReboot ==
  /\ pc = "marker"
  /\ rebootRequired' = (marker = "present")
  /\ errs' = errs \cup IF marker = "unreadable" THEN {"reboot marker"} ELSE {}
  /\ pc' = "observe"
  /\ UNCHANGED <<host, count, cached, revision, stats, observer, published>>

Collected == [Success |-> errs = {}, Err |-> errs, Stats |-> stats,
              RebootRequired |-> rebootRequired]

\* Mutant: the failure with the reboot state of the last success.
FallbackToFailure(last, snapshot) ==
  [snapshot EXCEPT !.RebootRequired = last.RebootRequired]

\* The last success with the outcome and the source health of a failure.
Fallback(last, snapshot) ==
  [last EXCEPT !.Success = FALSE,
               !.Err = snapshot.Err,
               !.Stats.StatusDatabaseSource = snapshot.Stats.StatusDatabaseSource,
               !.Stats.APTListsSource = snapshot.Stats.APTListsSource,
               !.Stats.totals = [k \in Counters |->
                                   IF k \in ErrorCounters
                                   THEN snapshot.Stats.totals[k] ELSE @[k]]]

\* ObservedSnapshotter.Snapshot returns, the framework publishes the result
\* and the local variables go.
Publish(snapshot) ==
  /\ published' = snapshot
  /\ pc' = "idle"
  /\ revision' = {} /\ stats' = BlankStats /\ errs' = {}
  /\ rebootRequired' = FALSE
  /\ UNCHANGED <<host, count, cached>>

ObserveSuccess ==
  /\ pc = "observe"
  /\ errs = {}
  /\ lastSnapshot' = Collected
  /\ hasSuccessful' = TRUE
  /\ Publish(Collected)

ObserveFailure ==
  /\ pc = "observe"
  /\ errs # {}
  /\ Publish(IF hasSuccessful THEN Fallback(lastSnapshot, Collected) ELSE Collected)
  /\ UNCHANGED observer

Refresh == Collect \/ CheckReboot \/ ObserveSuccess \/ ObserveFailure

Next == Environment \/ Refresh

Spec == Init /\ [][Next]_vars

\* The worker starts one refresh after the other and stops only where a read
\* does not return.
FairSpec == Spec /\ WF_vars(Refresh)

----------------------------------------------------------------------------
(* Properties *)

Totals == published.Stats.totals

\* A refresh fails for another reason than the reboot marker if and only if
\* the error counters of the published snapshot move: no error path of either
\* source, in the fallback or before the first success, goes uncounted, and no
\* alert on a counter fires without a failed refresh.  (The exporter leaves all
\* package metrics out until a refresh has succeeded.)
FailuresAreCounted ==
  [][pc = "observe" /\ pc' = "idle" =>
       (published'.Err \ {"reboot marker"} # {}
          <=> \E k \in ErrorCounters : Totals'[k] # Totals[k])]_vars

\* A scrape never sees a counter fall, though the fallback exports the cache
\* counters of an earlier collection beside the error counters of this one.
TotalsNeverFall ==
  [][\A k \in Counters : Totals'[k] >= Totals[k]]_vars

\* Upgrade counts are computed for the installed packages beside which they
\* are published, whichever collection filled the cache.
UpgradesMatchInventory ==
  LET s == published.Stats
  IN  s.available # Nil =>
        s.UpgradeMetricsValid /\ s.available.filter = InstalledRevision[s.installed]

\* The upgrade counts are marked valid only while both sources are usable.
UpgradesValidNeedSources ==
  published.Stats.UpgradeMetricsValid =>
    published.Stats.StatusDatabaseSource.Valid /\ published.Stats.APTListsSource.Valid

\* The host settles with readable sources.
Healthy ==
  /\ status.access = "ok" /\ status.file \notin Malformed
  /\ lists.access = "ok" /\ Unopened = {} /\ Unscanned = {}
  /\ marker # "unreadable"
Settles == <>[][~Environment]_vars /\ <>[]Healthy

\* A success that shows the inventory and the reboot marker of the host, taken
\* from the cache if the indexes offer an installed package.
Shown ==
  /\ published.Success
  /\ published.Stats.installed = status.file
  /\ published.RebootRequired = (marker = "present")
  /\ ~(Indexes(lists.files) \subseteq Foreign) =>
       "index_parse" \notin published.Stats.StageDurations

\* The lists are not replaced between the revision and the reading, and no
\* release file is passed over.
Undisturbed == pc = "parse" => revision = lists.files /\ lists.unopenable = {}

\* The offers published are those of the lists on the host.
Current ==
  /\ published.Stats.UpgradeMetricsValid = (Indexes(lists.files) # {})
  /\ published.Stats.available = Select(lists.files, published.Stats.installed)

\* On a host that settles every published snapshot is in the end a success that
\* shows the inventory it settled with, though reads may have failed and blocked
\* before; and what the lists offer, too, unless a refresh was disturbed: then
\* the cache may keep what it read for good.
SettledHostIsShown == Settles => <>[]Shown /\ ([]Undisturbed => <>[]Current)
=============================================================================
