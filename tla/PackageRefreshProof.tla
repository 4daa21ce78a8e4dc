------------------------ MODULE PackageRefreshProof ------------------------
(***************************************************************************)
(* The safety properties of the refresh, and that it implements            *)
(* PackageData, for any list files and any states the sources may be in.   *)
(*                                                                         *)
(* The argument about the cache: the revision and the packages of an entry *)
(* are of lists that one refresh saw in this order.  The history keeps the *)
(* pair for good, so whenever the revision returns, a hit shows what       *)
(* PackageData may show, and what was selected for the same packages.      *)
(***************************************************************************)
EXTENDS RefreshHistory, TLAPS

Counted(s) == "count" \in s.StageDurations

\* Nothing is known of the offers.
Bare(s) == s.available = Nil /\ s.UpgradeMetricsValid = FALSE /\ ~Counted(s)

\* The upgrade counts belong to the inventory beside them.
Matching(s) ==
  s.available # Nil =>
    s.UpgradeMetricsValid /\ s.available.filter = InstalledRevision[s.installed]

\* What the collection in progress knows at each step.
LocalInv ==
  /\ Matching(stats)
  /\ pc \in {"idle", "status"} => stats = BlankStats /\ errs = {}
  /\ pc \in {"available", "parse"} =>
       Bare(stats) /\ stats.installed # NoFile /\ errs = {}
  /\ pc = "unfiltered" => Bare(stats) /\ errs # {}
  /\ pc \in {"metadata", "marker", "observe"} =>
       \/ Counted(stats) /\ stats.installed # NoFile
       \/ Bare(stats) /\ errs # {}
  /\ pc # "observe" => "reboot marker" \notin errs

\* The cached packages are those of the installed revision they are filed under.
CacheInv ==
  cached.available # Nil =>
    cached.valid /\ cached.available.filter = cached.installedRevision

\* What is kept and published: from the first success on the same data.
ObserverInv ==
  /\ IF hasSuccessful
     THEN Counted(lastSnapshot.Stats) /\ DataOf(published) = DataOf(lastSnapshot)
     ELSE lastSnapshot = BlankSnapshot
  /\ Matching(lastSnapshot.Stats) /\ Matching(published.Stats)

IInv == TypeOK /\ LocalInv /\ CacheInv /\ ObserverInv

\* A refresh in progress has seen the host as it is, and the present lists after
\* all it has seen.
WindowInv ==
  /\ window \in [inventories : SUBSET StatusFiles, listings : SUBSET Directories,
                 markers : SUBSET MarkerStates]
  /\ IF pc = "idle" THEN window = NoWindow
     ELSE /\ status.file \in window.inventories
          /\ lists.files \in window.listings
          /\ marker \in window.markers
          /\ \A L \in window.listings : <<L, lists.files>> \in followed

\* What an entry holds was read after its revision, within one refresh.
EntryOf(pair) ==
  /\ pair[1] = cached.packageRevision
  /\ pair[2] \cap (Corrupt \cup Overlong) = {}
  /\ \E skipped \in SUBSET ReleaseFiles :
       /\ ~(Indexes(pair[2] \ skipped) \subseteq Foreign)
       /\ cached.available = [content |-> pair[2] \ skipped,
                              filter  |-> cached.installedRevision]
FiledInv ==
  /\ pc = "parse" => revision \in window.listings
  /\ cached.available # Nil => \E pair \in followed : EntryOf(pair)

\* What the collection in progress has gathered, it has seen.
HasOffers == \E pair \in followed : pair[1] \in window.listings /\ OffersOf(stats, pair[2])
HasTimes ==
  /\ stats.DPKGStatusLastModified \in window.inventories
  /\ \E L \in window.listings : stats.APTListsLastModified = LastModified(L)
HasMarker == \E m \in window.markers : rebootRequired = (m = "present")
GatheredInv ==
  /\ stats.installed # NoFile => stats.installed \in window.inventories
  /\ Counted(stats) => HasOffers
  /\ pc \in {"marker", "observe"} => HasTimes \/ "source metadata" \in errs
  /\ pc = "observe" => HasMarker

HInv == WindowInv /\ FiledInv /\ GatheredInv

\* The counters and the published ones: equal between the refreshes and, of those
\* for errors, as long as there is no error but an unreadable marker.
Succ(n) == (n + 1) % CounterMod
Still == \A k \in ErrorCounters : count[k] = Totals[k]
Moved == \E k \in ErrorCounters : count[k] # Totals[k]

CountInv ==
  /\ pc \in {"idle", "status", "available", "parse"} => Still
  /\ pc = "unfiltered" =>
       \E k \in {"statusReadErrors", "statusParseErrors"} : count[k] = Succ(Totals[k])
  /\ pc = "metadata" =>
       IF errs = {} THEN Still
                    ELSE \E k \in ErrorCounters : count[k] = Succ(Totals[k])
  /\ pc \in {"marker", "observe"} =>
       /\ stats.totals = count
       /\ IF errs \ {"reboot marker"} = {} THEN Still ELSE Moved

\* No counter is about to wrap.
NoWrap == \A k \in Counters : count[k] + 1 < CounterMod

\* What is published is no newer than the counters; the cache counters are
\* those of the last success.
RisingInv ==
  /\ \A k \in Counters :
       /\ Totals[k] <= count[k]
       /\ pc \in {"marker", "observe"} =>
            Totals[k] <= stats.totals[k] /\ stats.totals[k] <= count[k]
  /\ hasSuccessful =>
       \A k \in Counters \ ErrorCounters : lastSnapshot.Stats.totals[k] = Totals[k]

----------------------------------------------------------------------------
(* Type correctness *)

LEMMA FileTypes ==
  /\ Nil \in Packages /\ Down \in Health
  /\ {} \in Directories /\ NoFile \in Revisions
  /\ \A files \in Directories : LastModified(files) \in Times
  /\ \A f \in Inventories : InstalledRevision[f] \in Revisions
BY DEF Packages, Nil, Health, Down, Directories, Revisions, Times

LEMMA SourceTypes ==
  ASSUME TypeOK
  PROVE  /\ status.file \in StatusFiles /\ status.access \in StatusAccess
         /\ lists.files \in Directories /\ lists.unopenable \in Directories
         /\ lists.access \in ListsAccess
BY StatesAssumption DEF TypeOK

LEMMA SelectType ==
  ASSUME NEW files \in Directories, NEW installed \in Inventories
  PROVE  Select(files, installed) \in Packages
BY FileTypes DEF Select, Packages

LEMMA BlankTypes ==
  /\ NoTotals \in [Counters -> 0 .. CounterMod - 1]
  /\ BlankStats \in Stats /\ BlankSnapshot \in Snapshot
<1>1. 0 \in 0 .. CounterMod - 1
  BY BoundAssumption
<1>2. NoTotals \in [Counters -> 0 .. CounterMod - 1]
  BY <1>1 DEF NoTotals
<1>3. BlankStats \in Stats
  BY <1>2, FileTypes DEF BlankStats, Stats
<1>4. QED
  BY <1>2, <1>3 DEF BlankSnapshot, Snapshot

LEMMA SuccType ==
  ASSUME NEW n \in 0 .. CounterMod - 1
  PROVE  /\ Succ(n) \in 0 .. CounterMod - 1
         /\ Succ(n) = IF n + 1 < CounterMod THEN n + 1 ELSE 0
BY BoundAssumption DEF Succ

\* A counter moves to its successor, the others stay.
LEMMA BumpStep ==
  ASSUME TypeOK, NEW k \in Counters, Bump(k)
  PROVE  /\ count' \in [Counters -> 0 .. CounterMod - 1]
         /\ count'[k] = Succ(count[k])
         /\ \A l \in Counters \ {k} : count'[l] = count[l]
BY SuccType DEF Bump, TypeOK, Succ

\* What an action may do to the stats.
LEMMA StatsUpdates ==
  ASSUME TypeOK
  PROVE  /\ \A stages \in SUBSET Stages : Timed(stats, stages) \in Stats
         /\ \A s \in Stats, available \in Packages, valid \in BOOLEAN :
              Loaded(s, available, valid) \in Stats
         /\ \A totals \in [Counters -> 0 .. CounterMod - 1] :
              [stats EXCEPT !.totals = totals] \in Stats
<1>1. \A s \in Stats, stages \in SUBSET Stages : Timed(s, stages) \in Stats
  BY DEF Timed, Stats
<1>2. ASSUME NEW s \in Stats, NEW available \in Packages, NEW valid \in BOOLEAN
      PROVE  Loaded(s, available, valid) \in Stats
  <2>1. Timed(s, {"count"}) \in Stats
    BY <1>1 DEF Stages
  <2>2. [Up |-> TRUE, Valid |-> valid] \in Health
    BY DEF Health
  <2>3. QED
    BY <2>1, <2>2 DEF Loaded, Stats
<1>3. \A totals \in [Counters -> 0 .. CounterMod - 1] :
        [stats EXCEPT !.totals = totals] \in Stats
  BY DEF TypeOK, Stats
<1>4. QED
  BY <1>1, <1>2, <1>3 DEF TypeOK

LEMMA InitTypeOK == Init => TypeOK
<1> SUFFICES ASSUME Init PROVE TypeOK
  OBVIOUS
<1>1. cached \in [available : Packages, valid : BOOLEAN,
                  packageRevision : Directories, installedRevision : Revisions]
  BY FileTypes DEF Init
<1>2. /\ status \in StatusStates /\ lists \in ListsStates
      /\ marker \in MarkerStates /\ pc = "idle"
      /\ count \in [Counters -> 0 .. CounterMod - 1] /\ revision \in Directories
      /\ stats \in Stats /\ errs = {}
      /\ lastSnapshot \in Snapshot /\ published \in Snapshot
  BY FileTypes, BlankTypes DEF Init
<1>3. rebootRequired \in BOOLEAN /\ hasSuccessful \in BOOLEAN
  BY DEF Init
<1>4. QED
  BY <1>1, <1>2, <1>3 DEF TypeOK

\* The parser is called with packages that have been read.
LEMMA CollectTypeOK ==
  ASSUME TypeOK, LocalInv, Collect
  PROVE  TypeOK'
<1> USE DEF Step, host, observer
<1>1. /\ UNCHANGED <<host, rebootRequired, observer, published>>
      /\ pc' \in {"idle", "status", "available", "parse", "unfiltered", "metadata",
                 "marker", "observe"}
  BY DEF Collect, BeginCollect, ReadStatusFails, ParseStatusFails, ReadStatus,
         StatListsFails, CacheHit, CacheMiss, ReadListsFails, ParseListsFails, ParseLists,
         UnfilteredFails, ReadUnfiltered, MetadataFails, ReadMetadata
<1>2. ASSUME NEW what \in Faults, NEW k \in ErrorCounters, NEW s, Fault(what, k, s)
      PROVE  /\ count' \in [Counters -> 0 .. CounterMod - 1]
             /\ errs' \in SUBSET Faults /\ stats' = s
             /\ UNCHANGED <<cached, revision>>
  BY <1>2, BumpStep DEF Fault, Counters, TypeOK
<1> DEFINE Typed == /\ count' \in [Counters -> 0 .. CounterMod - 1]
                   /\ cached' \in [available : Packages, valid : BOOLEAN,
                                   packageRevision : Directories, installedRevision : Revisions]
                   /\ revision' \in Directories
                   /\ stats' \in Stats
                   /\ errs' \in SUBSET Faults
<1>3. CASE BeginCollect
  BY <1>1, <1>3 DEF BeginCollect, TypeOK
<1>4. CASE ReadStatusFails
  <2>1. Timed(stats, {"status_read"}) \in Stats
    BY StatsUpdates DEF Stages
  <2>2. Typed
    BY <1>2, <1>4, <2>1 DEF ReadStatusFails, ErrorCounters, Faults, TypeOK
  <2>3. QED
    BY <1>1, <2>2 DEF TypeOK
<1>5. CASE ParseStatusFails
  <2>1. [Timed(stats, {"status_read", "status_parse"})
           EXCEPT !.StatusDatabaseSource.Up = TRUE] \in Stats
    <3>1. Timed(stats, {"status_read", "status_parse"}) \in Stats
      BY StatsUpdates DEF Stages
    <3>2. QED
      BY <3>1 DEF Stats, Health
  <2>2. Typed
    BY <1>2, <1>5, <2>1 DEF ParseStatusFails, ErrorCounters, Faults, TypeOK
  <2>3. QED
    BY <1>1, <2>2 DEF TypeOK
<1>6. CASE ReadStatus
  <2>1. Timed(stats, {"status_read", "status_parse"}) \in Stats
    BY StatsUpdates DEF Stages
  <2>2. [Up |-> TRUE, Valid |-> TRUE] \in Health
    BY DEF Health
  <2>3. stats' \in Stats
    BY <1>6, <2>1, <2>2, SourceTypes DEF ReadStatus, Stats, Inventories
  <2>4. QED
    BY <1>1, <1>6, <2>3 DEF ReadStatus, TypeOK
<1>7. Revised \in Stats
  BY StatsUpdates DEF Revised, Stages
<1>8. CASE StatListsFails
  <2>1. Typed
    BY <1>2, <1>7, <1>8 DEF StatListsFails, ErrorCounters, Faults, TypeOK
  <2>2. QED
    BY <1>1, <2>1 DEF TypeOK
<1>9. CASE CacheHit
  <2>1. stats' \in Stats
    BY <1>7, <1>9, StatsUpdates DEF CacheHit, TypeOK
  <2>2. count' \in [Counters -> 0 .. CounterMod - 1]
    BY <1>9, BumpStep DEF CacheHit, Counters
  <2>3. QED
    BY <1>1, <1>9, <2>1, <2>2 DEF CacheHit, TypeOK
<1>10. CASE CacheMiss
  <2>1. count' \in [Counters -> 0 .. CounterMod - 1]
    BY <1>10, BumpStep DEF CacheMiss, Counters
  <2>2. QED
    BY <1>1, <1>7, <1>10, <2>1, SourceTypes DEF CacheMiss, TypeOK
<1>11. CASE ReadListsFails
  <2>1. Timed(stats, IF lists.access = "missing" THEN {"index_read"}
                                                ELSE {"index_read", "index_parse"}) \in Stats
    BY StatsUpdates DEF Stages
  <2>2. Typed
    BY <1>2, <1>11, <2>1 DEF ReadListsFails, ErrorCounters, Faults, TypeOK
  <2>3. QED
    BY <1>1, <2>2 DEF TypeOK
<1>12. CASE ParseListsFails
  <2>1. [Timed(stats, {"index_read", "index_parse"})
           EXCEPT !.APTListsSource.Up = TRUE] \in Stats
    <3>1. Timed(stats, {"index_read", "index_parse"}) \in Stats
      BY StatsUpdates DEF Stages
    <3>2. QED
      BY <3>1 DEF Stats, Health
  <2>2. Typed
    BY <1>2, <1>12, <2>1 DEF ParseListsFails, ErrorCounters, Faults, TypeOK
  <2>3. QED
    BY <1>1, <2>2 DEF TypeOK
<1>13. CASE ParseLists
  <2> DEFINE available == Select(lists.files \ lists.unopenable, stats.installed)
            valid == Indexes(lists.files) # {}
  <2>1. stats.installed \in Inventories
    BY <1>13 DEF ParseLists, Step, LocalInv, Stats, TypeOK
  <2>2. available \in Packages /\ valid \in BOOLEAN
         /\ InstalledRevision[stats.installed] \in Revisions
    BY <2>1, SourceTypes, SelectType, FileTypes DEF Directories
  <2>3. Timed(stats, {"index_read", "index_parse"}) \in Stats
    BY StatsUpdates DEF Stages
  <2>4. /\ stats' = Loaded(Timed(stats, {"index_read", "index_parse"}), available, valid)
        /\ cached' = [available |-> available, valid |-> valid,
                      packageRevision |-> revision,
                      installedRevision |-> InstalledRevision[stats.installed]]
    BY <1>13 DEF ParseLists
  <2> HIDE DEF available, valid
  <2>5. stats' \in Stats
    BY <2>2, <2>3, <2>4, StatsUpdates
  <2>6. cached' \in [available : Packages, valid : BOOLEAN,
                     packageRevision : Directories, installedRevision : Revisions]
    BY <2>2, <2>4 DEF TypeOK
  <2>7. QED
    BY <1>1, <1>13, <2>5, <2>6 DEF ParseLists, TypeOK
<1>14. CASE UnfilteredFails
  <2>1. Typed
    BY <1>2, <1>14 DEF UnfilteredFails, ErrorCounters, Faults, TypeOK
  <2>2. QED
    BY <1>1, <2>1 DEF TypeOK
<1>15. CASE ReadUnfiltered
  <2>1. stats' \in Stats
    BY <1>15 DEF ReadUnfiltered, TypeOK, Stats, Health
  <2>2. QED
    BY <1>1, <1>15, <2>1 DEF ReadUnfiltered, TypeOK
<1>16. CASE MetadataFails
  <2>1. Typed
    BY <1>2, <1>16, StatsUpdates DEF MetadataFails, ErrorCounters, Faults, TypeOK
  <2>2. QED
    BY <1>1, <2>1 DEF TypeOK
<1>17. CASE ReadMetadata
  <2>1. stats' \in Stats
    BY <1>17, SourceTypes, FileTypes DEF ReadMetadata, TypeOK, Stats
  <2>2. QED
    BY <1>1, <1>17, <2>1 DEF ReadMetadata, TypeOK
<1>18. QED
  BY <1>3, <1>4, <1>5, <1>6, <1>8, <1>9, <1>10, <1>11, <1>12, <1>13, <1>14, <1>15, <1>16,
     <1>17 DEF Collect

\* The fields of a fallback: the data of the last success, the outcome of the
\* failure.
LEMMA FallbackFields ==
  ASSUME NEW last \in Snapshot, NEW snapshot \in Snapshot
  PROVE  LET f == Fallback(last, snapshot)
         IN  /\ f \in Snapshot
             /\ f.Err = snapshot.Err /\ f.RebootRequired = last.RebootRequired
             /\ f.Stats.installed = last.Stats.installed
             /\ f.Stats.available = last.Stats.available
             /\ f.Stats.UpgradeMetricsValid = last.Stats.UpgradeMetricsValid
             /\ f.Stats.StageDurations = last.Stats.StageDurations
             /\ f.Stats.DPKGStatusLastModified = last.Stats.DPKGStatusLastModified
             /\ f.Stats.APTListsLastModified = last.Stats.APTListsLastModified
             /\ \A k \in Counters :
                  f.Stats.totals[k] = IF k \in ErrorCounters THEN snapshot.Stats.totals[k]
                                                             ELSE last.Stats.totals[k]
BY DEF Fallback, Snapshot, Stats

LEMMA CollectedType ==
  ASSUME TypeOK
  PROVE  Collected \in Snapshot
BY DEF Collected, TypeOK, Snapshot

LEMMA NextTypeOK ==
  ASSUME TypeOK, LocalInv, [Next]_vars
  PROVE  TypeOK'
<1>1. CASE Environment
  <2>1. CASE ChangeStatus
    BY <2>1 DEF ChangeStatus, TypeOK, local, observer
  <2>2. CASE ChangeLists
    BY <2>2 DEF ChangeLists, TypeOK, local, observer
  <2>3. CASE ChangeMarker
    BY <2>3 DEF ChangeMarker, TypeOK, local, observer
  <2>4. QED
    BY <1>1, <2>1, <2>2, <2>3 DEF Environment
<1>2. CASE Collect
  BY <1>2, CollectTypeOK
<1>3. CASE CheckReboot
  BY <1>3 DEF CheckReboot, TypeOK, host, observer, Faults
<1>4. ASSUME NEW snapshot \in Snapshot, Publish(snapshot),
             lastSnapshot' \in Snapshot, hasSuccessful' \in BOOLEAN
      PROVE  TypeOK'
  BY <1>4, FileTypes, BlankTypes DEF Publish, TypeOK, host
<1>5. CASE ObserveSuccess
  BY <1>4, <1>5, CollectedType DEF ObserveSuccess
<1>6. CASE ObserveFailure
  BY <1>4, <1>6, CollectedType, FallbackFields DEF ObserveFailure, observer, TypeOK
<1>7. CASE UNCHANGED vars
  BY <1>7 DEF vars, host, local, observer, TypeOK
<1>8. QED
  BY <1>1, <1>2, <1>3, <1>5, <1>6, <1>7 DEF Next, Refresh

----------------------------------------------------------------------------
(* What a step does to the data of the collection *)

SameData(s, t) ==
  /\ s.installed = t.installed /\ s.available = t.available
  /\ s.UpgradeMetricsValid = t.UpgradeMetricsValid
  /\ Counted(s) <=> Counted(t)

LEMMA TimedFields ==
  ASSUME NEW s \in Stats, NEW stages \in SUBSET (Stages \ {"count"})
  PROVE  Timed(s, stages) \in Stats /\ SameData(Timed(s, stages), s)
BY DEF Timed, Stats, SameData, Counted

LEMMA LoadedFields ==
  ASSUME NEW s \in Stats, NEW available \in Packages, NEW valid \in BOOLEAN
  PROVE  LET l == Loaded(s, available, valid)
         IN  /\ l.installed = s.installed /\ l.available = available
             /\ l.UpgradeMetricsValid = valid /\ Counted(l)
BY DEF Loaded, Timed, Stats, Stages, Counted

\* Steps that fail, miss, or read what is not data.
QuietStep ==
  \/ ReadStatusFails \/ ParseStatusFails \/ StatListsFails \/ CacheMiss
  \/ ReadListsFails \/ ParseListsFails \/ UnfilteredFails \/ ReadUnfiltered
  \/ MetadataFails \/ ReadMetadata

LEMMA QuietSteps ==
  ASSUME TypeOK, QuietStep
  PROVE  SameData(stats', stats) /\ cached' = cached
<1>1. stats \in Stats
  BY DEF TypeOK
<1>2. \A stages \in SUBSET (Stages \ {"count"}) :
        Timed(stats, stages) \in Stats /\ SameData(Timed(stats, stages), stats)
  BY <1>1, TimedFields
<1>3. CASE ReadStatusFails
  BY <1>2, <1>3 DEF ReadStatusFails, Fault, Stages
<1>4. CASE ParseStatusFails
  <2> DEFINE t == Timed(stats, {"status_read", "status_parse"})
  <2>1. t \in Stats /\ SameData(t, stats)
    BY <1>2 DEF Stages
  <2>2. stats' = [t EXCEPT !.StatusDatabaseSource.Up = TRUE] /\ cached' = cached
    BY <1>4 DEF ParseStatusFails, Fault
  <2>3. QED
    <3> HIDE DEF t
    <3> QED BY <2>1, <2>2 DEF Stats, SameData, Counted
<1>5. CASE StatListsFails \/ CacheMiss
  BY <1>2, <1>5 DEF StatListsFails, CacheMiss, Fault, Revised, Stages
<1>6. CASE ReadListsFails
  BY <1>2, <1>6 DEF ReadListsFails, Fault, Stages
<1>7. CASE ParseListsFails
  <2> DEFINE t == Timed(stats, {"index_read", "index_parse"})
  <2>1. t \in Stats /\ SameData(t, stats)
    BY <1>2 DEF Stages
  <2>2. stats' = [t EXCEPT !.APTListsSource.Up = TRUE] /\ cached' = cached
    BY <1>7 DEF ParseListsFails, Fault
  <2>3. QED
    <3> HIDE DEF t
    <3> QED BY <2>1, <2>2 DEF Stats, SameData, Counted
<1>8. CASE UnfilteredFails \/ ReadUnfiltered
  BY <1>1, <1>8 DEF UnfilteredFails, ReadUnfiltered, Fault, SameData, Counted, Stats
<1>9. CASE MetadataFails \/ ReadMetadata
  BY <1>1, <1>9 DEF MetadataFails, ReadMetadata, Fault, SameData, Counted, Stats
<1>10. QED
  BY <1>3, <1>4, <1>5, <1>6, <1>7, <1>8, <1>9 DEF QuietStep

\* The status database has been read.
LEMMA ReadStatusStep ==
  ASSUME TypeOK, ReadStatus
  PROVE  /\ stats'.installed = status.file /\ status.file \in Inventories
         /\ stats'.available = stats.available
         /\ stats'.UpgradeMetricsValid = stats.UpgradeMetricsValid
         /\ Counted(stats') <=> Counted(stats)
<1> DEFINE t == Timed(stats, {"status_read", "status_parse"})
<1>1. t \in Stats /\ SameData(t, stats)
  BY TimedFields DEF TypeOK, Stages
<1>2. /\ stats' = [t EXCEPT !.StatusDatabaseSource = [Up |-> TRUE, Valid |-> TRUE],
                            !.installed = status.file]
      /\ status.file \in Inventories
  BY SourceTypes DEF ReadStatus, Inventories
<1> HIDE DEF t
<1>3. QED
  BY <1>1, <1>2 DEF Stats, SameData, Counted

\* The packages have arrived, from the cache or from the lists.
LEMMA CacheHitStep ==
  ASSUME TypeOK, CacheHit
  PROVE  /\ stats'.installed = stats.installed /\ stats'.available = cached.available
         /\ stats'.UpgradeMetricsValid = cached.valid /\ Counted(stats')
<1>1. Revised \in Stats /\ SameData(Revised, stats)
  BY TimedFields DEF Revised, TypeOK, Stages
<1>2. stats' = Loaded(Revised, cached.available, cached.valid)
  BY DEF CacheHit
<1>3. cached.available \in Packages /\ cached.valid \in BOOLEAN
  BY DEF TypeOK
<1>4. QED
  BY <1>1, <1>2, <1>3, LoadedFields DEF SameData

\* The parser is called with packages that have been read.
LEMMA InventoryRead ==
  ASSUME TypeOK, LocalInv, pc \in {"available", "parse"}
  PROVE  stats.installed \in Inventories
BY DEF LocalInv, Stats, TypeOK

Parsed     == Select(lists.files \ lists.unopenable, stats.installed)
HasIndexes == Indexes(lists.files) # {}

LEMMA ParseListsStep ==
  ASSUME TypeOK, LocalInv, ParseLists
  PROVE  /\ stats'.installed = stats.installed /\ stats'.available = Parsed
         /\ stats'.UpgradeMetricsValid = HasIndexes /\ Counted(stats')
         /\ cached' = [available |-> Parsed, valid |-> HasIndexes,
                       packageRevision |-> revision,
                       installedRevision |-> InstalledRevision[stats.installed]]
<1> DEFINE t == Timed(stats, {"index_read", "index_parse"})
<1>1. t \in Stats /\ SameData(t, stats)
  BY TimedFields DEF TypeOK, Stages
<1>2. stats' = Loaded(t, Parsed, HasIndexes)
  BY DEF ParseLists, Parsed, HasIndexes
<1>3. Parsed \in Packages /\ HasIndexes \in BOOLEAN
  <2>1. stats.installed \in Inventories
    BY InventoryRead DEF ParseLists, Step
  <2>2. QED
    BY <2>1, SourceTypes, SelectType DEF Parsed, HasIndexes, Directories
<1> HIDE DEF t
<1>4. /\ stats'.installed = stats.installed /\ stats'.available = Parsed
      /\ stats'.UpgradeMetricsValid = HasIndexes /\ Counted(stats')
  BY <1>1, <1>2, <1>3, LoadedFields DEF SameData
<1>5. QED
  BY <1>4 DEF ParseLists, Parsed, HasIndexes

\* What is selected comes of an index, for the revision of the packages.
LEMMA SelectFields ==
  ASSUME NEW files, NEW installed, Select(files, installed) # Nil
  PROVE  /\ Select(files, installed) = [content |-> files,
                                        filter  |-> InstalledRevision[installed]]
         /\ ~(Indexes(files) \subseteq Foreign)
BY DEF Select

----------------------------------------------------------------------------
(* The invariant *)

LEMMA BlankFields ==
  Bare(BlankStats) /\ Matching(BlankStats) /\ BlankStats.installed = NoFile
BY DEF Bare, Matching, Counted, BlankStats

LEMMA InitIInv == Init => IInv
<1> SUFFICES ASSUME Init PROVE LocalInv /\ CacheInv /\ ObserverInv
  BY InitTypeOK DEF IInv
<1>1. LocalInv
  BY BlankFields DEF Init, LocalInv
<1>2. CacheInv
  BY DEF Init, CacheInv
<1>3. ObserverInv
  BY BlankFields DEF Init, ObserverInv, BlankSnapshot
<1>4. QED
  BY <1>1, <1>2, <1>3

\* Dpkg and apt touch nothing of the exporter.
LEMMA EnvironmentStep ==
  ASSUME Environment
  PROVE  UNCHANGED <<count, cached, pc, local, observer, published>>
BY DEF Environment, ChangeStatus, ChangeLists, ChangeMarker

LEMMA EnvironmentIInv ==
  ASSUME IInv, Environment
  PROVE  LocalInv' /\ CacheInv' /\ ObserverInv'
<1>1. UNCHANGED <<cached, pc, stats, errs, lastSnapshot, hasSuccessful, published>>
  BY EnvironmentStep DEF local, observer
<1>2. QED
  BY <1>1 DEF IInv, LocalInv, CacheInv, ObserverInv

LEMMA CollectFrame ==
  ASSUME Collect
  PROVE  UNCHANGED <<host, rebootRequired, lastSnapshot, hasSuccessful, published>>
BY DEF Collect, Step, observer, BeginCollect, ReadStatusFails, ParseStatusFails,
       ReadStatus, StatListsFails, CacheHit, CacheMiss, ReadListsFails, ParseListsFails,
       ParseLists, UnfilteredFails, ReadUnfiltered, MetadataFails, ReadMetadata

LEMMA CollectIInv ==
  ASSUME IInv, Collect
  PROVE  LocalInv' /\ CacheInv' /\ ObserverInv'
<1> USE DEF IInv
<1>1. ObserverInv'
  BY CollectFrame DEF ObserverInv
<1>2. CASE BeginCollect
  BY <1>1, <1>2 DEF BeginCollect, Step, LocalInv, CacheInv
<1>3. CASE QuietStep
  <2>1. SameData(stats', stats) /\ cached' = cached
    BY <1>3, QuietSteps
  <2>2. CacheInv'
    BY <2>1 DEF CacheInv
  <2>3. Matching(stats') /\ (Bare(stats) => Bare(stats'))
    BY <2>1 DEF LocalInv, SameData, Matching, Bare
  <2>4. CASE ReadStatusFails \/ ParseStatusFails
    <3>1. pc = "status" /\ pc' = "unfiltered" /\ "status database" \in errs'
      BY <2>4 DEF ReadStatusFails, ParseStatusFails, Step, Fault
    <3>2. errs' = {"status database"} /\ Bare(stats)
      BY <2>4, <3>1, BlankFields DEF ReadStatusFails, ParseStatusFails, Fault, LocalInv
    <3>3. QED
      BY <1>1, <2>2, <2>3, <3>1, <3>2 DEF LocalInv
  <2>5. CASE CacheMiss
    <3>1. pc = "available" /\ pc' = "parse" /\ errs' = errs
      BY <2>5 DEF CacheMiss, Step
    <3>2. Bare(stats) /\ stats.installed # NoFile /\ errs = {}
      BY <3>1 DEF LocalInv
    <3>3. stats'.installed # NoFile
      BY <2>1, <3>2 DEF SameData
    <3>4. QED
      BY <1>1, <2>2, <2>3, <3>1, <3>2, <3>3 DEF LocalInv
  <2>6. CASE StatListsFails \/ ReadListsFails \/ ParseListsFails
    <3>1. pc \in {"available", "parse"} /\ pc' = "metadata"
          /\ errs' = errs \cup {"package indexes"}
      BY <2>6 DEF StatListsFails, ReadListsFails, ParseListsFails, Step, Fault
    <3>2. errs' = {"package indexes"} /\ Bare(stats)
      BY <3>1 DEF LocalInv
    <3>3. QED
      BY <1>1, <2>2, <2>3, <3>1, <3>2 DEF LocalInv
  <2>7. CASE UnfilteredFails \/ ReadUnfiltered
    <3>1. pc = "unfiltered" /\ pc' = "metadata"
          /\ errs \subseteq errs' /\ errs' \subseteq errs \cup {"package indexes"}
      BY <2>7 DEF UnfilteredFails, ReadUnfiltered, Step, Fault
    <3>2. Bare(stats) /\ errs' # {} /\ "reboot marker" \notin errs'
      BY <3>1 DEF LocalInv
    <3>3. QED
      BY <1>1, <2>2, <2>3, <3>1, <3>2 DEF LocalInv
  <2>8. CASE MetadataFails \/ ReadMetadata
    <3>1. pc = "metadata" /\ pc' = "marker"
          /\ errs \subseteq errs' /\ errs' \subseteq errs \cup {"source metadata"}
      BY <2>8 DEF MetadataFails, ReadMetadata, Step, Fault
    <3>2. "reboot marker" \notin errs'
      BY <3>1 DEF LocalInv
    <3>3. \/ Counted(stats') /\ stats'.installed # NoFile
          \/ Bare(stats') /\ errs' # {}
      BY <2>1, <2>3, <3>1 DEF LocalInv, SameData
    <3>4. QED
      BY <1>1, <2>2, <2>3, <3>1, <3>2, <3>3 DEF LocalInv
  <2>9. QED
    BY <1>3, <2>4, <2>5, <2>6, <2>7, <2>8 DEF QuietStep
<1>4. CASE ReadStatus
  <2>1. pc = "status" /\ pc' = "available" /\ UNCHANGED <<cached, errs>>
    BY <1>4 DEF ReadStatus, Step
  <2>2. Bare(stats) /\ errs = {}
    BY <2>1, BlankFields DEF LocalInv
  <2>3. Bare(stats') /\ stats'.installed # NoFile
    BY <1>4, <2>2, ReadStatusStep, FilesAssumption DEF Bare, Inventories
  <2>4. LocalInv'
    BY <2>1, <2>2, <2>3 DEF LocalInv, Bare, Matching
  <2>5. QED
    BY <1>1, <2>1, <2>4 DEF CacheInv
<1>5. CASE CacheHit
  <2>1. pc = "available" /\ pc' = "metadata" /\ UNCHANGED <<cached, errs>>
    BY <1>5 DEF CacheHit, Step
  <2>2. /\ cached.available # Nil
        /\ cached.installedRevision = InstalledRevision[stats.installed]
    BY <1>5 DEF CacheHit, Matches
  <2>3. stats.installed # NoFile /\ errs = {}
    BY <2>1 DEF LocalInv
  <2>4. LocalInv'
    BY <1>5, <2>1, <2>2, <2>3, CacheHitStep DEF LocalInv, CacheInv, Matching
  <2>5. QED
    BY <1>1, <2>1, <2>4 DEF CacheInv
<1>6. CASE ParseLists
  <2>1. pc = "parse" /\ pc' = "metadata" /\ errs' = errs
    BY <1>6 DEF ParseLists, Step
  <2>2. stats.installed # NoFile /\ errs = {}
    BY <2>1 DEF LocalInv
  <2>3. Parsed # Nil => HasIndexes /\ Parsed.filter = InstalledRevision[stats.installed]
    BY SelectFields DEF Parsed, HasIndexes, Indexes
  <2>4. LocalInv'
    BY <1>6, <2>1, <2>2, <2>3, ParseListsStep DEF LocalInv, Matching
  <2>5. CacheInv'
    <3>1. cached' = [available |-> Parsed, valid |-> HasIndexes,
                     packageRevision |-> revision,
                     installedRevision |-> InstalledRevision[stats.installed]]
      BY <1>6, ParseListsStep
    <3>2. /\ cached'.available = Parsed /\ cached'.valid = HasIndexes
          /\ cached'.installedRevision = InstalledRevision[stats.installed]
      BY <3>1
    <3>3. QED
      BY <2>3, <3>2 DEF CacheInv
  <2>6. QED
    BY <1>1, <2>4, <2>5
<1>7. QED
  BY <1>2, <1>3, <1>4, <1>5, <1>6 DEF Collect, QuietStep

\* What the last step of a refresh has in hand: a complete collection where there
\* is no error.
LEMMA CollectedStep ==
  ASSUME IInv, pc = "observe"
  PROVE  /\ Collected \in Snapshot /\ Collected.Err = errs /\ Collected.Stats = stats
         /\ Matching(stats)
         /\ errs = {} => Counted(stats) /\ stats.installed # NoFile
<1>1. Collected \in Snapshot
  BY CollectedType DEF IInv
<1>2. Collected.Err = errs /\ Collected.Stats = stats
  BY DEF Collected
<1>3. Matching(stats) /\ (errs = {} => Counted(stats) /\ stats.installed # NoFile)
  BY DEF IInv, LocalInv
<1>4. QED
  BY <1>1, <1>2, <1>3

\* A fallback has the data of the last success.
LEMMA FallbackData ==
  ASSUME NEW last \in Snapshot, NEW snapshot \in Snapshot
  PROVE  LET f == Fallback(last, snapshot)
         IN  /\ SameData(f.Stats, last.Stats)
             /\ DataOf(f) = DataOf(last)
             /\ Matching(last.Stats) => Matching(f.Stats)
BY FallbackFields DEF SameData, Matching, Counted, DataOf

LEMMA ObserveIInv ==
  ASSUME IInv, CheckReboot \/ ObserveSuccess \/ ObserveFailure
  PROVE  LocalInv' /\ CacheInv' /\ ObserverInv'
<1> USE DEF IInv
<1>1. CASE CheckReboot
  <2>1. /\ pc = "marker" /\ pc' = "observe" /\ errs \subseteq errs'
        /\ UNCHANGED <<cached, stats, lastSnapshot, hasSuccessful, published>>
    BY <1>1 DEF CheckReboot, observer
  <2>2. errs # {} => errs' # {}
    BY <2>1
  <2>3. LocalInv'
    BY <2>1, <2>2 DEF LocalInv
  <2>4. QED
    BY <2>1, <2>3 DEF CacheInv, ObserverInv
<1>2. ASSUME NEW snapshot, Publish(snapshot) PROVE LocalInv' /\ CacheInv'
  <2>1. pc' = "idle" /\ stats' = BlankStats /\ errs' = {} /\ cached' = cached
    BY <1>2 DEF Publish
  <2>2. LocalInv'
    BY <2>1, BlankFields DEF LocalInv
  <2>3. QED
    BY <2>1, <2>2 DEF CacheInv
<1>3. CASE ObserveSuccess
  <2>1. Collected.Stats = stats /\ Matching(stats) /\ Counted(stats)
    BY <1>3, CollectedStep DEF ObserveSuccess
  <2>2. lastSnapshot' = Collected /\ published' = Collected /\ hasSuccessful' = TRUE
    BY <1>3 DEF ObserveSuccess, Publish
  <2>3. ObserverInv'
    BY <2>1, <2>2 DEF ObserverInv
  <2>4. QED
    BY <1>2, <1>3, <2>3 DEF ObserveSuccess
<1>4. CASE ObserveFailure
  <2>1. Collected \in Snapshot /\ Collected.Stats = stats /\ Matching(stats)
    BY <1>4, CollectedStep DEF ObserveFailure
  <2>2. UNCHANGED <<lastSnapshot, hasSuccessful>> /\ lastSnapshot \in Snapshot
    BY <1>4 DEF ObserveFailure, observer, TypeOK
  <2>3. CASE hasSuccessful
    <3>1. published' = Fallback(lastSnapshot, Collected)
      BY <1>4, <2>3 DEF ObserveFailure, Publish
    <3>2. QED
      BY <1>2, <1>4, <2>1, <2>2, <2>3, <3>1, FallbackData DEF ObserveFailure, ObserverInv
  <2>4. CASE ~hasSuccessful
    <3>1. published' = Collected
      BY <1>4, <2>4 DEF ObserveFailure, Publish
    <3>2. QED
      BY <1>2, <1>4, <2>1, <2>2, <2>4, <3>1 DEF ObserveFailure, ObserverInv
  <2>5. QED
    BY <2>3, <2>4
<1>5. QED
  BY <1>1, <1>3, <1>4

LEMMA NextIInv == IInv /\ [Next]_vars => IInv'
<1> SUFFICES ASSUME IInv, [Next]_vars PROVE LocalInv' /\ CacheInv' /\ ObserverInv'
  BY NextTypeOK DEF IInv
<1>1. CASE UNCHANGED vars
  <2>1. UNCHANGED <<cached, pc, stats, errs, lastSnapshot, hasSuccessful, published>>
    BY <1>1 DEF vars, local, observer
  <2>2. QED
    BY <2>1 DEF IInv, LocalInv, CacheInv, ObserverInv
<1>2. QED
  BY <1>1, EnvironmentIInv, CollectIInv, ObserveIInv DEF Next, Refresh

\* What the collection in progress, the cache and the observer know of the
\* packages, with the types it needs, is inductive.
THEOREM Invariance == Spec => []IInv
BY InitIInv, NextIInv, PTL DEF Spec

\* Every variable keeps its type: counters wrap at their width, packages are
\* selected for an inventory that was read and parsed, and what is published is
\* always a snapshot.
THEOREM TypeCorrect == Spec => []TypeOK
<1>1. IInv => TypeOK
  BY DEF IInv
<1>2. QED
  BY Invariance, <1>1, PTL

\* Upgrade counts are published beside the inventory they were computed for,
\* whichever collection filled the cache.
THEOREM Selection == Spec => []UpgradesMatchInventory
<1>1. IInv => UpgradesMatchInventory
  BY DEF IInv, ObserverInv, Matching, UpgradesMatchInventory
<1>2. QED
  BY Invariance, <1>1, PTL

----------------------------------------------------------------------------
(* The history *)

\* A refresh in progress remembers what it has seen and sees the host as it is.
LEMMA WatchStep ==
  ASSUME TypeOK', WindowInv, Watch
  PROVE  /\ WindowInv'
         /\ followed \subseteq followed'
         /\ pc' = "idle" => window' = NoWindow /\ followed' = followed
         /\ pc' # "idle" => /\ window.inventories \subseteq window'.inventories
                            /\ window.listings \subseteq window'.listings
                            /\ window.markers \subseteq window'.markers
<1>1. status'.file \in StatusFiles /\ lists'.files \in Directories /\ marker' \in MarkerStates
  BY StatesAssumption DEF TypeOK
<1>2. followed' = followed \cup (window'.listings \X {lists'.files})
  BY DEF Watch
<1>3. CASE pc' = "idle"
  <2>1. window' = NoWindow
    BY <1>3 DEF Watch
  <2>2. window'.listings = {}
    BY <2>1 DEF NoWindow
  <2>3. followed' = followed
    BY <1>2, <2>2
  <2>4. QED
    BY <1>3, <2>1, <2>3 DEF WindowInv, NoWindow
<1>4. CASE pc' # "idle"
  <2>1. window' = [inventories |-> window.inventories \cup {status'.file},
                   listings    |-> window.listings \cup {lists'.files},
                   markers     |-> window.markers \cup {marker'}]
    BY <1>4 DEF Watch
  <2>2. /\ window.inventories \in SUBSET StatusFiles
        /\ window.listings \in SUBSET Directories
        /\ window.markers \in SUBSET MarkerStates
    BY DEF WindowInv
  <2>3. /\ window'.inventories = window.inventories \cup {status'.file}
        /\ window'.listings = window.listings \cup {lists'.files}
        /\ window'.markers = window.markers \cup {marker'}
    BY <2>1
  <2>4. window' \in [inventories : SUBSET StatusFiles, listings : SUBSET Directories,
                     markers : SUBSET MarkerStates]
    BY <1>1, <2>1, <2>2
  <2>5. \A L \in window'.listings : <<L, lists'.files>> \in followed'
    BY <1>2
  <2>6. WindowInv'
    BY <1>4, <2>3, <2>4, <2>5 DEF WindowInv
  <2>7. QED
    BY <1>2, <1>4, <2>3, <2>6
<1>5. QED
  BY <1>3, <1>4

\* While the lists stay there is nothing new to remember of them.
LEMMA SameListing ==
  ASSUME WindowInv, Watch, lists'.files = lists.files, pc' = "idle" \/ pc # "idle"
  PROVE  /\ followed' = followed
         /\ pc' # "idle" => window'.listings = window.listings
<1>1. followed' = followed \cup (window'.listings \X {lists'.files})
  BY DEF Watch
<1>2. CASE pc' = "idle"
  <2>1. window'.listings = {}
    BY <1>2 DEF Watch, NoWindow
  <2>2. QED
    BY <1>1, <1>2, <2>1
<1>3. CASE pc' # "idle"
  <2>1. window'.listings = window.listings \cup {lists.files}
    BY <1>3 DEF Watch
  <2>2. /\ lists.files \in window.listings
        /\ \A L \in window.listings : <<L, lists.files>> \in followed
    BY <1>3 DEF WindowInv
  <2>3. QED
    BY <1>1, <2>1, <2>2
<1>4. QED
  BY <1>2, <1>3

\* An entry stays one that was read after its revision.
EntryFiled == cached.available # Nil => \E pair \in followed : EntryOf(pair)

LEMMA EntryKept ==
  ASSUME EntryFiled, cached' = cached, followed \subseteq followed'
  PROVE  EntryFiled'
BY DEF EntryFiled, EntryOf

\* What was gathered stays gathered until the refresh ends.
LEMMA OffersKept ==
  ASSUME HasOffers, SameData(stats', stats), followed \subseteq followed',
         window.listings \subseteq window'.listings
  PROVE  HasOffers'
BY DEF HasOffers, OffersOf, SameData

LEMMA TimesKept ==
  ASSUME HasTimes, stats' = stats,
         window.inventories \subseteq window'.inventories,
         window.listings \subseteq window'.listings
  PROVE  HasTimes'
BY DEF HasTimes

LEMMA InitHInv == HInit => HInv
<1> SUFFICES ASSUME HInit PROVE HInv
  OBVIOUS
<1>1. WindowInv
  BY DEF HInit, Init, WindowInv, NoWindow
<1>2. FiledInv
  BY DEF HInit, Init, FiledInv
<1>3. GatheredInv
  BY BlankFields DEF HInit, Init, GatheredInv, Bare
<1>4. QED
  BY <1>1, <1>2, <1>3 DEF HInv

\* The lists parsed: those that were there all the time since the revision, or
\* that came after it.
LEMMA ParsedOffers ==
  ASSUME TypeOK, LocalInv, WindowInv, ParseLists
  PROVE  /\ <<lists.files, lists.files>> \in followed
         /\ lists.files \in window.listings
         /\ lists.files \cap (Corrupt \cup Overlong) = {}
         /\ \E skipped \in SUBSET ReleaseFiles :
              Parsed = Select(lists.files \ skipped, stats.installed)
<1>1. lists.files \in window.listings /\ <<lists.files, lists.files>> \in followed
  BY DEF WindowInv, ParseLists, Step
<1>2. Unopened = {} /\ Unscanned = {}
  BY DEF ParseLists
<1>3. lists.files \cap (Corrupt \cup Overlong) = {}
  BY <1>2, FilesAssumption DEF Unscanned, Indexes
<1>4. lists.files \subseteq IndexFiles \cup ReleaseFiles
  BY SourceTypes DEF Directories, ListFiles
<1>5. lists.files \ lists.unopenable = lists.files \ (lists.unopenable \cap ReleaseFiles)
  BY <1>2, <1>4 DEF Unopened, Indexes
<1>6. QED
  BY <1>1, <1>3, <1>5 DEF Parsed

\* A hit shows what some refresh read after it had seen the present lists.
LEMMA HitOffers ==
  ASSUME TypeOK, LocalInv, CacheInv, WindowInv, EntryFiled, CacheHit
  PROVE  \E pair \in followed :
           /\ pair[1] = lists.files
           /\ pair[2] \cap (Corrupt \cup Overlong) = {}
           /\ cached.valid = (Indexes(pair[2]) # {})
           /\ \E skipped \in SUBSET ReleaseFiles :
                cached.available = Select(pair[2] \ skipped, stats.installed)
<1>1. /\ cached.available # Nil /\ cached.packageRevision = lists.files
      /\ cached.installedRevision = InstalledRevision[stats.installed]
  BY DEF CacheHit, Matches
<1>2. PICK pair \in followed : EntryOf(pair)
  BY <1>1 DEF EntryFiled
<1>3. PICK skipped \in SUBSET ReleaseFiles :
        /\ ~(Indexes(pair[2] \ skipped) \subseteq Foreign)
        /\ cached.available = [content |-> pair[2] \ skipped,
                               filter  |-> cached.installedRevision]
  BY <1>2 DEF EntryOf
<1>4. cached.available = Select(pair[2] \ skipped, stats.installed)
  BY <1>1, <1>3 DEF Select
<1>5. cached.valid = TRUE
  BY <1>1 DEF CacheInv, TypeOK
<1>6. Indexes(pair[2]) # {}
  BY <1>3 DEF Indexes
<1>7. QED
  BY <1>1, <1>2, <1>4, <1>5, <1>6 DEF EntryOf

LEMMA CollectHInv ==
  ASSUME IInv, IInv', HInv, Collect, Watch
  PROVE  FiledInv' /\ GatheredInv'
<1> USE DEF IInv, HInv
<1>1. UNCHANGED <<status, lists, marker, rebootRequired>>
  BY CollectFrame DEF host
<1>2. pc # "observe" /\ pc' # "idle" /\ pc' # "observe"
  BY DEF Collect, Step, BeginCollect, ReadStatusFails, ParseStatusFails,
         ReadStatus, StatListsFails, CacheHit, CacheMiss, ReadListsFails, ParseListsFails,
         ParseLists, UnfilteredFails, ReadUnfiltered, MetadataFails, ReadMetadata
<1>3. /\ followed \subseteq followed'
      /\ window.inventories \subseteq window'.inventories
      /\ window.listings \subseteq window'.listings
  BY <1>2, WatchStep
<1>4. status.file \in window'.inventories /\ lists.files \in window'.listings
  BY <1>1, <1>2, WatchStep DEF WindowInv
<1>5. EntryFiled
  BY DEF FiledInv, EntryFiled
<1>6. CASE BeginCollect
  <2>1. pc = "idle" /\ pc' = "status" /\ cached' = cached /\ stats' = stats
    BY <1>6 DEF BeginCollect, Step
  <2>2. stats' = BlankStats
    BY <2>1 DEF LocalInv
  <2>3. GatheredInv'
    BY <2>1, <2>2, BlankFields DEF GatheredInv, Bare
  <2>4. EntryFiled'
    BY <1>3, <1>5, <2>1, EntryKept
  <2>5. QED
    BY <2>1, <2>3, <2>4 DEF FiledInv, EntryFiled
<1>7. CASE QuietStep
  <2>1. SameData(stats', stats) /\ cached' = cached
    BY <1>7, QuietSteps
  <2>2. EntryFiled'
    BY <1>3, <1>5, <2>1, EntryKept
  <2>3. pc' = "parse" => revision' \in window'.listings
    BY <1>4, <1>7
       DEF QuietStep, Step, ReadStatusFails, ParseStatusFails, StatListsFails, CacheMiss,
           ReadListsFails, ParseListsFails, UnfilteredFails, ReadUnfiltered, MetadataFails,
           ReadMetadata
  <2>4. stats'.installed # NoFile => stats'.installed \in window'.inventories
    BY <1>3, <2>1 DEF GatheredInv, SameData
  <2>5. Counted(stats') => HasOffers'
    BY <1>3, <2>1, OffersKept DEF GatheredInv, SameData
  <2>6. pc' \in {"marker", "observe"} => HasTimes' \/ "source metadata" \in errs'
    <3>1. CASE MetadataFails
      BY <3>1 DEF MetadataFails, Fault
    <3>2. CASE ReadMetadata
      <4>1. /\ stats'.DPKGStatusLastModified = status.file
            /\ stats'.APTListsLastModified = LastModified(lists.files)
        BY <3>2 DEF ReadMetadata, TypeOK, Stats
      <4>2. QED
        BY <1>4, <4>1 DEF HasTimes
    <3>3. CASE ~(MetadataFails \/ ReadMetadata)
      BY <1>7, <3>3
         DEF QuietStep, Step, ReadStatusFails, ParseStatusFails, StatListsFails, CacheMiss,
             ReadListsFails, ParseListsFails, UnfilteredFails, ReadUnfiltered
    <3>4. QED
      BY <3>1, <3>2, <3>3
  <2>7. QED
    BY <1>2, <2>2, <2>3, <2>4, <2>5, <2>6 DEF FiledInv, EntryFiled, GatheredInv
<1>8. CASE ReadStatus
  <2>1. pc' = "available" /\ cached' = cached
    BY <1>8 DEF ReadStatus, Step
  <2>2. EntryFiled'
    BY <1>3, <1>5, <2>1, EntryKept
  <2>3. ~Counted(stats') /\ stats'.installed \in window'.inventories
    BY <1>4, <1>8, <2>1, ReadStatusStep DEF LocalInv, Bare
  <2>4. QED
    BY <2>1, <2>2, <2>3 DEF FiledInv, EntryFiled, GatheredInv
<1>9. CASE CacheHit
  <2>1. pc' = "metadata" /\ cached' = cached
    BY <1>9 DEF CacheHit, Step
  <2>2. EntryFiled'
    BY <1>3, <1>5, <2>1, EntryKept
  <2>3. HasOffers'
    BY <1>3, <1>4, <1>5, <1>9, HitOffers, CacheHitStep DEF HasOffers, OffersOf
  <2>4. stats'.installed # NoFile => stats'.installed \in window'.inventories
    BY <1>3, <1>9, CacheHitStep DEF GatheredInv
  <2>5. QED
    BY <2>1, <2>2, <2>3, <2>4 DEF FiledInv, EntryFiled, GatheredInv
<1>10. CASE ParseLists
  <2>1. pc = "parse" /\ pc' = "metadata"
    BY <1>10 DEF ParseLists, Step
  <2>2. /\ stats'.installed = stats.installed /\ stats'.available = Parsed
        /\ stats'.UpgradeMetricsValid = HasIndexes
        /\ cached' = [available |-> Parsed, valid |-> HasIndexes,
                      packageRevision |-> revision,
                      installedRevision |-> InstalledRevision[stats.installed]]
    BY <1>10, ParseListsStep
  <2>3. PICK skipped \in SUBSET ReleaseFiles :
          Parsed = Select(lists.files \ skipped, stats.installed)
    BY <1>10, ParsedOffers
  <2>4. HasOffers'
    <3>1. <<lists.files, lists.files>> \in followed'
      BY <1>3, <1>10, ParsedOffers
    <3>2. OffersOf(stats', lists.files)
      BY <2>2, <2>3 DEF OffersOf, HasIndexes
    <3>3. QED
      BY <1>4, <3>1, <3>2 DEF HasOffers, OffersOf
  <2>5. EntryFiled'
    <3>1. PICK pair \in followed' : pair = <<revision, lists.files>>
      BY <1>3, <2>1 DEF WindowInv, FiledInv
    <3>2. lists.files \cap (Corrupt \cup Overlong) = {}
      BY <1>10, ParsedOffers
    <3>3. ASSUME cached'.available # Nil PROVE EntryOf(pair)'
      <4>1. /\ cached'.available = Parsed /\ cached'.packageRevision = revision
            /\ cached'.installedRevision = InstalledRevision[stats.installed]
        BY <2>2
      <4>2. /\ Parsed = [content |-> lists.files \ skipped,
                         filter  |-> InstalledRevision[stats.installed]]
            /\ ~(Indexes(lists.files \ skipped) \subseteq Foreign)
        BY <2>3, <3>3, <4>1, SelectFields
      <4>3. pair[1] = revision /\ pair[2] = lists.files
        BY <3>1
      <4>4. QED
        BY <3>2, <4>1, <4>2, <4>3 DEF EntryOf
    <3>4. QED
      BY <3>1, <3>3 DEF EntryFiled
  <2>6. stats'.installed # NoFile => stats'.installed \in window'.inventories
    BY <1>3, <2>2 DEF GatheredInv
  <2>7. QED
    BY <2>1, <2>4, <2>5, <2>6 DEF FiledInv, EntryFiled, GatheredInv
<1>11. QED
  BY <1>6, <1>7, <1>8, <1>9, <1>10 DEF Collect, QuietStep

LEMMA OtherHInv ==
  ASSUME IInv, IInv', HInv, Watch,
         Environment \/ CheckReboot \/ ObserveSuccess \/ ObserveFailure
  PROVE  FiledInv' /\ GatheredInv'
<1> USE DEF IInv, HInv
<1>1. cached' = cached /\ (pc' # "idle" => UNCHANGED <<stats, revision>>)
  BY DEF Environment, ChangeStatus, ChangeLists, ChangeMarker, CheckReboot, ObserveSuccess,
         ObserveFailure, Publish, local
<1>2. followed \subseteq followed'
  BY WatchStep
<1>3. EntryFiled'
  BY <1>1, <1>2, EntryKept DEF FiledInv, EntryFiled
<1>4. CASE pc' = "idle"
  <2>1. stats' = BlankStats
    BY <1>4 DEF LocalInv
  <2>2. QED
    BY <1>3, <1>4, <2>1, BlankFields DEF FiledInv, EntryFiled, GatheredInv, Bare
<1>5. CASE pc' # "idle"
  <2>1. /\ window.inventories \subseteq window'.inventories
        /\ window.listings \subseteq window'.listings
        /\ window.markers \subseteq window'.markers
    BY <1>5, WatchStep
  <2>2. SameData(stats', stats) /\ stats' = stats /\ revision' = revision
    BY <1>1, <1>5 DEF SameData
  <2>3. HasOffers => HasOffers'
    BY <1>2, <2>1, <2>2, OffersKept
  <2>4. HasTimes => HasTimes'
    BY <2>1, <2>2, TimesKept
  <2>5. CASE Environment
    <3>1. pc' = pc /\ errs' = errs /\ rebootRequired' = rebootRequired
      BY <2>5, EnvironmentStep DEF local
    <3>2. HasMarker => HasMarker'
      BY <2>1, <3>1 DEF HasMarker
    <3>3. QED
      BY <1>3, <2>1, <2>2, <2>3, <2>4, <3>1, <3>2 DEF FiledInv, EntryFiled, GatheredInv
  <2>6. CASE CheckReboot
    <3>1. /\ pc = "marker" /\ pc' = "observe" /\ errs \subseteq errs'
          /\ rebootRequired' = (marker = "present") /\ marker' = marker
      BY <2>6 DEF CheckReboot, host
    <3>2. marker \in window'.markers
      BY <1>5, <3>1, WatchStep DEF WindowInv
    <3>3. HasMarker'
      BY <3>1, <3>2 DEF HasMarker
    <3>4. QED
      BY <1>3, <2>1, <2>2, <2>3, <2>4, <3>1, <3>3 DEF FiledInv, EntryFiled, GatheredInv
  <2>7. QED
    BY <1>5, <2>5, <2>6 DEF ObserveSuccess, ObserveFailure, Publish
<1>6. QED
  BY <1>4, <1>5

LEMMA NextHInv == IInv /\ HInv /\ [HNext]_hvars => HInv'
<1> SUFFICES ASSUME IInv, HInv, [HNext]_hvars PROVE HInv'
  OBVIOUS
<1>1. CASE UNCHANGED hvars
  <2>1. /\ UNCHANGED <<status, lists, marker, cached, pc, revision, stats, errs>>
        /\ UNCHANGED <<rebootRequired, window, followed>>
    BY <1>1 DEF hvars, vars, host, local, history
  <2>2. WindowInv'
    BY <2>1 DEF HInv, WindowInv
  <2>3. FiledInv'
    BY <2>1 DEF HInv, FiledInv, EntryOf
  <2>4. GatheredInv'
    BY <2>1 DEF HInv, GatheredInv, HasOffers, OffersOf, HasTimes, HasMarker
  <2>5. QED
    BY <2>2, <2>3, <2>4 DEF HInv
<1>2. CASE HNext
  <2>1. Next /\ Watch
    BY <1>2 DEF HNext
  <2>2. IInv'
    BY <2>1, NextIInv
  <2>3. WindowInv'
    BY <2>1, <2>2, WatchStep DEF HInv, IInv
  <2>4. FiledInv' /\ GatheredInv'
    BY <2>1, <2>2, CollectHInv, OtherHInv DEF Next, Refresh
  <2>5. QED
    BY <2>3, <2>4 DEF HInv
<1>3. QED
  BY <1>1, <1>2

\* The history steps are steps of the refresh.
LEMMA HistoryStep == [HNext]_hvars => [Next]_vars
BY DEF HNext, hvars

\* What a refresh has gathered it has seen, and an entry of the cache was read
\* after its revision within one refresh.
THEOREM HistoryInvariance == HSpec => [](IInv /\ HInv)
<1>1. HInit => IInv /\ HInv
  BY InitIInv, InitHInv DEF HInit
<1>2. IInv /\ HInv /\ [HNext]_hvars => (IInv /\ HInv)'
  BY NextIInv, NextHInv, HistoryStep
<1>3. QED
  BY <1>1, <1>2, PTL DEF HSpec

\* A refresh that succeeds publishes what it has gathered.
LEMMA SuccessIsWhole ==
  ASSUME IInv, HInv, pc = "observe", errs = {}
  PROVE  IsWhole(Collected)
<1>1. Collected.Stats = stats /\ Counted(stats) /\ stats.installed # NoFile
  BY CollectedStep
<1>2. Collected.RebootRequired = rebootRequired
  BY DEF Collected
<1>3. stats.installed \in window.inventories /\ HasOffers /\ HasTimes /\ HasMarker
  BY <1>1 DEF HInv, GatheredInv
<1>4. QED
  BY <1>1, <1>2, <1>3 DEF IsWhole, HasOffers, HasTimes, HasMarker

\* From the first success on, what a refresh publishes is of its own time or all
\* as it was: a fallback joins fields of two collections, data never.
THEOREM Wholeness == HSpec => PublishedIsWhole
<1> DEFINE Kept == hasSuccessful' =>
                     \/ IsWhole(published')
                     \/ hasSuccessful /\ DataOf(published') = DataOf(published)
<1>1. IInv /\ HInv /\ [HNext]_hvars => [Kept]_hvars
  <2> SUFFICES ASSUME IInv, HInv, HNext, hasSuccessful'
               PROVE  \/ IsWhole(published')
                      \/ hasSuccessful /\ DataOf(published') = DataOf(published)
    OBVIOUS
  <2>1. CASE ObserveSuccess
    <3>1. published' = Collected /\ pc = "observe" /\ errs = {}
      BY <2>1 DEF ObserveSuccess, Publish
    <3>2. QED
      BY <3>1, SuccessIsWhole
  <2>2. CASE ObserveFailure
    <3>1. UNCHANGED <<lastSnapshot, hasSuccessful>> /\ pc = "observe"
      BY <2>2 DEF ObserveFailure, observer
    <3>2. published' = Fallback(lastSnapshot, Collected)
      BY <2>2, <3>1 DEF ObserveFailure, Publish
    <3>3. DataOf(published') = DataOf(lastSnapshot)
      BY <3>1, <3>2, CollectedStep, FallbackData DEF IInv, TypeOK
    <3>4. QED
      BY <3>1, <3>3 DEF IInv, ObserverInv
  <2>3. CASE Environment \/ Collect \/ CheckReboot
    <3>1. UNCHANGED <<hasSuccessful, published>>
      BY <2>3, EnvironmentStep, CollectFrame DEF CheckReboot, observer
    <3>2. QED
      BY <3>1
  <2>4. QED
    BY <2>1, <2>2, <2>3 DEF HNext, Next, Refresh
<1>2. QED
  BY HistoryInvariance, <1>1, PTL DEF HSpec, PublishedIsWhole

----------------------------------------------------------------------------
(* The refinement *)

LEMMA SameOf ==
  ASSUME NEW s, NEW t, SameData(s, t)
  PROVE  Of(s) = Of(t)
BY DEF SameData, Counted, Of

LEMMA OfBlank == Of(BlankStats) = Data!Blank
<1>1. ("count" \in BlankStats.StageDurations) = FALSE
  BY DEF BlankStats
<1>2. /\ BlankStats.installed = NoFile /\ BlankStats.available = Nil
      /\ BlankStats.UpgradeMetricsValid = FALSE
  BY DEF BlankStats
<1>3. QED
  BY <1>1, <1>2 DEF Of, Nil, Data!Blank, Data!Nothing

LEMMA InitData == HInit => Data!Init
BY OfBlank DEF HInit, Init, NoWindow, BlankSnapshot, Data!Init

LEMMA SelectIsOffers ==
  \A files, installed : Select(files, installed) = Data!Offers(files, installed)
BY DEF Select, Nil, Indexes, Data!Offers, Data!Nothing

\* A refresh is in progress while it holds a listing.
LEMMA Holding ==
  ASSUME WindowInv
  PROVE  pc = "idle" <=> window.listings = {}
BY DEF WindowInv, NoWindow

\* Dpkg and apt do to the host what they do to the abstract one, or nothing
\* that can be seen there.
LEMMA EnvironmentData ==
  ASSUME IInv, HInv, Environment, Watch
  PROVE  [Data!Next]_(Data!vars)
<1>1. /\ UNCHANGED <<Of(stats), Of(lastSnapshot.Stats), Of(published.Stats)>>
      /\ pc' = pc
  BY EnvironmentStep DEF local, observer
<1>2. window.listings = {} <=> pc = "idle"
  BY Holding DEF HInv
<1>3. ASSUME lists'.files = lists.files
      PROVE  followed' = followed /\ window'.listings = window.listings
  <2>1. followed' = followed /\ (pc' # "idle" => window'.listings = window.listings)
    BY <1>1, <1>3, SameListing DEF HInv
  <2>2. pc' = "idle" => window'.listings = {}
    BY DEF Watch, NoWindow
  <2>3. QED
    BY <1>1, <1>2, <2>1, <2>2
<1>4. CASE lists'.files = lists.files /\ status'.file = status.file
  BY <1>1, <1>3, <1>4 DEF Data!vars
<1>5. CASE lists'.files = lists.files /\ status'.file # status.file
  BY <1>1, <1>3, <1>5 DEF Data!Next, Data!ChangeInventory
<1>6. CASE lists'.files # lists.files
  <2>1. status' = status
    BY <1>6 DEF Environment, ChangeStatus, ChangeLists, ChangeMarker
  <2>2. window'.listings = IF window.listings = {} THEN {}
                           ELSE window.listings \cup {lists'.files}
    BY <1>1, <1>2 DEF Watch, NoWindow
  <2>3. followed' = followed \cup (window'.listings \X {lists'.files})
    BY DEF Watch
  <2>4. Data!ChangeListing
    BY <1>1, <1>6, <2>1, <2>2, <2>3 DEF Data!ChangeListing, Data!Meet
  <2>5. QED
    BY <2>4 DEF Data!Next
<1>7. QED
  BY <1>4, <1>5, <1>6

\* A collection reads the inventory, or offers the abstract refresh may read, or
\* fails, or does what cannot be seen.
LEMMA CollectData ==
  ASSUME IInv, HInv, Collect, Watch
  PROVE  [Data!Next]_(Data!vars)
<1> USE DEF IInv, HInv
<1>1. UNCHANGED <<status, lists, lastSnapshot, hasSuccessful, published>>
  BY CollectFrame DEF host
<1>2. CASE BeginCollect
  <2>1. pc = "idle" /\ pc' = "status" /\ stats' = stats
    BY <1>2 DEF BeginCollect, Step
  <2>2. window.listings = {}
    BY <2>1, Holding
  <2>3. window'.listings = {lists'.files}
    BY <2>1, <2>2 DEF Watch
  <2>4. followed' = followed \cup (window'.listings \X {lists'.files})
    BY DEF Watch
  <2>5. Data!Begin
    BY <1>1, <2>1, <2>2, <2>3, <2>4 DEF Data!Begin, Data!Meet
  <2>6. QED
    BY <2>5 DEF Data!Next
<1>3. ASSUME ~BeginCollect
      PROVE  /\ followed' = followed /\ window'.listings = window.listings
             /\ window.listings # {}
  <2>1. pc # "idle" /\ pc' # "idle"
    BY <1>3 DEF Collect, Step, ReadStatusFails, ParseStatusFails,
         ReadStatus, StatListsFails, CacheHit, CacheMiss, ReadListsFails, ParseListsFails,
         ParseLists, UnfilteredFails, ReadUnfiltered, MetadataFails, ReadMetadata
  <2>2. QED
    BY <1>1, <2>1, SameListing, Holding
<1>4. CASE QuietStep /\ ~BeginCollect
  <2>1. Of(stats') = Of(stats)
    BY <1>4, QuietSteps, SameOf
  <2>2. QED
    BY <1>1, <1>3, <1>4, <2>1 DEF Data!vars
<1>5. CASE ReadStatus /\ ~BeginCollect
  <2>1. pc = "status"
    BY <1>5 DEF ReadStatus, Step
  <2>2. stats = BlankStats
    BY <2>1 DEF LocalInv
  <2>3. Of(stats).installed = NoFile
    BY <2>2, BlankFields DEF Of
  <2>4. Of(stats)' = [Of(stats) EXCEPT !.installed = status.file]
    BY <1>5, ReadStatusStep DEF Of, Counted
  <2>5. Data!ReadInventory
    BY <1>1, <1>3, <1>5, <2>3, <2>4 DEF Data!ReadInventory
  <2>6. QED
    BY <2>5 DEF Data!Next
<1>6. ASSUME pc \in {"available", "parse"}, ~BeginCollect,
             stats'.installed = stats.installed, Counted(stats'),
             NEW pair \in followed, pair[1] = lists.files,
             pair[2] \cap (Corrupt \cup Overlong) = {},
             stats'.UpgradeMetricsValid = (Indexes(pair[2]) # {}),
             NEW skipped \in SUBSET ReleaseFiles,
             stats'.available = Select(pair[2] \ skipped, stats.installed)
      PROVE  [Data!Next]_(Data!vars)
  <2>1. stats.installed # NoFile /\ ~Counted(stats)
    BY <1>6 DEF LocalInv, Bare
  <2>2. Of(stats).installed # NoFile /\ ~Of(stats).complete
    BY <2>1 DEF Of, Counted
  <2>3. Of(stats)' = [installed |-> Of(stats).installed,
                      available |-> Data!Offers(pair[2] \ skipped, Of(stats).installed),
                      valid     |-> pair[2] \cap IndexFiles # {},
                      complete  |-> TRUE]
    BY <1>6, SelectIsOffers DEF Of, Counted, Indexes
  <2>4. Data!ReadOffers
    BY <1>1, <1>3, <1>6, <2>2, <2>3 DEF Data!ReadOffers
  <2>5. QED
    BY <2>4 DEF Data!Next
<1>7. CASE CacheHit /\ ~BeginCollect
  <2>1. pc = "available"
    BY <1>7 DEF CacheHit, Step
  <2>2. EntryFiled
    BY DEF FiledInv, EntryFiled
  <2>3. PICK pair \in followed :
          /\ pair[1] = lists.files
          /\ pair[2] \cap (Corrupt \cup Overlong) = {}
          /\ cached.valid = (Indexes(pair[2]) # {})
          /\ \E skipped \in SUBSET ReleaseFiles :
               cached.available = Select(pair[2] \ skipped, stats.installed)
    BY <1>7, <2>2, HitOffers
  <2>4. QED
    BY <1>6, <1>7, <2>1, <2>3, CacheHitStep
<1>8. CASE ParseLists /\ ~BeginCollect
  <2>1. pc = "parse"
    BY <1>8 DEF ParseLists, Step
  <2>2. PICK pair \in followed : pair = <<lists.files, lists.files>>
    BY <1>8, ParsedOffers
  <2>3. pair[1] = lists.files /\ pair[2] = lists.files
    BY <2>2
  <2>4. PICK skipped \in SUBSET ReleaseFiles :
          Parsed = Select(pair[2] \ skipped, stats.installed)
    BY <1>8, <2>3, ParsedOffers
  <2>5. pair[2] \cap (Corrupt \cup Overlong) = {}
    BY <1>8, <2>3, ParsedOffers
  <2>6. /\ stats'.installed = stats.installed /\ stats'.available = Parsed
        /\ stats'.UpgradeMetricsValid = (Indexes(pair[2]) # {}) /\ Counted(stats')
    BY <1>8, <2>3, ParseListsStep DEF HasIndexes
  <2>7. QED
    BY <1>6, <1>8, <2>1, <2>3, <2>4, <2>5, <2>6
<1>9. QED
  BY <1>2, <1>4, <1>5, <1>7, <1>8 DEF Collect, QuietStep

\* A refresh ends as the abstract one succeeds or fails.
LEMMA ObserveData ==
  ASSUME IInv, HInv, CheckReboot \/ ObserveSuccess \/ ObserveFailure, Watch
  PROVE  [Data!Next]_(Data!vars)
<1> USE DEF IInv, HInv
<1>1. pc # "idle" /\ lists' = lists /\ status' = status
  BY DEF CheckReboot, ObserveSuccess, ObserveFailure, Publish, host
<1>2. /\ followed' = followed /\ window.listings # {}
      /\ pc' # "idle" => window'.listings = window.listings
  BY <1>1, SameListing, Holding
<1>3. CASE CheckReboot
  BY <1>1, <1>2, <1>3 DEF CheckReboot, observer, Data!vars
<1>4. ASSUME NEW snapshot, Publish(snapshot)
      PROVE  /\ published' = snapshot /\ Of(stats)' = Data!Blank
             /\ window'.listings = {}
  BY <1>4, OfBlank DEF Publish, Watch, NoWindow
<1>5. CASE ObserveSuccess
  <2>1. Collected.Stats = stats /\ Counted(stats)
    BY <1>5, CollectedStep DEF ObserveSuccess
  <2>2. lastSnapshot' = Collected /\ Publish(Collected)
    BY <1>5 DEF ObserveSuccess
  <2>3. Data!Succeed
    BY <1>1, <1>2, <1>4, <2>1, <2>2 DEF Data!Succeed, Data!End, Of, Counted
  <2>4. QED
    BY <2>3 DEF Data!Next
<1>6. CASE ObserveFailure
  <2>1. Collected \in Snapshot /\ Collected.Stats = stats
    BY <1>6, CollectedStep DEF ObserveFailure
  <2>2. UNCHANGED <<lastSnapshot, hasSuccessful>> /\ lastSnapshot \in Snapshot
    BY <1>6 DEF ObserveFailure, observer, TypeOK
  <2>3. Of(lastSnapshot.Stats).complete = hasSuccessful
    BY BlankFields DEF ObserverInv, Bare, Counted, Of, BlankSnapshot, TypeOK
  <2>4. Of(published.Stats)' = IF Of(lastSnapshot.Stats).complete
                               THEN Of(lastSnapshot.Stats) ELSE Of(stats)
    <3>1. CASE hasSuccessful
      <4>1. published' = Fallback(lastSnapshot, Collected)
        BY <1>6, <3>1 DEF ObserveFailure, Publish
      <4>2. QED
        BY <2>1, <2>2, <2>3, <3>1, <4>1, FallbackData, SameOf
    <3>2. CASE ~hasSuccessful
      <4>1. published' = Collected
        BY <1>6, <3>2 DEF ObserveFailure, Publish
      <4>2. QED
        BY <2>1, <2>3, <3>2, <4>1
    <3>3. QED
      BY <3>1, <3>2
  <2>5. Data!Fail
    BY <1>1, <1>2, <1>4, <1>6, <2>2, <2>4 DEF ObserveFailure, Data!Fail, Data!End
  <2>6. QED
    BY <2>5 DEF Data!Next
<1>7. QED
  BY <1>3, <1>5, <1>6

\* The refresh implements PackageData: what it collects, keeps and publishes is
\* what the lists as they are offer, or lists that came after them within one
\* refresh, whatever the sources do between any two reads.
THEOREM Refinement == HSpec => ShowsPackageData
<1>1. IInv /\ HInv /\ [HNext]_hvars => [Data!Next]_(Data!vars)
  <2> SUFFICES ASSUME IInv, HInv, [HNext]_hvars PROVE [Data!Next]_(Data!vars)
    OBVIOUS
  <2>1. CASE UNCHANGED hvars
    BY <2>1 DEF hvars, vars, host, local, observer, history, Data!vars
  <2>2. QED
    BY <2>1, EnvironmentData, CollectData, ObserveData DEF HNext, Next, Refresh
<1>2. QED
  BY InitData, HistoryInvariance, <1>1, PTL DEF HSpec, ShowsPackageData, Data!Spec

----------------------------------------------------------------------------
(* The counters *)

\* With more than two values, a counter that moved once or twice shows it.
LEMMA SuccMoves ==
  ASSUME CounterMod > 2, NEW n \in 0 .. CounterMod - 1
  PROVE  Succ(n) # n /\ Succ(Succ(n)) # n
<1>1. Succ(n) = IF n + 1 < CounterMod THEN n + 1 ELSE 0
  BY SuccType
<1>2. Succ(Succ(n)) = IF Succ(n) + 1 < CounterMod THEN Succ(n) + 1 ELSE 0
  BY SuccType
<1>3. CASE n + 1 < CounterMod
  BY <1>1, <1>2, <1>3, BoundAssumption
<1>4. CASE ~(n + 1 < CounterMod)
  BY <1>1, <1>2, <1>4, BoundAssumption
<1>5. QED
  BY <1>3, <1>4

LEMMA TotalsType ==
  ASSUME TypeOK
  PROVE  Totals \in [Counters -> 0 .. CounterMod - 1]
BY DEF TypeOK, Snapshot, Stats, Totals

LEMMA InitCount == Init => CountInv
BY DEF Init, CountInv, Still, Totals, BlankSnapshot, BlankStats

\* A collection that has met its first error has moved one error counter once;
\* the stat of the source files may move it a second time.
LEMMA CollectCount ==
  ASSUME IInv, CountInv, CounterMod > 2, Collect
  PROVE  CountInv'
<1> USE DEF IInv
<1>1. Totals' = Totals
  BY DEF Totals, Collect, Step, BeginCollect, ReadStatusFails, ParseStatusFails,
         ReadStatus, StatListsFails, CacheHit, CacheMiss, ReadListsFails, ParseListsFails,
         ParseLists, UnfilteredFails, ReadUnfiltered, MetadataFails, ReadMetadata
<1>2. \A k \in Counters : Succ(Totals[k]) # Totals[k] /\ Succ(Succ(Totals[k])) # Totals[k]
  BY TotalsType, SuccMoves
<1>3. ErrorCounters \subseteq Counters
  BY DEF Counters
<1>4. ASSUME NEW k \in ErrorCounters, Bump(k), Still
      PROVE  \E l \in ErrorCounters : count'[l] = Succ(Totals'[l])
  BY <1>1, <1>3, <1>4, BumpStep DEF Still
<1>5. CASE BeginCollect \/ ReadStatus
  <2>1. Still /\ pc' \in {"status", "available"} /\ count' = count
    BY <1>5 DEF BeginCollect, ReadStatus, Step, CountInv
  <2>2. QED
    BY <1>1, <2>1 DEF CountInv, Still
<1>6. CASE ReadStatusFails \/ ParseStatusFails
  <2>1. Still /\ pc' = "unfiltered"
    BY <1>6 DEF ReadStatusFails, ParseStatusFails, Step, CountInv
  <2>2. PICK k \in {"statusReadErrors", "statusParseErrors"} : Bump(k)
    BY <1>6 DEF ReadStatusFails, ParseStatusFails, Fault
  <2>3. k \in ErrorCounters
    BY DEF ErrorCounters
  <2>4. count'[k] = Succ(Totals'[k])
    BY <1>1, <1>3, <2>1, <2>2, <2>3, BumpStep DEF Still
  <2>5. QED
    BY <2>1, <2>4 DEF CountInv
<1>7. CASE StatListsFails \/ ReadListsFails \/ ParseListsFails
  <2>1. Still /\ pc' = "metadata" /\ errs' # {}
    BY <1>7 DEF StatListsFails, ReadListsFails, ParseListsFails, Fault, Step, CountInv
  <2>2. PICK k \in {"aptListsReadErrors", "aptListsParseErrors"} : Bump(k)
    BY <1>7 DEF StatListsFails, ReadListsFails, ParseListsFails, Fault
  <2>3. k \in ErrorCounters
    BY DEF ErrorCounters
  <2>4. \E l \in ErrorCounters : count'[l] = Succ(Totals'[l])
    BY <1>4, <2>1, <2>2, <2>3
  <2>5. QED
    BY <2>1, <2>4 DEF CountInv
<1>8. CASE CacheHit \/ CacheMiss
  <2>1. /\ pc = "available" /\ pc' \in {"metadata", "parse"} /\ errs' = errs
    BY <1>8 DEF CacheHit, CacheMiss, Step
  <2>2. Still /\ errs' = {}
    BY <2>1 DEF CountInv, LocalInv
  <2>3. PICK k \in {"cacheHits", "cacheMisses"} : Bump(k)
    BY <1>8 DEF CacheHit, CacheMiss
  <2>4. k \in Counters /\ k \notin ErrorCounters
    BY DEF Counters, ErrorCounters
  <2>5. \A l \in ErrorCounters : count'[l] = count[l]
    BY <1>3, <2>3, <2>4, BumpStep
  <2>6. Still'
    BY <1>1, <2>2, <2>5 DEF Still
  <2>7. QED
    BY <2>1, <2>2, <2>6 DEF CountInv
<1>9. CASE ParseLists
  <2>1. pc = "parse" /\ pc' = "metadata" /\ errs' = errs /\ count' = count
    BY <1>9 DEF ParseLists, Step
  <2>2. Still /\ errs' = {}
    BY <2>1 DEF CountInv, LocalInv
  <2>3. QED
    BY <1>1, <2>1, <2>2 DEF CountInv, Still
<1>10. CASE UnfilteredFails \/ ReadUnfiltered
  <2>1. pc = "unfiltered" /\ pc' = "metadata" /\ errs \subseteq errs'
    BY <1>10 DEF UnfilteredFails, ReadUnfiltered, Step, Fault
  <2>2. errs' # {}
    BY <2>1 DEF LocalInv
  <2>3. PICK k \in {"statusReadErrors", "statusParseErrors"} :
          count[k] = Succ(Totals[k])
    BY <2>1 DEF CountInv
  <2>4. count'[k] = count[k]
    <3>1. CASE UnfilteredFails
      BY <3>1, BumpStep DEF UnfilteredFails, Fault, Counters, ErrorCounters
    <3>2. CASE ReadUnfiltered
      BY <3>2 DEF ReadUnfiltered
    <3>3. QED
      BY <1>10, <3>1, <3>2
  <2>5. k \in ErrorCounters /\ count'[k] = Succ(Totals'[k])
    BY <1>1, <2>3, <2>4 DEF ErrorCounters
  <2>6. QED
    BY <2>1, <2>2, <2>5 DEF CountInv
<1>11. CASE MetadataFails
  <2> DEFINE k == "aptListsReadErrors"
  <2>1. /\ pc = "metadata" /\ pc' = "marker" /\ Bump(k)
        /\ errs' \ {"reboot marker"} # {}
    <3>1. pc = "metadata" /\ pc' = "marker" /\ Bump(k) /\ "source metadata" \in errs'
      BY <1>11 DEF MetadataFails, Step, Fault
    <3>2. "source metadata" \in errs' \ {"reboot marker"}
      BY <3>1
    <3>3. QED
      BY <3>1, <3>2
  <2>2. stats'.totals = count'
    BY <1>11 DEF MetadataFails, Fault, TypeOK, Stats
  <2>3. /\ k \in ErrorCounters /\ count'[k] = Succ(count[k])
        /\ \A l \in ErrorCounters \ {k} : count'[l] = count[l]
    BY <1>3, <2>1, BumpStep DEF ErrorCounters
  <2>4. Moved'
    <3>1. CASE errs = {}
      <4>1. count'[k] # Totals'[k]
        BY <1>1, <1>2, <1>3, <2>1, <2>3, <3>1 DEF CountInv, Still
      <4>2. QED
        BY <2>3, <4>1 DEF Moved
    <3>2. CASE errs # {}
      <4>1. PICK l \in ErrorCounters : count[l] = Succ(Totals[l])
        BY <2>1, <3>2 DEF CountInv
      <4>2. count'[l] # Totals'[l]
        BY <1>1, <1>2, <1>3, <2>3, <4>1
      <4>3. QED
        BY <4>2 DEF Moved
    <3>3. QED
      BY <3>1, <3>2
  <2>5. QED
    BY <2>1, <2>2, <2>4 DEF CountInv
<1>12. CASE ReadMetadata
  <2>1. /\ pc = "metadata" /\ pc' = "marker" /\ count' = count /\ errs' = errs
    BY <1>12 DEF ReadMetadata, Step
  <2>2. stats'.totals = count'
    BY <1>12, <2>1 DEF ReadMetadata, TypeOK, Stats
  <2>3. errs' \ {"reboot marker"} = errs
    BY <2>1 DEF LocalInv
  <2>4. IF errs = {} THEN Still' ELSE Moved'
    <3>1. CASE errs = {}
      BY <1>1, <2>1, <3>1 DEF CountInv, Still
    <3>2. CASE errs # {}
      BY <1>1, <1>2, <1>3, <2>1, <3>2 DEF CountInv, Moved
    <3>3. QED
      BY <3>1, <3>2
  <2>5. QED
    BY <2>1, <2>2, <2>3, <2>4 DEF CountInv
<1>13. QED
  BY <1>5, <1>6, <1>7, <1>8, <1>9, <1>10, <1>11, <1>12 DEF Collect

\* What a refresh publishes: its own errors and error counters; the cache
\* counters are its own or those of the last success.
LEMMA PublishedTotals ==
  ASSUME IInv, ObserveSuccess \/ ObserveFailure
  PROVE  /\ pc = "observe" /\ pc' = "idle" /\ count' = count
         /\ published'.Err = errs
         /\ \A k \in ErrorCounters : Totals'[k] = stats.totals[k]
         /\ IF hasSuccessful /\ errs # {}
            THEN \A k \in Counters \ ErrorCounters :
                   Totals'[k] = lastSnapshot.Stats.totals[k]
            ELSE Totals' = stats.totals
         /\ IF errs = {} THEN lastSnapshot'.Stats.totals = stats.totals
                         ELSE UNCHANGED <<lastSnapshot, hasSuccessful>>
<1> USE DEF IInv
<1>1. ASSUME NEW snapshot, Publish(snapshot)
      PROVE  pc' = "idle" /\ count' = count /\ published' = snapshot
  BY <1>1 DEF Publish
<1>2. ErrorCounters \subseteq Counters
  BY DEF Counters
<1>3. pc = "observe"
  BY DEF ObserveSuccess, ObserveFailure
<1>4. Collected \in Snapshot /\ Collected.Err = errs /\ Collected.Stats = stats
  BY <1>3, CollectedStep
<1>5. CASE ObserveSuccess
  BY <1>1, <1>3, <1>4, <1>5 DEF ObserveSuccess, Totals
<1>6. CASE ObserveFailure /\ ~hasSuccessful
  BY <1>1, <1>3, <1>4, <1>6 DEF ObserveFailure, Totals, observer
<1>7. CASE ObserveFailure /\ hasSuccessful
  <2>1. /\ published' = Fallback(lastSnapshot, Collected) /\ pc' = "idle"
        /\ count' = count /\ errs # {} /\ UNCHANGED <<lastSnapshot, hasSuccessful>>
    BY <1>1, <1>7 DEF ObserveFailure, observer
  <2>2. lastSnapshot \in Snapshot
    BY DEF TypeOK
  <2>3. /\ published'.Err = errs
        /\ \A k \in Counters :
             Totals'[k] = IF k \in ErrorCounters THEN stats.totals[k]
                                                 ELSE lastSnapshot.Stats.totals[k]
    BY <1>4, <2>1, <2>2, FallbackFields DEF Totals
  <2>4. QED
    BY <1>2, <1>3, <1>7, <2>1, <2>3
<1>8. QED
  BY <1>5, <1>6, <1>7

LEMMA NextCount ==
  ASSUME IInv, CountInv, CounterMod > 2, [Next]_vars
  PROVE  CountInv'
<1>1. CASE UNCHANGED <<count, pc, errs, stats, published>>
  BY <1>1 DEF CountInv, Still, Moved, Totals
<1>2. CASE Environment \/ UNCHANGED vars
  BY <1>1, <1>2 DEF Environment, ChangeStatus, ChangeLists, ChangeMarker, vars, local
<1>3. CASE CheckReboot
  <2>1. /\ pc = "marker" /\ pc' = "observe"
        /\ errs' \ {"reboot marker"} = errs \ {"reboot marker"}
        /\ UNCHANGED <<count, stats, published>>
    BY <1>3 DEF CheckReboot
  <2>2. QED
    BY <2>1 DEF CountInv, Still, Moved, Totals
<1>4. CASE ObserveSuccess \/ ObserveFailure
  <2>1. /\ pc = "observe" /\ pc' = "idle" /\ count' = count
        /\ \A k \in ErrorCounters : Totals'[k] = stats.totals[k]
    BY <1>4, PublishedTotals
  <2>2. stats.totals = count
    BY <2>1 DEF CountInv
  <2>3. QED
    BY <2>1, <2>2 DEF CountInv, Still
<1>5. QED
  BY <1>2, <1>3, <1>4, CollectCount DEF Next, Refresh

\* A refresh fails for another reason than an unreadable marker if and only if
\* the published error counters move.  Two errors of one refresh may move the
\* same counter twice: with three values or more it does not come full circle.
THEOREM FailuresCounted ==
  ASSUME CounterMod > 2
  PROVE  Spec => FailuresAreCounted
<1> DEFINE Exact == pc = "observe" /\ pc' = "idle" =>
                      (published'.Err \ {"reboot marker"} # {}
                         <=> \E k \in ErrorCounters : Totals'[k] # Totals[k])
<1>1. IInv /\ CountInv /\ [Next]_vars => [Exact]_vars
  <2> SUFFICES ASSUME IInv, CountInv, [Next]_vars, ~UNCHANGED vars,
                      pc = "observe", pc' = "idle"
               PROVE  published'.Err \ {"reboot marker"} # {}
                        <=> \E k \in ErrorCounters : Totals'[k] # Totals[k]
    OBVIOUS
  <2>1. ObserveSuccess \/ ObserveFailure
    BY DEF Next, Environment, Refresh, ChangeStatus, ChangeLists, ChangeMarker, CheckReboot,
           Collect, Step, BeginCollect, ReadStatusFails, ParseStatusFails,
           ReadStatus, StatListsFails, CacheHit, CacheMiss, ReadListsFails, ParseListsFails,
           ParseLists, UnfilteredFails, ReadUnfiltered, MetadataFails, ReadMetadata
  <2>2. /\ published'.Err = errs
        /\ \A k \in ErrorCounters : Totals'[k] = stats.totals[k]
    BY <2>1, PublishedTotals
  <2>3. stats.totals = count /\ IF errs \ {"reboot marker"} = {} THEN Still ELSE Moved
    BY DEF CountInv
  <2>4. QED
    BY <2>2, <2>3 DEF Still, Moved
<1>2. IInv /\ CountInv /\ [Next]_vars => CountInv'
  BY NextCount
<1>3. QED
  BY InitCount, Invariance, <1>1, <1>2, PTL DEF Spec, FailuresAreCounted

LEMMA InitRising == Init => RisingInv
<1>1. ASSUME Init, NEW k \in Counters PROVE Totals[k] = 0 /\ count[k] = 0
  BY <1>1 DEF Init, Totals, BlankSnapshot, BlankStats, NoTotals
<1>2. Init => pc = "idle" /\ hasSuccessful = FALSE
  BY DEF Init
<1>3. 0 <= 0
  OBVIOUS
<1>4. QED
  BY <1>1, <1>2, <1>3 DEF RisingInv

\* Before it wraps, a counter only rises.
LEMMA CollectRises ==
  ASSUME IInv, NoWrap, Collect
  PROVE  \A k \in Counters : count[k] <= count'[k]
<1> USE DEF IInv
<1>1. \A k \in Counters : count[k] \in 0 .. CounterMod - 1
  BY DEF TypeOK
<1>2. ASSUME NEW k \in Counters, Bump(k)
      PROVE  \A l \in Counters : count[l] <= count'[l]
  <2>1. count'[k] = count[k] + 1
    BY <1>1, <1>2, BumpStep, SuccType DEF NoWrap
  <2>2. \A l \in Counters \ {k} : count'[l] = count[l]
    BY <1>2, BumpStep
  <2>3. QED
    BY <1>1, <2>1, <2>2, BoundAssumption
<1>3. CASE count' = count
  BY <1>1, <1>3, BoundAssumption
<1>4. count' = count \/ \E k \in Counters : Bump(k)
  BY DEF Collect, BeginCollect, ReadStatusFails, ParseStatusFails, Fault,
         ReadStatus, StatListsFails, CacheHit, CacheMiss, ReadListsFails, ParseListsFails,
         ParseLists, UnfilteredFails, ReadUnfiltered, MetadataFails, ReadMetadata,
         Counters, ErrorCounters
<1>5. QED
  BY <1>2, <1>3, <1>4

LEMMA NextRising ==
  ASSUME IInv, RisingInv, NoWrap, [Next]_vars
  PROVE  RisingInv'
<1> USE DEF IInv
<1>1. CASE UNCHANGED <<count, pc, stats, lastSnapshot, hasSuccessful, published>>
  BY <1>1 DEF RisingInv, Totals
<1>2. CASE Environment \/ UNCHANGED vars
  BY <1>1, <1>2 DEF Environment, ChangeStatus, ChangeLists, ChangeMarker, vars, local,
                    observer
<1>3. CASE Collect
  <2>1. UNCHANGED <<lastSnapshot, hasSuccessful, published>> /\ Totals' = Totals
    BY <1>3 DEF Totals, Collect, Step, observer, BeginCollect, ReadStatusFails,
                ParseStatusFails, ReadStatus, StatListsFails, CacheHit, CacheMiss,
                ReadListsFails, ParseListsFails, ParseLists, UnfilteredFails,
                ReadUnfiltered, MetadataFails, ReadMetadata
  <2>2. TypeOK'
    BY <1>3, CollectTypeOK
  <2>3. \A k \in Counters : /\ Totals[k] \in Nat /\ count[k] \in Nat /\ count'[k] \in Nat
                            /\ Totals[k] <= count[k] /\ count[k] <= count'[k]
    BY <1>3, <2>2, TotalsType, CollectRises, BoundAssumption DEF TypeOK, RisingInv
  <2>4. \A k \in Counters : Totals'[k] <= count'[k] /\ count'[k] <= count'[k]
    BY <2>1, <2>3
  <2>5. pc' \in {"marker", "observe"} => stats'.totals = count'
    BY <1>3 DEF Collect, Step, BeginCollect, ReadStatusFails, ParseStatusFails, Fault,
                ReadStatus, StatListsFails, CacheHit, CacheMiss, ReadListsFails,
                ParseListsFails, ParseLists, UnfilteredFails, ReadUnfiltered,
                MetadataFails, ReadMetadata, TypeOK, Stats
  <2>6. QED
    BY <2>1, <2>4, <2>5 DEF RisingInv
<1>4. CASE CheckReboot
  <2>1. pc = "marker" /\ UNCHANGED <<count, stats, lastSnapshot, hasSuccessful, published>>
    BY <1>4 DEF CheckReboot, observer
  <2>2. QED
    BY <2>1 DEF RisingInv, Totals
<1>5. CASE ObserveSuccess \/ ObserveFailure
  <2>1. /\ pc = "observe" /\ pc' = "idle" /\ count' = count
        /\ \A k \in ErrorCounters : Totals'[k] = stats.totals[k]
    BY <1>5, PublishedTotals
  <2>2. \A k \in Counters \ ErrorCounters :
          \/ Totals'[k] = stats.totals[k]
          \/ hasSuccessful /\ Totals'[k] = lastSnapshot.Stats.totals[k]
    BY <1>5, PublishedTotals
  <2>3. \A k \in Counters : Totals'[k] <= count'[k]
    BY <2>1, <2>2 DEF RisingInv
  <2>4. hasSuccessful' =>
          \A k \in Counters \ ErrorCounters : lastSnapshot'.Stats.totals[k] = Totals'[k]
    BY <1>5, PublishedTotals
  <2>5. QED
    BY <2>1, <2>3, <2>4 DEF RisingInv
<1>6. QED
  BY <1>2, <1>3, <1>4, <1>5 DEF Next, Refresh

\* As long as no counter wraps, at 2^64, no published counter falls, though a
\* fallback publishes the cache counters of the last success beside the error
\* counters of the failure.
THEOREM TotalsRise == Spec /\ []NoWrap => TotalsNeverFall
<1>1. Init => RisingInv
  BY InitRising
<1>2. IInv /\ RisingInv /\ NoWrap /\ [Next]_vars => RisingInv'
  BY NextRising
<1>3. IInv /\ RisingInv /\ [Next]_vars => [\A k \in Counters : Totals'[k] >= Totals[k]]_vars
  <2> SUFFICES ASSUME IInv, RisingInv, [Next]_vars, NEW k \in Counters, ~UNCHANGED vars
               PROVE  Totals'[k] >= Totals[k]
    OBVIOUS
  <2>1. Totals[k] \in Nat
    BY TotalsType, BoundAssumption DEF IInv
  <2>2. CASE ObserveSuccess \/ ObserveFailure
    <3>1. pc = "observe"
      BY <2>2, PublishedTotals
    <3>2. stats.totals[k] \in Nat /\ Totals[k] <= stats.totals[k]
      BY <3>1, BoundAssumption DEF RisingInv, IInv, TypeOK, Stats
    <3>3. Totals'[k] = stats.totals[k] \/ Totals'[k] = Totals[k]
      BY <2>2, PublishedTotals DEF RisingInv
    <3>4. QED
      BY <2>1, <3>2, <3>3
  <2>3. CASE published' = published
    BY <2>1, <2>3 DEF Totals
  <2>4. QED
    BY <2>2, <2>3
       DEF Next, Environment, Refresh, ChangeStatus, ChangeLists, ChangeMarker, CheckReboot,
           Collect, Step, BeginCollect, ReadStatusFails, ParseStatusFails,
           ReadStatus, StatListsFails, CacheHit, CacheMiss, ReadListsFails, ParseListsFails,
           ParseLists, UnfilteredFails, ReadUnfiltered, MetadataFails, ReadMetadata
<1>4. QED
  BY Invariance, <1>1, <1>2, <1>3, PTL DEF Spec, TotalsNeverFall
=============================================================================
