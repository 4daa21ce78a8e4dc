# TLA+ specifications of prometheus-pkg-exporter

The exporter reports, for Prometheus, which Debian packages of a host are
installed, upgradable, pinned or broken, whether a reboot is required, and how
healthy its own sources are. It reads files that dpkg and `apt-get update`
rewrite at any moment, keeps a cache between refreshes and a last success
between failures, and serves scrapes while it refreshes. These modules say what
should hold of that in every interleaving; TLC checks them on small instances,
and TLAPS proves all but one of the safety properties for any instance.

## The system

| Component (source) | State | Operations | What makes it correct |
|---|---|---|---|
| apt source, `internal/apt/source.go` | none; reads the host | `StatusDatabase`, `PackageIndexRevision`, `PackageIndexStreams`, `PackageIndexes`, `SourceMetadata` | each call may fail at each file; the revision tells contents apart; a release applies to the indexes of its longest prefix |
| parser and policy, `internal/apt/parser.go` | none | parse the status and the indexes, select by installed packages, count upgrades, compare versions | stream and byte parser agree; the counts do not depend on the order of indexes; versions compare as a total preorder |
| collector, `internal/apt/service.go` | one-entry cache, six counters, a mutex | `Collect` | fresh results, cached or not; every failure counted once; counters monotone |
| checker, `internal/pkgcheck` | `lastSnapshot`, `hasSuccessful` | `Snapshot`, `RebootRequired` | a fallback shows the data of one earlier success with the outcome of the failure |
| feature metrics, `internal/pkg/feature_metrics_ext.go` | histograms, last observed and last logged attempt | `CollectFeatureMetrics`, `LogFeatureSnapshotError` | histograms consistent; each refresh observed once; failures logged |
| feature config, `internal/pkg/feature_config_ext.go` | none | `ResolveFeatureConfig`, `FeatureRuntimeConfigEntries` | the path reported is the path opened |
| scaffold, descriptors, smoke, examples | none | wiring and data | not modelled |
| exporter framework (a dependency) | latest snapshot | background worker, scrapes | external |

How they interact: a background worker of the framework calls
`checker.Snapshot` once per refresh interval. That calls `Collector.Collect`,
which calls the source several times, and `RebootRequired`; the observer
replaces a failure by the last success. The framework keeps the result; scrapes,
each in an HTTP goroutine of its own, hand it to `CollectFeatureMetrics` and
`LogFeatureSnapshotError`.

What is hard:

- The files are read in several passes (stat, list, open, stat again) and
  nothing holds them still.
- The cache is looked up and filled in two critical sections; between them lies
  all the reading, and the key is computed before any of it. The key is the set of
  name, size and modification time of the files, and returns when these do.
- A read can fail at every pass. Some failures end the call, a release file's is
  swallowed, one of the status database ends up on the lists' counter.
- The fallback joins fields of two collections.
- Scrapes overlap with each other and with refreshes; observation, copy and log
  are critical sections of their own.

`PROJECT.json` lists each hazard at its line, with the properties that cover it.

## Modules

| Module | What it is |
|---|---|
| `PackageIndexCache` | `Collector.availablePackages` at the grain of single file reads, with several collectors and a host at work |
| `PackageIndexCacheProof` | its type correctness, inductive invariant and theorems |
| `PackageData` | what the exporter promises to show of a host, whatever it keeps between refreshes |
| `PackageRefresh` | `Collect`, the reboot marker and `ObservedSnapshotter`: refresh after refresh at the grain of one source read |
| `RefreshHistory` | `PackageRefresh` with a history of the host, for the properties that relate what is published to it; implements `PackageData` |
| `PackageRefreshProof` | the inductive invariants and theorems of the last two, and the step simulation of `PackageData` |
| `UpgradePolicy` | which update of a package is selected and what it counts as: `bestPolicyCandidate` and the loops around it |
| `UpgradePolicyProof` | its loop invariant and theorems |
| `FeatureMetrics` | scrapes against published snapshots |
| `FeatureMetricsProof` | its invariants and theorems |
| `VersionOrder` | `CompareVersions` on sequences of code points, and the order of the Debian policy |
| `IndexParser` | both parsers of an index, the parser of the status database, filter, revision and status counts, and a reading by paragraphs |
| `ReleaseMetadata` | the priority and the backports mark an index has from release files, and apt's rule |
| `ConfigResolution` | settings from flags, config file and defaults |
| `PureFunctions` | calls of the functions of the last four modules, with the properties of what they return |
| `Induction` | induction and the existence of recursively defined functions, in a form the provers can use |
| `VersionOrderProof` | versions are totally preordered, as the Debian policy orders them |
| `IndexParserProof` | the parsers return what the paragraphs say |
| `PureFunctionsProof` | the theorems about the properties of `PureFunctions` |
| `MCPackageIndexCache`, `MCPackageRefresh`, `MCRefreshHistory`, `MCUpgradePolicy`, `MCFeatureMetrics`, `MCPureFunctions` | the instances TLC checks |

### PackageIndexCache

A file's content is its *generation*, a number that grows with every write; it
stands for the size and modification time the code compares. `present` is the
directory. The cache variables are the Collector's fields. Each collector has a
`pc`:

| pc | code | actions |
|---|---|---|
| idle, done, failed | outside the call | `BeginCollect` |
| stat | `PackageIndexRevision`, then the lookup under the lock | `StatFile`, `StatFails`, `DirectoryFails`, `CacheHit`, `CacheMiss` |
| list | `os.ReadDir` of `PackageIndexStreams` | `ListStreams`, `DirectoryFails` |
| read | `readReleaseMetadata`, then each `Open` and parse, then the store under the lock | `ReadFile`, `SkipRelease`, `ParseFails`, `StoreCache` |

`WriteFile`, `RemoveFile` and `ChangeDpkg` are the host and interleave with
everything. Reads may fail at the paths of `FaultyPaths`, and of any file that
is gone since it was listed. `window` and `hit` are history variables: what
states each file was in during the call, and whether it was served from the
cache.

### PackageRefresh

The status database is a file out of a set and an access; the apt lists are a set
of files, an access, and the files among them that cannot be opened. A list file
is named with its size and modification time, so the set of the files *is* the
revision the code computes (`CommandSource.PackageIndexRevision`), and as in the
code it returns when the files do. What a file is (malformed, offering nothing
installed, breaking off, with an overlong line) and its modification time are
constants; the time exported for the lists is the latest of the files
(`LastModified`), which goes back when the newest is removed. `ParseLists` passes over
release files that cannot be opened, and what is then cached is filed under the
revision all the same.

The local variables of `Collect` are `revision`, `stats` and `errs`; `pc` names the
next read; each action is one source read with everything the code does until the
next one, error paths included. Counts are not computed but named by the files
they are computed from, so a property can say what they must belong to. `Publish`
is the return of `Snapshot` to the framework. A source whose access is `blocked`
leaves the worker where it is: `readWithTimeout` calls the reader synchronously and
`CommandSource` ignores the context, so nothing gives the read up.

`RefreshHistory` adds two history variables: `window`, what the host held during the
refresh in progress, and `followed`, all pairs of lists `<<L, M>>` such that some
refresh saw L and, then or later, M.

`PackageData` is the same exporter seen from outside: a refresh reads the inventory,
then what the lists offer for it, and shows both; a failure shows the last
success. It has no cache, no counters and no times, but it has what a cache with
this key may do: the offers are those of the present lists L or of any M with
`<<L, M>>` in `followed`, with or without release files. So a revision that returns
may bring back packages of lists that are gone, as in the code, but only of lists
that a refresh went on to read after it had seen this revision; lists that no
refresh saw before are read, and lists that did not change during any refresh that
saw them are shown as they are. The refinement mapping `Of` forgets all of
`apt.Stats` but the installed packages, the offers, whether upgrade counts are
valid, and whether the collection came to its end (its last stage has a duration).
The steps of `PackageRefresh` that touch none of these are stutters.

### UpgradePolicy

One installed package after the other. `Parse` appends a candidate of an index to
`available`, which is keyed by architecture as `availableByPackageKey` keys it;
`BeginPolicy` picks the list (`packageCandidates`), `Consider` is one iteration of
`bestPolicyCandidate`, and `Count` evaluates the predicates of the five counting
loops. A version is named by its rank under `CompareVersions`; an archive by its
priority and its security and backports marks. A priority of 0 becomes 500 both where an
index is parsed and where candidates are compared (`normalizedPackagePriority`).

### FeatureMetrics

`RefreshSucceeds` and `RefreshFails` are `ObservedSnapshotter.Snapshot` reduced
to what the metrics depend on: the attempt, the outcome and which stages have a
duration. A scrape is `Scrape` (or `ScrapeError`), `ObservePackageSnapshot`,
`PackageCollectionObservations`, `LogFeatureSnapshotError`; the mutex is held
within each of the last three and not in between. Buckets and sums change with
the counts and are not kept apart. `scraped`, `overtaken` and `logged` are history
variables.

### PureFunctions

These functions keep no state. Each action of `PureFunctions` calls one of them
on any of its inputs and keeps arguments and result in `call`; `Return` goes back
to the start. The functions are translated with the shape of the code, a loop as a
recursive function of the number of its iterations, and each is compared with a
definition that has another shape:

- `VersionOrder`: the code takes digit and non-digit runs off the front in turn.
  The reference maps a version to a key of numbers and compares keys by their
  first difference, as the Debian policy describes the order.
- `IndexParser`: a text is a sequence of lines of a few kinds. The code's parsers
  are state machines over lines (fields that outlive a paragraph in the stream
  parser; early exits in the byte parser; continuation lines in the parser of the
  status database). The reference looks up the lines of a paragraph by field.
  Paragraphs are named by the line they end at, a blank one or the end of the
  text; where two blank lines meet, an empty paragraph contributes nothing.
- `ReleaseMetadata`: the code ranges over a map, in an order the language leaves
  open; the action takes every order. The reference is the release file with
  the longest name, and of the two forms of one name the one listed last.
- `ConfigResolution`: the defaults are declared in three packages, each of which has its
  own in the model; what is reported of a path is compared with what `CommandSource`
  and `RebootRequired` open.

## What the runs check

| Run | Instance | Properties |
|---|---|---|
| `IndexCache` | 1 collector, 1 index, 1 release file, reads that fail anywhere, 2 installed sets, 2 generations, counters mod 2 | `TypeOK`, `FreshResult`, `OwnFilter` |
| `IndexCacheLive` | 2 collectors on one cache, 2 indexes of which one offers nothing installed, 1 generation, fair | `FreshResult`, `SettledHostServedFromCache` |
| `Refresh` | 2 inventories; one index, the same with an older index and a release file that cannot be opened, or no directory; the marker there or not; each may change to each other and back | `UpgradesMatchInventory`, `PublishedIsWhole`, `ShowsPackageData` |
| `RefreshCounts` | status ok, malformed or missing; lists good, with an overlong line, breaking off, unopenable or missing; marker absent or unreadable; no step from a state with more than 3 events counted | `TypeOK`, `FailuresAreCounted`, `TotalsNeverFall` |
| `RefreshSettles` | status of two revisions of one inventory, or blocked; lists good, with a release file passed over, foreign, empty or blocked; fair | `SettledHostIsShown` |
| `UpgradePolicy` | 3 version ranks, 6 kinds of archive with the priorities 500, 100 and 1 (one of them written as 0), up to 3 candidates, any order | `TypeOK`, `SelectsAptCandidate`, `SecurityOfSelected`, `EveryUpdateIsCounted` |
| `Scrapes` | 2 clients (symmetric), 1 stage, 3 refreshes | `StagesWithinCollections`, `ScrapedIsCounted`, `ServedIsCountedOnce`, `FailuresAreLogged` |
| `PureFunctions` | one call after another on the inputs below | `VersionsCompareAsDebian`, `StatusIsReadByParagraphs`, `PresentIsCountedOnce`, `StreamSelectsOffers`, `ParsersAgree`, `RevisionDeterminesFilter`, `MostSpecificReleaseGoverns`, `ReportedIsOpened` |

What they show:

- `FreshResult`: a file that was in the directory all through a call contributes
  a content it had during the call, whether parsed or taken from the cache. The
  code gets this right by computing the revision *before* it reads: a cache
  entry can be newer than its key, never older, and a key that is seen again
  means that no file was rewritten since. (A file that was added and removed again
  may be in the entry; the property is about those that were there throughout.)
  The exception, a release file whose read failed, is the finding below.
- `OwnFilter`, `UpgradesMatchInventory`: the cached packages are selected for the
  installed packages of the call that reads them.
- `SettledHostServedFromCache`, `SettledHostIsShown`: after any history, on a host
  that settles, calls become cache hits and the published snapshot becomes, and
  stays, a success that shows the inventory and the marker, also when reads blocked
  before it settled. What the lists offer is shown for good, too, on the premise
  `Undisturbed`: the lists were not replaced between revision and reading, and no
  release file was passed over. Without it the code may go on for good with a
  stale entry, so the premise is part of the property. With no installed
  package in the indexes the parsed slice is nil, which the code never takes for
  an entry.
- `PublishedIsWhole`: from the first success on, a refresh publishes inventory, times
  and marker as the host had them while that refresh ran, and offers of lists it
  had then or that followed one of these within a refresh; or else it leaves all
  data that were published before. A fallback that takes one field from the failure,
  or one from the success before it, breaks it. The times need not be those of the
  contents: both are read, one after the other, while the host changes.
- `ShowsPackageData`: what the cache may do and no more. Whatever the sources did, a
  collection, the last success and what is published are at each step what
  `PackageData` allows. A cache that ignored the lists' revision or the installed
  packages would break it.
- `FailuresAreCounted`, `TotalsNeverFall`: a refresh fails for another reason than
  the reboot marker if and only if an error counter of the published snapshot moves,
  and no counter falls from one snapshot to the next, even where the fallback joins counters of two
  collections. Before the first success the snapshot has the counters but the
  exporter leaves all package metrics out (METRICS.md:40).
- `SelectsAptCandidate`, `SecurityOfSelected`: one pass over the candidates in index
  order selects what apt would, and the security mark belongs to the selection
  in whatever order the archives that offer it were parsed. The candidates are those
  `packageCandidates` lets through; what it drops is the finding `UpgradePolicyAll`.
  The mark is that of the security archives with the selected version unless one of
  them is ranked below the selection: there the code leaves it out, though
  ARCHITECTURE.md:82 counts what is "present in a security archive"; the premise
  `SecurityNotOutranked` names the case.
- `EveryUpdateIsCounted`: upgradable, pinned and backports compare with three
  different versions; still no newer candidate falls between them.
- `StagesWithinCollections`, `ScrapedIsCounted`, `FailuresAreLogged`: what a client
  gets is consistent and contains what it was served, though other scrapes run
  between its critical sections.
- `ServedIsCountedOnce`: the collections counted are the attempts served, each once,
  however many scrapes were served the same one. The code remembers only the last
  attempt observed, so this has the premise `~overtaken`: two overlapping scrapes
  that hold different attempts can observe one of them twice, and a refresh that
  no scrape reads is never observed.
- `VersionsCompareAsDebian`: `CompareVersions` is the order of the Debian policy,
  tildes, epochs, leading zeros and absent parts included, wherever the epoch is a
  number that fits 64 bits. (An epoch that does not is read as 0, and a NUL
  compares like the end; neither is in a version dpkg accepts.)
- `StatusIsReadByParagraphs`, `StreamSelectsOffers`: no field leaks from one paragraph
  to the next, whatever lines are missing, repeated or out of order.
- `PresentIsCountedOnce`: a package that should be installed and of which something
  is on the disk is either installed or broken. Of held packages only complete
  ones are counted; the documents do not say what broken means for the others.
- `ParsersAgree`: the early exits of the byte parser lose nothing. Its premise is
  that no paragraph names a field twice: the stream parser then keeps the last
  value, the byte parser the first complete set.
- `RevisionDeterminesFilter`: the revision under which packages are cached covers all
  that their selection looks at; `PackageIndexCache` and `PackageRefresh` name the
  filter by that revision.
- `MostSpecificReleaseGoverns`: the order of a map does not decide which release governs,
  and of `InRelease` and `Release` it is always the same.
- `ReportedIsOpened`: the default paths declared for flags and report and those declared
  where files are opened are the same, for every setting left empty.

### Where code and documents disagree

Four runs expect a violation; each checks a sentence of the documents.

- `ScrapeStages`: the fallback carries the stage durations of the last success
  under a new attempt time, so they are observed again (METRICS.md:173, 190).
- `RefreshUpgradesValid`: after a success, `upgrade_metrics_valid` stays 1 while a
  source is exported as unusable (METRICS.md:113).
- `IndexCacheSwallowed`: a release file that cannot be read once is left out of
  packages that are cached under a revision which includes it; until a list or
  the inventory changes, hits go on without its priority markers (README.md:90).
- `UpgradePolicyAll`: a newer backports candidate of architecture `all` is not counted
  while an old one of the installed architecture is offered (METRICS.md:95).

Three more have no run of their own: a missing status database is also counted as a
read error of the lists (`MetadataFails`; METRICS.md:153 speaks of the lists alone),
a read that blocks is not given up (`Blocked`; README.md:35 names a timeout for each
read), and the security mark above (ARCHITECTURE.md:82).

### Bounds, and why they are enough

- `MaxGen`: a race on the cache needs a content before and one after,
  for the reader and for the entry; two generations give every order of write,
  stat, read and store. With removals a file can be absent, be created and be
  rewritten. The proof has no such bound.
- Source states: in `Refresh` the lists can grow by an index and shrink again within one
  refresh, so that the old revision returns; the index that comes later is the older
  one, so that the time may be the same, and the release file is passed over. Failures
  of every kind are in `RefreshCounts`. In `RefreshSettles` two status databases have
  one installed revision, so that a change of status alone leaves the cache valid.
- `ChangesAtReads` (an action constraint of the refresh runs): a source changes between
  refreshes or just before a step that reads it. At any other time its change commutes
  with the steps until then, so nothing that is read or published is lost.
- `DataView` (the view of `Refresh`): leaves out counters, health and the single errors
  and stages, on which no step and no property of that run depends.
- Collectors: the framework runs one worker; two collectors cover the mutex the
  code takes. The proof covers any number.
- `CounterMod` stands for 2^64. In `RefreshCounts` it is larger than the number of events
  counted, so counters do not wrap where `TotalsNeverFall` compares them; in the
  other runs of the refresh it is 1, which leaves the counters out.
- `MaxEvents` (a state constraint of `RefreshCounts`): three events are enough for a
  success followed by two failures, for one refresh with errors of both sources, and
  for a failure before the first success followed by recovery.
- `MaxOffers`: with three candidates and the installed version, the best can be
  replaced, tied with and kept, before and after each other; three ranks put a
  candidate below, at and above the installed version. The proof has no such
  bound.
- `MaxAttempts`: three refreshes give a scrape that holds the oldest, one that holds
  the newest, and one in between that each has forgotten.
- `SomeVersions`: all strings of up to 3 of `0 9 a . ~`, so every sequence of three
  kinds of characters with the empty and the longer string beside it, and all
  combinations of 5 epochs (one of them no number), 8 upstream versions (one with a
  hyphen, one with a colon) and 4 revisions.
- `SomeStatusTexts`, `SomeIndexTexts`: all texts of up to 4 of 8 kinds of lines: two
  paragraphs, each with or without a field of the other, or one with every field
  in every order. Index texts also have all pairs of paragraphs of 2 lines.
  `SomeInventories`: up to 2 of 5 entries (two architectures of one package, none
  given, architecture `all`, a removed one). `SomeStatusLists`: up to 2 of all
  statuses dpkg writes and two that are not of three words.
- `SomeReleaseFiles`: up to 2 release files whose names are nested prefixes, in both
  forms, readable or not, with all flags. Settings: each path's flag empty, at its
  default or given, with each value of the file; the same for the timeout.

### Fairness

`WF_vars(Collect(c))` and `WF_vars(Refresh)`: a call in progress goes on and the
worker starts the next one, because it is a goroutine with a ticker and no
operation of the code waits for another beyond the mutex, which is held for a few
assignments. Nothing is assumed of the file system: in `PackageRefresh` a read of
a blocked source is not enabled, so the worker stops there for as long as the
block lasts, as it does in the code, and goes on when it ends. In
`PackageIndexCache` a read returns. The host is under no fairness; instead the
properties have the premise that it settles (`<>[][~Environment]_vars`) with
sources that can be read.

## What is proved

Every safety invariant and every action property of the passing runs except
`ReportedIsOpened`, for any values of the constants that satisfy the assumptions below, and
that `RefreshHistory` implements `PackageData`. Liveness is model-checked only.

| Module | Theorem | States |
|---|---|---|
| `PackageIndexCacheProof` | `TypeCorrect`, `Freshness`, `Selection` | `TypeOK`, `FreshResult`, `OwnFilter` |
| `PackageRefreshProof` | `TypeCorrect`, `Wholeness`, `Selection` | `TypeOK`, `PublishedIsWhole`, `UpgradesMatchInventory` |
| | `Refinement` | `ShowsPackageData` |
| | `FailuresCounted`, `TotalsRise` | `FailuresAreCounted`, `TotalsNeverFall` |
| `UpgradePolicyProof` | `TypeCorrect`, `AptSelection`, `SecurityMark`, `Counting` | `TypeOK`, `SelectsAptCandidate`, `SecurityOfSelected`, `EveryUpdateIsCounted` |
| `FeatureMetricsProof` | `StagesBounded`, `ServedCounted`, `CountedOnce`, `Logging` | `StagesWithinCollections`, `ScrapedIsCounted`, `ServedIsCountedOnce`, `FailuresAreLogged` |
| `PureFunctionsProof` | `StatusReading`, `Streaming`, `Agreement` | `StatusIsReadByParagraphs`, `StreamSelectsOffers`, `ParsersAgree` |
| | `Revisions`, `Releases`, `Counting` | `RevisionDeterminesFilter`, `MostSpecificReleaseGoverns`, `PresentIsCountedOnce` |
| | `Comparing` | `VersionsCompareAsDebian` |
| `VersionOrderProof` | `VersionsAreOrdered` | that `CompareVersions` is a total preorder |
| | `PolicyFollowed` | that it is the order of the Debian policy |

### The cache

For any sets of files, collectors, installed sets and faulty paths, any `MaxGen` and
any `CounterMod` > 0. `FreshResult` is not inductive: it speaks of finished calls,
and why a hit is fresh lies in what another call did earlier. `IInv` adds:

- `WindowInv`: a call in progress has witnessed the present state of each file and
  every generation since the first it has seen;
- `RevisionInv`, `ReadInv`: what a call has statted or parsed is in its window, and
  what it parsed is no older than what it statted;
- `CacheInv`: the cached packages are no older than the revision they are filed
  under (`Covers`). Either the content k read after generation r satisfies
  `r <= k <= gen`, or the file was gone when it was read, and then r is over for
  good and every call that has seen r has seen the file go (`Gone`);
- `FilterInv`: packages stay with the installed revision they were selected for.

A hit compares the call's own revision with the key, so `CacheInv` gives a
content between the generation the call has seen and the present one, and
`WindowInv` says that the call has witnessed all of these. The proof has one step
per action under each conjunct; frame lemmas (`ReadFrame`, `CacheStable`, ...)
deal with the actions that leave a conjunct alone. The proof fails, as it should,
when the comparison of revisions is dropped from `Matches`.

### The refresh

For any files, modification times and states the sources may be in. What is published
is right because of the collection before it, the last success and the cache. `IInv`
(`Invariance`) has:

- `LocalInv`: what the collection in progress knows at each `pc`: nothing of the
  offers until they are read, and an error wherever it went on without them;
- `CacheInv`: the cached packages are those of the installed revision they are filed
  under;
- `ObserverInv`: from the first success on, what is kept and what is published are the
  same data.

This is enough for `Selection`. `HInv` (`HistoryInvariance`) relates it to the history:

- `WindowInv`: the refresh in progress has seen the host as it is, and the present lists
  follow all it has seen;
- `FiledInv`: the packages of the cached entry were read after its revision within one
  refresh: some pair in `followed` has the revision first and lists that offer these
  packages second. This does not say that the revision is current or ever new: it
  holds of every entry for good, and when the revision returns, a hit shows the second
  lists of that pair;
- `GatheredInv`: what the collection has gathered (inventory, offers, times, marker), the
  host had during this refresh, or, of the offers, follows what it had.

`Wholeness` follows at the return of the observer. `Refinement` is a step simulation: each
action is a step of `PackageData` or a stutter. The steps that need the invariant are the
cache hit, whose pair must be one that starts with the present lists, the parse, whose
revision must have been seen in this refresh, and the return of the observer, where the
fallback must be the last success.

`FailuresCounted` needs `CountInv`, how the counters compare with the published ones at
each `pc`. It has the premise `CounterMod > 2`: a refresh may count two errors on
one counter, which modulo 2 looks like none. `TotalsRise` needs `RisingInv`: the
published counters are those of the fallback or of the collection, both between
the ones published before and the present ones. It has the premise that no counter
is about to wrap (`NoWrap`), without which it is false; with counters of 64 bits no
process lives long enough.

### The upgrade policy

For any ranks, archives and number of candidates:

- `Invariance`: `LoopInv`, that after each iteration `best` is the
  selection among the candidates seen so far and the installed version
  (`Selection(Seen)`), security mark included. The mark makes the invariant
  necessary: it is right only because what ties with a better candidate cannot
  have been seen before it.
- `SelectsAptCandidate`, `SecurityOfSelected` and `EveryUpdateIsCounted` follow from
  it when all candidates have been seen.

### The scrapes

For any number of clients, stages and refreshes.

- `SnapshotInv`: an attempt names one snapshot; clients that hold the same attempt
  hold the same outcome. With `LogInv` (what is logged are attempts of failures, the
  one remembered among them) it gives `FailuresAreLogged`.
- `CountInv`: the collections counted are at least the attempts observed by any
  client, though the code remembers only the last: it observes what differs from
  that one, and that one is itself among the observed. This gives
  `ScrapedIsCounted`, with the cardinality of sets that grow by at most one.
- `OrderInv`: without overtaking, no client holds an older attempt than the last one
  observed, so that the last one is the greatest and what differs from it is new.
  This gives `ServedIsCountedOnce`.

### The pure functions

The library's induction theorems take a predicate as a parameter, which none of the
provers can instantiate. `Induction` states induction for a *set* of numbers
(`SetInduction`, from a least counterexample), and that a function defined by
recursion exists and satisfies its equation: over the iterations of a loop
(`IterationExists`, `LoopExists`, `LoopInduction`), and for a recursion in tail
position on any set of arguments (`TailRecursionExists`). A `CHOOSE`-defined function
of the model is then one that satisfies its equation, and what the loop has done
after n iterations is shown by induction.

- `VersionOrderProof`: a comparison is lexicographic of a text, a number and the rest.
  The lexicographic composition of total preorders is one (`LexOrders`), and so is
  a recursion that compares what is before the rest and then goes on with shorter
  rests, by induction on the length of both (`LoopOrders`), applied to
  `compareNonDigit` and to `compareVersionPart`. `VersionsAreOrdered` is what
  `UpgradePolicy` assumes when it names a version by its rank, for every ASCII
  string, whatever its form.

  `PolicyFollowed` compares the loops with the keys of the reference, for strings of
  any length. Two loops with the same heads and the same rests agree
  (`LoopsAgree`), so it is enough that the key of a part is the ranks of its text,
  then 0 and the value of its number, then the key of the rest (`KeyParts`), and that
  the first difference of two such keys is decided by what differs first
  (`TextsDecide`, `DifferenceStep`). Each head is compared as the reference does:
  texts because the code ranks characters in the same order (`SameRank`,
  `TextOrder`), numbers because dropping zeros leaves the value (`ZerosDropped`), of
  two numerals the shorter has the smaller value (`Shorter`), and in two of one
  length the first different digit decides (`SameLength`). `SplitIs` does the same
  for epoch, version and revision; a missing revision, which the code reads as
  "0", has a key that like the empty one reads 0 everywhere (`KeyOfZero`).
- `IndexParserProof`: before line i the variables of the stream parser hold the fields
  of the paragraph up to there (`Current`), and its result the offers of the
  paragraphs that have ended. The byte parser has either read as much of its
  paragraph or left it with the fate of the whole (`Knows`): here no paragraph
  may name a field twice. The parser of the status database holds the folded
  values up to line i, and `current` is the field whose last line is the last
  field of all (`KnowsFields`, `LastField`), which is the one a continuation
  belongs to. `FlattenIs` reduces `FlattenSeq`, with which the references collect
  paragraphs, to one concatenation after another.
- `PureFunctionsProof`: `Releases` by induction over the visited releases, in any order,
  the longest prefix over the index so far; `Revisions` from the bag of lines
  determining the set of name and architecture; `Counting` from disjoint finite
  sets.

### Assumptions

Each is an `ASSUME` that TLC evaluates in the runs of its module.

- `FilesAssumption`, `InstalledAssumption` and `BoundAssumption` of the cache: indexes
  and release files are different files, faulty paths are among them, and there is
  an installed set to start from.
- `FilesAssumption`, `StatesAssumption` and `BoundAssumption` of the refresh: what stands
  for nothing read is no file, the special indexes are indexes, modification times are
  numbers, the source states are among those the module describes, counters have a
  modulus.
- `VersionsAssumption`, `ArchivesAssumption` and `BoundAssumption` of the policy: ranks
  and priorities are natural numbers.
- `BoundAssumption` of the scrapes: the number of refreshes is a natural number.
- `VersionsAssumption` of the pure functions: versions are ASCII, as dpkg has them.
- `TextsAssumption` of the pure functions: texts are sequences of lines of words, and a
  continuation line has some (dpkg and apt write an empty line of a description
  as a dot). `StatusListsAssumption`: the second and third word of a status are
  among those dpkg writes. `ReleaseFilesAssumption`: finitely many files with
  different names and a non-empty prefix. `IndexNamesAssumption`: names are
  sequences.

### Only model-checked

- `SettledHostServedFromCache` and `SettledHostIsShown`: liveness is beyond the prover.
- `ReportedIsOpened`: it compares constants and two short functions, and a proof would say
  no more than the run.
- The four runs that expect a violation: a counterexample is found, not proved.

## Abstractions and assumptions

- apt replaces a list by rename: an opened file does not change while it is
  parsed, and reading one file is a single step.
- Two contents of one list differ in size or modification time: a file of `PackageRefresh`
  is its name, size, time *and* content. If they did not, the cache would serve the old
  content for the new.
- In `PackageIndexCache` a file that is written gets a size and time it has not had before,
  as apt's do; files that are removed, and with them revisions, return. An old version
  put back after a race would break `FreshResult`: that revisions of whole contents
  return, and what is then still true, is in `PackageRefresh`.
- In `PackageIndexCache` indexes are read in any order: the order matters only to
  the selection of candidates, which `UpgradePolicy` shows to be independent of it.
  Release files are read before indexes, as in the code.
- `UpgradePolicy` treats `CompareVersions` as a total preorder, which
  `VersionsAreOrdered` shows. Priorities come from release files, so none reaches 1000 in the
  run; the proof covers those as well.
- In `PackageRefresh` one call of `availablePackages` reads the lists in one step after the
  revision; `PackageIndexCache` shows what remains of that when they change meanwhile
  (`FreshResult`). An empty status database counts as one with records, as in the code.
- An unopenable index and one that breaks off may be in the same directory: which of the
  two errors ends the reading depends on the order of names, and both are allowed.
- Sources without streams or revisions occur in tests only and are left out, as are
  parsers without a filter.
- Versions are ASCII. In texts there are no carriage returns and no white space
  around field names, and a continuation line has words and no colon in it.
- A release file whose prefix is empty is left out.
- The framework's `NormalizeDuration`, flags and YAML are external.
- The framework's worker runs one refresh at a time. Whether it lets scrapes
  overlap is not decided in this repository; `FeatureMetrics` lets them.

## Not modelled

- Metric descriptors, the scaffold, the smoke specification, alert rules and
  dashboards: constant tables, wiring and data, nothing changes in them.
- The mapping of a snapshot to the framework's status, and the gauges: records
  built from what is published, field by field.
- Decompression and the count of list files by compression: the outcome of a read
  stands for the former, the latter has no part in any decision.
- HTTP, logging and the framework's own metrics are a dependency's.

## Plan

1. *Core, done*: cache, refresh, upgrade policy, scrapes; proofs for the cache and
   the policy.
2. *Pure functions, done*: versions, parsers, releases, settings.
3. *Abstract specification, done*: `PackageData`, implemented by `RefreshHistory`.
4. *Proofs, done*: refresh and refinement, scrapes, parsers, releases, the order of
   versions.
5. *Open*: versions that are not ASCII, which the code walks rune by rune, and release
   files without a prefix, both left out above.
