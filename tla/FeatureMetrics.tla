--------------------------- MODULE FeatureMetrics ---------------------------
(***************************************************************************)
(* featureMetricState: scrapes, possibly several at a time, turn the last  *)
(* published snapshot into histogram observations and log lines while the  *)
(* worker publishes the next one.                                          *)
(*                                                                         *)
(* A scrape gets the snapshot, observes it, copies the histograms and logs *)
(* the error; state.mu is held in each of the last three, not in between.  *)
(* Buckets and sums grow together with the counts, under the same lock and *)
(* for the same observations: the counts stand for them.                   *)
(***************************************************************************)
EXTENDS Naturals, FiniteSets

CONSTANTS
  Scrapers,      \* the HTTP clients whose scrapes may overlap
  Stages,        \* collection stages
  MaxAttempts    \* bound: refreshes

ASSUME BoundAssumption == MaxAttempts \in Nat

Attempts == 0 .. MaxAttempts
ZeroTime == 0                     \* no refresh yet

VARIABLES
  published,            \* the snapshot the framework serves
  hasSuccessful, lastSnapshot,   \* ObservedSnapshotter: the last success's stages
  ran,                  \* history: how often each stage was executed
  lastObservedAttempt, collectionCount, stageCollectionCount,
  lastLoggedErrAttempt, hasLoggedError,
  pc, snapshot,         \* the scrape in progress of each client
  emitted,              \* the counts its last scrape exported
  scraped,              \* history: the attempts it has observed
  overtaken,            \* history: a scrape observed while another, still to
                        \* observe, held the snapshot of another attempt
  logged                \* history: log lines per attempt

metricState == <<lastObservedAttempt, collectionCount, stageCollectionCount,
                 lastLoggedErrAttempt, hasLoggedError>>
worker      == <<published, hasSuccessful, lastSnapshot, ran>>
vars        == <<worker, metricState, pc, snapshot, emitted, scraped, overtaken, logged>>

Snapshot == [AttemptTime : Attempts, Err : BOOLEAN, StageDurations : SUBSET Stages]
Counts   == [collections : Nat, stages : [Stages -> Nat]]
NoStages == [s \in Stages |-> 0]

TypeOK ==
  /\ published \in Snapshot
  /\ hasSuccessful \in BOOLEAN
  /\ lastSnapshot \in SUBSET Stages
  /\ ran \in [Stages -> Nat]
  /\ lastObservedAttempt \in Attempts
  /\ collectionCount \in Nat
  /\ stageCollectionCount \in [Stages -> Nat]
  /\ lastLoggedErrAttempt \in Attempts
  /\ hasLoggedError \in BOOLEAN
  /\ pc \in [Scrapers -> {"idle", "observe", "copy", "log"}]
  /\ snapshot \in [Scrapers -> Snapshot]
  /\ emitted \in [Scrapers -> Counts]
  /\ scraped \in [Scrapers -> SUBSET Attempts]
  /\ overtaken \in BOOLEAN
  /\ logged \in [Attempts -> Nat]

Init ==
  /\ published = [AttemptTime |-> ZeroTime, Err |-> FALSE, StageDurations |-> {}]
  /\ hasSuccessful = FALSE
  /\ lastSnapshot = {}
  /\ ran = NoStages
  /\ lastObservedAttempt = ZeroTime
  /\ collectionCount = 0
  /\ stageCollectionCount = NoStages
  /\ lastLoggedErrAttempt = ZeroTime
  /\ hasLoggedError = FALSE
  /\ pc = [c \in Scrapers |-> "idle"]
  /\ snapshot = [c \in Scrapers |-> published]
  /\ emitted = [c \in Scrapers |-> [collections |-> 0, stages |-> NoStages]]
  /\ scraped = [c \in Scrapers |-> {}]
  /\ overtaken = FALSE
  /\ logged = [a \in Attempts |-> 0]

Increment(counts, stages) ==
  [s \in Stages |-> IF s \in stages THEN counts[s] + 1 ELSE counts[s]]

----------------------------------------------------------------------------
(* ObservedSnapshotter.Snapshot, as far as the metrics depend on it *)

RefreshSucceeds(stages) ==
  /\ published.AttemptTime < MaxAttempts
  /\ published' = [AttemptTime |-> published.AttemptTime + 1, Err |-> FALSE,
                   StageDurations |-> stages]
  /\ hasSuccessful' = TRUE
  /\ lastSnapshot' = stages
  /\ ran' = Increment(ran, stages)
  /\ UNCHANGED <<metricState, pc, snapshot, emitted, scraped, overtaken, logged>>

\* The fallback replaces the stage durations by those of the last success.
RefreshFails(stages) ==
  /\ published.AttemptTime < MaxAttempts
  /\ published' = [AttemptTime |-> published.AttemptTime + 1, Err |-> TRUE,
                   StageDurations |-> IF hasSuccessful THEN lastSnapshot
                                                       ELSE stages]
  /\ ran' = Increment(ran, stages)
  /\ UNCHANGED <<hasSuccessful, lastSnapshot, metricState, pc, snapshot, emitted,
                 scraped, overtaken, logged>>

----------------------------------------------------------------------------
(* A scrape *)

Goto(c, here, there) == pc[c] = here /\ pc' = [pc EXCEPT ![c] = there]

\* The framework serves the snapshot published last.
Scrape(c) ==
  /\ Goto(c, "idle", "observe")
  /\ snapshot' = [snapshot EXCEPT ![c] = published]
  /\ UNCHANGED <<worker, metricState, emitted, scraped, overtaken, logged>>

\* Before the first success it leaves the feature's metrics out and has the
\* error logged only.
ScrapeError(c) ==
  /\ ~hasSuccessful
  /\ Goto(c, "idle", "log")
  /\ snapshot' = [snapshot EXCEPT ![c] = published]
  /\ UNCHANGED <<worker, metricState, emitted, scraped, overtaken, logged>>

\* What the histories record when a scrape observes its snapshot.
Served(c) ==
  /\ scraped' = [scraped EXCEPT ![c] = @ \cup {snapshot[c].AttemptTime}]
  /\ overtaken' = (overtaken \/ \E d \in Scrapers :
                      /\ pc[d] = "observe"
                      /\ snapshot[d].AttemptTime # snapshot[c].AttemptTime)

\* Mutant: attempts are taken to arrive in order.
ObservedOrOlder(attempt) == attempt <= lastObservedAttempt

\* Mutant: the observed attempt is not remembered.
ObservedNever(attempt) == attempt = ZeroTime

AlreadyObserved(attempt) ==
  attempt = ZeroTime \/ attempt = lastObservedAttempt

\* Mutant: the stages are counted before the early return.
ObserveStagesAlways(c) ==
  /\ Goto(c, "observe", "copy")
  /\ Served(c)
  /\ stageCollectionCount' = Increment(stageCollectionCount, snapshot[c].StageDurations)
  /\ IF AlreadyObserved(snapshot[c].AttemptTime)
     THEN UNCHANGED <<lastObservedAttempt, collectionCount>>
     ELSE /\ lastObservedAttempt' = snapshot[c].AttemptTime
          /\ collectionCount' = collectionCount + 1
  /\ UNCHANGED <<worker, lastLoggedErrAttempt, hasLoggedError, snapshot, emitted, logged>>

ObservePackageSnapshot(c) ==
  /\ Goto(c, "observe", "copy")
  /\ Served(c)
  /\ IF AlreadyObserved(snapshot[c].AttemptTime)
     THEN UNCHANGED metricState
     ELSE /\ lastObservedAttempt' = snapshot[c].AttemptTime
          /\ collectionCount' = collectionCount + 1
          /\ stageCollectionCount' =
               Increment(stageCollectionCount, snapshot[c].StageDurations)
          /\ UNCHANGED <<lastLoggedErrAttempt, hasLoggedError>>
  /\ UNCHANGED <<worker, snapshot, emitted, logged>>

PackageCollectionObservations(c) ==
  /\ Goto(c, "copy", "log")
  /\ emitted' = [emitted EXCEPT ![c] = [collections |-> collectionCount,
                                        stages |-> stageCollectionCount]]
  /\ UNCHANGED <<worker, metricState, snapshot, scraped, overtaken, logged>>

\* Mutant: errors are taken to arrive in order.
LoggedOrOlder(attempt) == hasLoggedError /\ attempt <= lastLoggedErrAttempt

AlreadyLogged(attempt) == hasLoggedError /\ attempt = lastLoggedErrAttempt

LogFeatureSnapshotError(c) ==
  /\ Goto(c, "log", "idle")
  /\ IF ~snapshot[c].Err \/ AlreadyLogged(snapshot[c].AttemptTime)
     THEN UNCHANGED <<metricState, logged>>
     ELSE /\ lastLoggedErrAttempt' = snapshot[c].AttemptTime
          /\ hasLoggedError' = TRUE
          /\ logged' = [logged EXCEPT ![snapshot[c].AttemptTime] = @ + 1]
          /\ UNCHANGED <<lastObservedAttempt, collectionCount, stageCollectionCount>>
  /\ UNCHANGED <<worker, snapshot, emitted, scraped, overtaken>>

Next ==
  \/ \E stages \in SUBSET Stages : RefreshSucceeds(stages) \/ RefreshFails(stages)
  \/ \E c \in Scrapers : \/ Scrape(c) \/ ScrapeError(c)
                         \/ ObservePackageSnapshot(c)
                         \/ PackageCollectionObservations(c)
                         \/ LogFeatureSnapshotError(c)

Spec == Init /\ [][Next]_vars

----------------------------------------------------------------------------
(* Properties *)

\* An exported stage histogram never counts more observations than the exported
\* collection histogram: both come from the same observations, though other
\* scrapes observe between the observation and the copy of this one.
StagesWithinCollections ==
  \A c \in Scrapers, s \in Stages :
    emitted[c].stages[s] <= emitted[c].collections

\* Every refresh a client has been served is in the histogram it gets, however
\* late it comes to observe it and whatever other clients observe first.
ScrapedIsCounted ==
  \A c \in Scrapers : pc[c] \in {"idle", "log"} =>
    emitted[c].collections >= Cardinality(scraped[c] \ {ZeroTime})

\* Unless scrapes overtake each other between getting a snapshot and observing
\* it, the collection histogram counts each refresh that was served exactly
\* once, however often and by however many clients.
ServedIsCountedOnce ==
  ~overtaken =>
    collectionCount = Cardinality((UNION {scraped[c] : c \in Scrapers}) \ {ZeroTime})

\* A failure a client has been served is in the log when its scrape ends, and
\* a refresh that did not fail never is.
FailuresAreLogged ==
  \A c \in Scrapers : pc[c] = "idle" =>
    (logged[snapshot[c].AttemptTime] > 0 <=> snapshot[c].Err)

\* A stage is observed at most as often as refreshes executed it.
StagesObservedAsRun ==
  \A s \in Stages : stageCollectionCount[s] <= ran[s]
=============================================================================
