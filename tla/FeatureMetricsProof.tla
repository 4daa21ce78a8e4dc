------------------------ MODULE FeatureMetricsProof ------------------------
(***************************************************************************)
(* The properties of the scrapes for any number of clients, stages and     *)
(* refreshes.                                                              *)
(*                                                                         *)
(* Two facts carry them.  An attempt names one snapshot: who holds the     *)
(* same attempt holds the same outcome.  And the collections counted are   *)
(* at least the attempts observed by anybody, because the attempt observed *)
(* last, the only one the code remembers, is among them.                   *)
(***************************************************************************)
EXTENDS FeatureMetrics, FiniteSetTheorems, TLAPS

\* The attempts that have been observed, by whichever client.
Observed == (UNION {scraped[c] : c \in Scrapers}) \ {ZeroTime}

\* No snapshot is newer than the published one, and those of the same attempt
\* agree in the outcome.
SnapshotInv ==
  /\ \A c \in Scrapers :
       /\ snapshot[c].AttemptTime <= published.AttemptTime
       /\ snapshot[c].AttemptTime = published.AttemptTime =>
            snapshot[c].Err = published.Err
  /\ \A c, d \in Scrapers :
       snapshot[c].AttemptTime = snapshot[d].AttemptTime => snapshot[c].Err = snapshot[d].Err

\* What is in the log is the attempts of failures, and the attempt remembered
\* is among them.
LogInv ==
  /\ \A a \in Attempts : logged[a] > 0 =>
       /\ a <= published.AttemptTime
       /\ a = published.AttemptTime => published.Err
       /\ \A c \in Scrapers : snapshot[c].AttemptTime = a => snapshot[c].Err
  /\ hasLoggedError => logged[lastLoggedErrAttempt] > 0

\* A stage is counted only with a collection.
StageInv == \A s \in Stages : stageCollectionCount[s] <= collectionCount

\* Each observed attempt is counted.
CountInv ==
  /\ lastObservedAttempt # ZeroTime => lastObservedAttempt \in Observed
  /\ collectionCount >= Cardinality(Observed)

\* Without overtaking, attempts are observed in their order.
OrderInv ==
  ~overtaken =>
    /\ \A a \in Observed : a <= lastObservedAttempt
    /\ lastObservedAttempt <= published.AttemptTime
    /\ \A c \in Scrapers :
         pc[c] = "observe" => lastObservedAttempt <= snapshot[c].AttemptTime

LogIInv   == TypeOK /\ SnapshotInv /\ LogInv /\ FailuresAreLogged
StageIInv == TypeOK /\ StageInv /\ StagesWithinCollections
CountIInv == TypeOK /\ SnapshotInv /\ CountInv /\ ScrapedIsCounted
OrderIInv == TypeOK /\ SnapshotInv /\ CountInv /\ OrderInv /\ ServedIsCountedOnce

----------------------------------------------------------------------------
(* Type correctness *)

LEMMA InitTypeOK == Init => TypeOK
<1> SUFFICES ASSUME Init PROVE TypeOK
  OBVIOUS
<1>1. ZeroTime \in Attempts /\ NoStages \in [Stages -> Nat]
  BY BoundAssumption DEF Attempts, ZeroTime, NoStages
<1>2. published \in Snapshot
  BY <1>1 DEF Init, Snapshot
<1>3. [collections |-> 0, stages |-> NoStages] \in Counts
  BY <1>1 DEF Counts
<1>4. QED
  BY <1>1, <1>2, <1>3 DEF Init, TypeOK

LEMMA NextTypeOK == TypeOK /\ [Next]_vars => TypeOK'
<1> SUFFICES ASSUME TypeOK, [Next]_vars PROVE TypeOK'
  OBVIOUS
<1> USE DEF TypeOK, metricState, worker, Goto
<1>1. \A n \in Nat, counts \in [Stages -> Nat], stages \in SUBSET Stages :
        Increment(counts, stages) \in [Stages -> Nat]
  BY DEF Increment
<1>2. ASSUME published.AttemptTime < MaxAttempts
      PROVE  published.AttemptTime + 1 \in Attempts
  BY <1>2, BoundAssumption DEF Attempts, Snapshot
<1>3. ASSUME NEW stages \in SUBSET Stages, RefreshSucceeds(stages) PROVE TypeOK'
  BY <1>1, <1>2, <1>3 DEF RefreshSucceeds, Snapshot
<1>4. ASSUME NEW stages \in SUBSET Stages, RefreshFails(stages) PROVE TypeOK'
  BY <1>1, <1>2, <1>4 DEF RefreshFails, Snapshot
<1>5. ASSUME NEW c \in Scrapers, Scrape(c) \/ ScrapeError(c) PROVE TypeOK'
  BY <1>5 DEF Scrape, ScrapeError
<1>6. ASSUME NEW c \in Scrapers, ObservePackageSnapshot(c) PROVE TypeOK'
  <2>1. snapshot[c].AttemptTime \in Attempts /\ snapshot[c].StageDurations \in SUBSET Stages
    BY DEF Snapshot
  <2>2. scraped' \in [Scrapers -> SUBSET Attempts] /\ overtaken' \in BOOLEAN
    BY <1>6, <2>1 DEF ObservePackageSnapshot, Served
  <2>3. CASE AlreadyObserved(snapshot[c].AttemptTime)
    BY <1>6, <2>2, <2>3 DEF ObservePackageSnapshot
  <2>4. CASE ~AlreadyObserved(snapshot[c].AttemptTime)
    <3>1. /\ lastObservedAttempt' \in Attempts /\ collectionCount' \in Nat
          /\ stageCollectionCount' \in [Stages -> Nat]
      BY <1>1, <1>6, <2>1, <2>4 DEF ObservePackageSnapshot
    <3>2. hasLoggedError' \in BOOLEAN /\ lastLoggedErrAttempt' \in Attempts
      BY <1>6, <2>4 DEF ObservePackageSnapshot
    <3>3. pc' \in [Scrapers -> {"idle", "observe", "copy", "log"}]
      BY <1>6 DEF ObservePackageSnapshot
    <3>4. QED
      BY <1>6, <2>2, <3>1, <3>2, <3>3 DEF ObservePackageSnapshot
  <2>5. QED
    BY <2>3, <2>4
<1>7. ASSUME NEW c \in Scrapers, PackageCollectionObservations(c) PROVE TypeOK'
  BY <1>7 DEF PackageCollectionObservations, Counts
<1>8. ASSUME NEW c \in Scrapers, LogFeatureSnapshotError(c) PROVE TypeOK'
  <2>1. snapshot[c].AttemptTime \in Attempts
    BY DEF Snapshot
  <2>2. CASE UNCHANGED <<metricState, logged>>
    BY <1>8, <2>2 DEF LogFeatureSnapshotError
  <2>3. CASE ~UNCHANGED <<metricState, logged>>
    <3>1. lastLoggedErrAttempt' \in Attempts /\ logged' \in [Attempts -> Nat]
      BY <1>8, <2>1, <2>3 DEF LogFeatureSnapshotError
    <3>2. hasLoggedError' \in BOOLEAN
      BY <1>8, <2>3 DEF LogFeatureSnapshotError
    <3>3. pc' \in [Scrapers -> {"idle", "observe", "copy", "log"}]
      BY <1>8 DEF LogFeatureSnapshotError
    <3>4. QED
      BY <1>8, <2>3, <3>1, <3>2, <3>3 DEF LogFeatureSnapshotError
  <2>4. QED
    BY <2>2, <2>3
<1>9. CASE UNCHANGED vars
  BY <1>9 DEF vars
<1>10. QED
  BY <1>3, <1>4, <1>5, <1>6, <1>7, <1>8, <1>9 DEF Next

\* The state of the metrics, its histories included, keeps its types for any
\* number of clients and refreshes.
THEOREM TypeCorrect == Spec => []TypeOK
BY InitTypeOK, NextTypeOK, PTL DEF Spec

----------------------------------------------------------------------------
(* The snapshots of the scrapes *)

\* The worker publishes another attempt; nothing else changes for a scrape.
Republish ==
  /\ published'.AttemptTime = published.AttemptTime + 1
  /\ UNCHANGED <<metricState, pc, snapshot, emitted, scraped, overtaken, logged>>

\* A scrape gets the published snapshot and goes on to observe or to log it.
Get(c) ==
  /\ pc[c] = "idle" /\ pc' \in {[pc EXCEPT ![c] = "observe"], [pc EXCEPT ![c] = "log"]}
  /\ snapshot' = [snapshot EXCEPT ![c] = published]
  /\ UNCHANGED <<worker, metricState, emitted, scraped, overtaken, logged>>

\* Every step publishes, gets a snapshot or is one of the critical sections.
LEMMA EveryStep ==
  ASSUME TypeOK, [Next]_vars
  PROVE  \/ Republish
         \/ \E c \in Scrapers : \/ Get(c)
                                \/ ObservePackageSnapshot(c)
                                \/ PackageCollectionObservations(c)
                                \/ LogFeatureSnapshotError(c)
         \/ UNCHANGED vars
<1>1. ASSUME NEW stages \in SUBSET Stages, RefreshSucceeds(stages) PROVE Republish
  BY <1>1 DEF RefreshSucceeds, Republish
<1>2. ASSUME NEW stages \in SUBSET Stages, RefreshFails(stages) PROVE Republish
  BY <1>2 DEF RefreshFails, Republish
<1>3. ASSUME NEW c \in Scrapers, Scrape(c) \/ ScrapeError(c) PROVE Get(c)
  BY <1>3 DEF Scrape, ScrapeError, Goto, Get
<1>4. QED
  BY <1>1, <1>2, <1>3 DEF Next

LEMMA InitSnapshotInv == Init => SnapshotInv
<1> SUFFICES ASSUME Init PROVE SnapshotInv
  OBVIOUS
<1>1. \A c \in Scrapers : snapshot[c] = published
  BY DEF Init
<1>2. published.AttemptTime = 0
  BY DEF Init, ZeroTime
<1>3. QED
  BY <1>1, <1>2 DEF SnapshotInv

LEMMA NextSnapshotInv ==
  ASSUME TypeOK, SnapshotInv, [Next]_vars
  PROVE  SnapshotInv'
<1> USE DEF TypeOK, Snapshot, Attempts
<1>1. CASE Republish
  BY <1>1, BoundAssumption DEF Republish, SnapshotInv
<1>2. ASSUME NEW c \in Scrapers, Get(c) PROVE SnapshotInv'
  BY <1>2, BoundAssumption DEF Get, SnapshotInv, worker
<1>3. CASE UNCHANGED <<published, snapshot>>
  BY <1>3 DEF SnapshotInv
<1>4. QED
  BY <1>1, <1>2, <1>3, EveryStep
     DEF ObservePackageSnapshot, PackageCollectionObservations, LogFeatureSnapshotError,
         worker, vars

----------------------------------------------------------------------------
(* The log *)

LEMMA InitLogIInv == Init => LogIInv
<1> SUFFICES ASSUME Init PROVE LogInv /\ FailuresAreLogged
  BY InitTypeOK, InitSnapshotInv DEF LogIInv
<1>1. ZeroTime \in Attempts
  BY BoundAssumption DEF Attempts, ZeroTime
<1>2. QED
  BY <1>1 DEF Init, LogInv, FailuresAreLogged

LEMMA NextLogInv ==
  ASSUME LogIInv, [Next]_vars
  PROVE  LogInv' /\ FailuresAreLogged'
<1> USE DEF LogIInv, TypeOK, Snapshot, LogInv, FailuresAreLogged
<1>1. CASE Republish
  BY <1>1, BoundAssumption DEF Republish, SnapshotInv, Attempts, metricState
<1>2. ASSUME NEW c \in Scrapers, Get(c) PROVE LogInv' /\ FailuresAreLogged'
  BY <1>2 DEF Get, worker, metricState
<1>3. ASSUME NEW c \in Scrapers, LogFeatureSnapshotError(c)
      PROVE  LogInv' /\ FailuresAreLogged'
  <2> DEFINE a == snapshot[c].AttemptTime
  <2>1. a \in Attempts /\ pc[c] = "log" /\ pc' = [pc EXCEPT ![c] = "idle"]
    BY <1>3 DEF LogFeatureSnapshotError, Goto
  <2>2. UNCHANGED <<published, snapshot>>
    BY <1>3 DEF LogFeatureSnapshotError, worker
  <2>3. CASE ~snapshot[c].Err \/ AlreadyLogged(a)
    <3>1. UNCHANGED <<hasLoggedError, lastLoggedErrAttempt, logged>>
      BY <1>3, <2>3 DEF LogFeatureSnapshotError, metricState
    <3>2. logged[a] > 0 <=> snapshot[c].Err
      BY <2>1, <2>3 DEF AlreadyLogged
    <3>3. QED
      BY <2>1, <2>2, <3>1, <3>2
  <2>4. CASE ~(~snapshot[c].Err \/ AlreadyLogged(a))
    <3>1. /\ lastLoggedErrAttempt' = a
          /\ logged' = [logged EXCEPT ![a] = @ + 1]
      BY <1>3, <2>4 DEF LogFeatureSnapshotError
    <3>2. \A b \in Attempts : logged'[b] > 0 <=> (logged[b] > 0 \/ b = a)
      BY <2>1, <3>1
    <3>3. snapshot[c].Err
      BY <2>4
    <3>4. LogInv'
      BY <2>1, <2>2, <3>1, <3>2, <3>3 DEF SnapshotInv
    <3>5. FailuresAreLogged'
      BY <2>1, <2>2, <3>2, <3>3 DEF SnapshotInv
    <3>6. QED
      BY <3>4, <3>5
  <2>5. QED
    BY <2>3, <2>4
<1>4. ASSUME NEW c \in Scrapers,
             ObservePackageSnapshot(c) \/ PackageCollectionObservations(c)
      PROVE  LogInv' /\ FailuresAreLogged'
  <2>1. UNCHANGED <<published, snapshot, hasLoggedError, lastLoggedErrAttempt, logged>>
    BY <1>4 DEF ObservePackageSnapshot, PackageCollectionObservations, worker, metricState
  <2>2. \A d \in Scrapers : pc'[d] = "idle" => pc[d] = "idle"
    BY <1>4 DEF ObservePackageSnapshot, PackageCollectionObservations, Goto
  <2>3. QED
    BY <2>1, <2>2
<1>5. CASE UNCHANGED vars
  BY <1>5 DEF vars, worker, metricState
<1>6. QED
  BY <1>1, <1>2, <1>3, <1>4, <1>5, EveryStep

\* A failure a client has been served is in the log when its scrape ends, and a
\* success never is, however scrapes and refreshes interleave:
\* LogFeatureSnapshotError remembers one attempt, and that is enough.
THEOREM Logging == Spec => []FailuresAreLogged
<1>1. LogIInv /\ [Next]_vars => LogIInv'
  BY NextTypeOK, NextSnapshotInv, NextLogInv DEF LogIInv
<1>2. LogIInv => FailuresAreLogged
  BY DEF LogIInv
<1>3. QED
  BY InitLogIInv, <1>1, <1>2, PTL DEF Spec

----------------------------------------------------------------------------
(* The histograms *)

LEMMA InitStageIInv == Init => StageIInv
<1> SUFFICES ASSUME Init PROVE StageInv /\ StagesWithinCollections
  BY InitTypeOK DEF StageIInv
<1>1. QED
  BY DEF Init, NoStages, StageInv, StagesWithinCollections

LEMMA NextStageInv ==
  ASSUME StageIInv, [Next]_vars
  PROVE  StageInv' /\ StagesWithinCollections'
<1> USE DEF StageIInv, TypeOK, Counts, StageInv, StagesWithinCollections
<1>1. ASSUME NEW c \in Scrapers, ObservePackageSnapshot(c)
      PROVE  StageInv' /\ StagesWithinCollections'
  <2>1. StageInv'
    <3>1. CASE AlreadyObserved(snapshot[c].AttemptTime)
      BY <1>1, <3>1 DEF ObservePackageSnapshot, metricState
    <3>2. CASE ~AlreadyObserved(snapshot[c].AttemptTime)
      <4>1. /\ collectionCount' = collectionCount + 1
            /\ stageCollectionCount' =
                 Increment(stageCollectionCount, snapshot[c].StageDurations)
        BY <1>1, <3>2 DEF ObservePackageSnapshot
      <4>2. QED
        BY <4>1 DEF Increment
    <3>3. QED
      BY <3>1, <3>2
  <2>2. UNCHANGED emitted
    BY <1>1 DEF ObservePackageSnapshot
  <2>3. QED
    BY <2>1, <2>2
<1>2. ASSUME NEW c \in Scrapers, PackageCollectionObservations(c)
      PROVE  StageInv' /\ StagesWithinCollections'
  BY <1>2 DEF PackageCollectionObservations, metricState
<1>3. ASSUME UNCHANGED <<collectionCount, stageCollectionCount, emitted>>
      PROVE  StageInv' /\ StagesWithinCollections'
  BY <1>3
<1>4. ASSUME NEW c \in Scrapers, LogFeatureSnapshotError(c)
      PROVE  UNCHANGED <<collectionCount, stageCollectionCount, emitted>>
  BY <1>4 DEF LogFeatureSnapshotError, metricState
<1>5. QED
  BY <1>1, <1>2, <1>3, <1>4, EveryStep DEF Republish, Get, metricState, vars

\* What a scrape exports was copied under one lock: no stage is counted more often
\* than the collections, whatever other scrapes observe meanwhile.
THEOREM StagesBounded == Spec => []StagesWithinCollections
<1>1. StageIInv /\ [Next]_vars => StageIInv'
  BY NextTypeOK, NextStageInv DEF StageIInv
<1>2. StageIInv => StagesWithinCollections
  BY DEF StageIInv
<1>3. QED
  BY InitStageIInv, <1>1, <1>2, PTL DEF Spec

----------------------------------------------------------------------------
(* The number of collections counted *)

LEMMA ObservedFinite ==
  ASSUME TypeOK
  PROVE  /\ Observed \subseteq Attempts
         /\ IsFiniteSet(Observed) /\ Cardinality(Observed) \in Nat
<1>1. IsFiniteSet(Attempts)
  BY BoundAssumption, FS_Interval DEF Attempts
<1>2. Observed \subseteq Attempts
  BY DEF Observed, TypeOK
<1>3. QED
  BY <1>1, <1>2, FS_Subset, FS_CardinalityType

\* What one client has observed is among what all have.
LEMMA OwnObserved ==
  ASSUME TypeOK, NEW c \in Scrapers
  PROVE  /\ Cardinality(scraped[c] \ {ZeroTime}) \in Nat
         /\ Cardinality(scraped[c] \ {ZeroTime}) <= Cardinality(Observed)
<1>1. scraped[c] \ {ZeroTime} \in SUBSET Observed
  BY DEF Observed
<1>2. QED
  BY <1>1, ObservedFinite, FS_Subset, FS_CardinalityType

\* Observing adds the attempt of the snapshot.
LEMMA ObserveStep ==
  ASSUME TypeOK, NEW c \in Scrapers, ObservePackageSnapshot(c)
  PROVE  LET a == snapshot[c].AttemptTime
         IN  /\ a \in Attempts
             /\ Observed' = Observed \cup ({a} \ {ZeroTime})
             /\ a = ZeroTime \/ a = lastObservedAttempt =>
                  UNCHANGED <<lastObservedAttempt, collectionCount>>
             /\ a # ZeroTime /\ a # lastObservedAttempt =>
                  lastObservedAttempt' = a /\ collectionCount' = collectionCount + 1
<1> DEFINE a == snapshot[c].AttemptTime
<1>1. a \in Attempts
  BY DEF TypeOK, Snapshot
<1>2. Observed' = Observed \cup ({a} \ {ZeroTime})
  <2>1. scraped' = [scraped EXCEPT ![c] = @ \cup {a}]
    BY DEF ObservePackageSnapshot, Served
  <2>2. \A d \in Scrapers : scraped'[d] = IF d = c THEN scraped[c] \cup {a} ELSE scraped[d]
    BY <2>1 DEF TypeOK
  <2>3. (UNION {scraped'[d] : d \in Scrapers}) = (UNION {scraped[d] : d \in Scrapers}) \cup {a}
    BY <2>2
  <2>4. QED
    BY <2>3 DEF Observed
<1>3. a = ZeroTime \/ a = lastObservedAttempt =>
        UNCHANGED <<lastObservedAttempt, collectionCount>>
  BY DEF ObservePackageSnapshot, AlreadyObserved, metricState
<1>4. a # ZeroTime /\ a # lastObservedAttempt =>
        lastObservedAttempt' = a /\ collectionCount' = collectionCount + 1
  BY DEF ObservePackageSnapshot, AlreadyObserved
<1>5. QED
  BY <1>1, <1>2, <1>3, <1>4

\* The other steps observe nothing.
LEMMA OtherSteps ==
  ASSUME TypeOK, [Next]_vars, ~\E c \in Scrapers : ObservePackageSnapshot(c)
  PROVE  UNCHANGED <<scraped, overtaken, lastObservedAttempt, collectionCount>>
BY EveryStep
   DEF Republish, Get, PackageCollectionObservations, LogFeatureSnapshotError,
       metricState, vars

LEMMA InitCountInv == Init => CountInv /\ ScrapedIsCounted /\ Observed = {}
<1> SUFFICES ASSUME Init PROVE CountInv /\ ScrapedIsCounted /\ Observed = {}
  OBVIOUS
<1>1. Observed = {} /\ \A c \in Scrapers : scraped[c] \ {ZeroTime} = {}
  BY DEF Init, Observed
<1>2. Cardinality({}) = 0
  BY FS_EmptySet
<1>3. CountInv
  BY <1>1, <1>2 DEF Init, CountInv
<1>4. ScrapedIsCounted
  BY <1>1, <1>2 DEF Init, ScrapedIsCounted
<1>5. QED
  BY <1>1, <1>3, <1>4

LEMMA NextCountInv ==
  ASSUME TypeOK, CountInv, [Next]_vars
  PROVE  CountInv'
<1>1. ASSUME NEW c \in Scrapers, ObservePackageSnapshot(c) PROVE CountInv'
  <2> DEFINE a == snapshot[c].AttemptTime
  <2>1. collectionCount \in Nat /\ Cardinality(Observed) \in Nat
    BY ObservedFinite DEF TypeOK
  <2>2. CASE a = ZeroTime \/ a = lastObservedAttempt
    <3>1. Observed' = Observed
      BY <1>1, <2>2, ObserveStep DEF CountInv
    <3>2. QED
      BY <1>1, <2>2, <3>1, ObserveStep DEF CountInv
  <2>3. CASE a # ZeroTime /\ a # lastObservedAttempt
    <3>1. Observed' = Observed \cup {a}
      BY <1>1, <2>3, ObserveStep
    <3>2. Cardinality(Observed \cup {a}) =
            IF a \in Observed THEN Cardinality(Observed) ELSE Cardinality(Observed) + 1
      BY ObservedFinite, FS_AddElement
    <3>3. Cardinality(Observed \cup {a}) <= collectionCount + 1
      BY <2>1, <3>2 DEF CountInv
    <3>4. QED
      BY <1>1, <2>1, <2>3, <3>1, <3>3, ObserveStep DEF CountInv
  <2>4. QED
    BY <2>2, <2>3
<1>2. CASE ~\E c \in Scrapers : ObservePackageSnapshot(c)
  BY <1>2, OtherSteps DEF CountInv, Observed
<1>3. QED
  BY <1>1, <1>2

LEMMA NextScrapedIsCounted ==
  ASSUME TypeOK, CountInv, ScrapedIsCounted, [Next]_vars
  PROVE  ScrapedIsCounted'
<1> USE DEF TypeOK, Counts, Goto
<1>1. ASSUME NEW c \in Scrapers, PackageCollectionObservations(c)
      PROVE  ScrapedIsCounted'
  <2>1. emitted'[c].collections = collectionCount
    BY <1>1 DEF PackageCollectionObservations
  <2>2. collectionCount >= Cardinality(scraped[c] \ {ZeroTime})
    BY OwnObserved, ObservedFinite DEF CountInv
  <2>3. \A d \in Scrapers \ {c} : emitted'[d] = emitted[d] /\ pc'[d] = pc[d]
    BY <1>1 DEF PackageCollectionObservations
  <2>4. scraped' = scraped
    BY <1>1 DEF PackageCollectionObservations
  <2>5. QED
    BY <2>1, <2>2, <2>3, <2>4 DEF ScrapedIsCounted
<1>2. ASSUME NEW c \in Scrapers, ObservePackageSnapshot(c) PROVE ScrapedIsCounted'
  <2>1. pc'[c] = "copy" /\ emitted' = emitted
    BY <1>2 DEF ObservePackageSnapshot
  <2>2. \A d \in Scrapers \ {c} : scraped'[d] = scraped[d] /\ pc'[d] = pc[d]
    BY <1>2 DEF ObservePackageSnapshot, Served
  <2>3. QED
    BY <2>1, <2>2 DEF ScrapedIsCounted
<1>3. ASSUME UNCHANGED <<emitted, scraped>>,
             \A c \in Scrapers : pc'[c] \in {"idle", "log"} => pc[c] \in {"idle", "log"}
      PROVE  ScrapedIsCounted'
  BY <1>3 DEF ScrapedIsCounted
<1>4. QED
  BY <1>1, <1>2, <1>3, EveryStep DEF Republish, Get, LogFeatureSnapshotError, vars

\* What a client is served is in the histogram it gets: every collection observed
\* by anybody was counted, because the attempt remembered is one of them.
THEOREM ServedCounted == Spec => []ScrapedIsCounted
<1>1. CountIInv /\ [Next]_vars => CountIInv'
  BY NextTypeOK, NextSnapshotInv, NextCountInv, NextScrapedIsCounted DEF CountIInv
<1>2. Init => CountIInv
  BY InitTypeOK, InitSnapshotInv, InitCountInv DEF CountIInv
<1>3. CountIInv => ScrapedIsCounted
  BY DEF CountIInv
<1>4. QED
  BY <1>1, <1>2, <1>3, PTL DEF Spec

LEMMA NextOrderInv ==
  ASSUME OrderIInv, [Next]_vars
  PROVE  OrderInv' /\ ServedIsCountedOnce'
<1> USE DEF OrderIInv, OrderInv, TypeOK, Snapshot, Attempts
<1>1. ASSUME NEW c \in Scrapers, ObservePackageSnapshot(c), ~overtaken'
      PROVE  OrderInv' /\ ServedIsCountedOnce'
  <2> DEFINE a == snapshot[c].AttemptTime
  <2>1. ~overtaken /\ \A d \in Scrapers :
          pc[d] = "observe" => snapshot[d].AttemptTime = a
    BY <1>1 DEF ObservePackageSnapshot, Served
  <2>2. pc[c] = "observe" /\ a \in Nat /\ lastObservedAttempt \in Nat
    BY <1>1 DEF ObservePackageSnapshot, Goto
  <2>3. lastObservedAttempt <= a /\ a <= published.AttemptTime
    BY <2>1, <2>2 DEF SnapshotInv
  <2>4. UNCHANGED <<published, snapshot>>
    BY <1>1 DEF ObservePackageSnapshot, worker
  <2>5. \A d \in Scrapers : pc'[d] = "observe" => pc[d] = "observe"
    BY <1>1 DEF ObservePackageSnapshot, Goto
  <2>6. lastObservedAttempt' = a
    <3>1. CASE a = ZeroTime \/ a = lastObservedAttempt
      BY <1>1, <2>2, <2>3, <3>1, ObserveStep DEF ZeroTime
    <3>2. CASE a # ZeroTime /\ a # lastObservedAttempt
      BY <1>1, <3>2, ObserveStep
    <3>3. QED
      BY <3>1, <3>2
  <2>7. Observed' \subseteq Observed \cup {a} /\ Observed \subseteq Nat
    BY <1>1, ObserveStep, ObservedFinite
  <2>8. OrderInv'
    BY <2>1, <2>2, <2>3, <2>4, <2>5, <2>6, <2>7
  <2>9. collectionCount' = Cardinality(Observed')
    <3>1. CASE a = ZeroTime \/ a = lastObservedAttempt
      <4>1. a \in Observed \/ a = ZeroTime
        BY <3>1 DEF CountInv
      <4>2. Observed' = Observed \cup ({a} \ {ZeroTime})
        BY <1>1, ObserveStep
      <4>3. Observed' = Observed
        BY <4>1, <4>2
      <4>4. QED
        BY <1>1, <2>1, <3>1, <4>3, ObserveStep DEF ServedIsCountedOnce, Observed
    <3>2. CASE a # ZeroTime /\ a # lastObservedAttempt
      <4>1. Observed' = Observed \cup {a} /\ a \notin Observed
        BY <1>1, <2>1, <2>2, <2>3, <2>7, <3>2, ObserveStep
      <4>2. Cardinality(Observed \cup {a}) = Cardinality(Observed) + 1
        BY <4>1, ObservedFinite, FS_AddElement
      <4>3. QED
        BY <1>1, <2>1, <3>2, <4>1, <4>2, ObserveStep DEF ServedIsCountedOnce, Observed
    <3>3. QED
      BY <3>1, <3>2
  <2>10. QED
    BY <2>8, <2>9 DEF ServedIsCountedOnce, Observed
<1>2. ASSUME NEW c \in Scrapers, ObservePackageSnapshot(c), overtaken'
      PROVE  OrderInv' /\ ServedIsCountedOnce'
  BY <1>2 DEF ServedIsCountedOnce
<1>3. CASE ~\E c \in Scrapers : ObservePackageSnapshot(c)
  <2>1. UNCHANGED <<scraped, overtaken, lastObservedAttempt, collectionCount>>
    BY <1>3, OtherSteps
  <2>2. Observed' = Observed
    BY <2>1 DEF Observed
  <2>3. /\ published.AttemptTime <= published'.AttemptTime
        /\ \A c \in Scrapers : pc'[c] = "observe" =>
             \/ pc[c] = "observe" /\ snapshot'[c] = snapshot[c]
             \/ snapshot'[c] = published
    <3>1. CASE Republish
      BY <3>1 DEF Republish
    <3>2. ASSUME NEW c \in Scrapers, Get(c) PROVE <2>3!1 /\ <2>3!2
      BY <3>2 DEF Get, worker
    <3>3. ASSUME NEW c \in Scrapers,
                 PackageCollectionObservations(c) \/ LogFeatureSnapshotError(c)
          PROVE  <2>3!1 /\ <2>3!2
      BY <3>3 DEF PackageCollectionObservations, LogFeatureSnapshotError, Goto, worker
    <3>4. CASE UNCHANGED vars
      BY <3>4 DEF vars, worker
    <3>5. QED
      BY <1>3, <3>1, <3>2, <3>3, <3>4, EveryStep
  <2>4. ASSUME ~overtaken PROVE OrderInv'
    <3>1. \A a \in Observed' : a <= lastObservedAttempt'
      BY <2>1, <2>2, <2>4
    <3>2. lastObservedAttempt' <= published'.AttemptTime
      BY <2>1, <2>3, <2>4, NextTypeOK
    <3>3. ASSUME NEW c \in Scrapers, pc'[c] = "observe"
          PROVE  lastObservedAttempt' <= snapshot'[c].AttemptTime
      BY <2>1, <2>3, <2>4, <3>3
    <3>4. QED
      BY <3>1, <3>2, <3>3
  <2>5. QED
    BY <2>1, <2>4 DEF ServedIsCountedOnce
<1>4. QED
  BY <1>1, <1>2, <1>3

\* Unless scrapes overtake each other, each refresh that is served is counted
\* exactly once: attempts are then observed in their order, and one that is not
\* the last observed is new.
THEOREM CountedOnce == Spec => []ServedIsCountedOnce
<1>1. OrderIInv /\ [Next]_vars => OrderIInv'
  BY NextTypeOK, NextSnapshotInv, NextCountInv, NextOrderInv DEF OrderIInv
<1>2. Init => OrderIInv
  <2> SUFFICES ASSUME Init PROVE OrderInv /\ ServedIsCountedOnce
    BY InitTypeOK, InitSnapshotInv, InitCountInv DEF OrderIInv
  <2>1. Observed = {} /\ Cardinality({}) = 0
    BY InitCountInv, FS_EmptySet
  <2>2. ServedIsCountedOnce
    BY <2>1 DEF Init, ServedIsCountedOnce, Observed
  <2>3. OrderInv
    BY <2>1 DEF Init, OrderInv, ZeroTime
  <2>4. QED
    BY <2>2, <2>3
<1>3. OrderIInv => ServedIsCountedOnce
  BY DEF OrderIInv
<1>4. QED
  BY <1>1, <1>2, <1>3, PTL DEF Spec
=============================================================================
