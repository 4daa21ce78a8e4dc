--------------------------- MODULE RefreshHistory ---------------------------
(***************************************************************************)
(* PackageRefresh with a history of the host beside it: in which states    *)
(* the sources were while a refresh ran, and which lists came after which  *)
(* within one refresh.  The history is read by the properties alone: the   *)
(* steps are those of PackageRefresh.                                      *)
(***************************************************************************)
EXTENDS PackageRefresh

VARIABLES
  window,     \* what the host held during the refresh in progress
  followed    \* <<L, M>>: the lists were L and then M within one refresh

history == <<window, followed>>
hvars   == <<vars, history>>

NoWindow == [inventories |-> {}, listings |-> {}, markers |-> {}]

HInit == Init /\ window = NoWindow /\ followed = {}

\* A refresh sees the host as it is at each of its steps.
Watch ==
  /\ window' = IF pc' = "idle" THEN NoWindow
               ELSE [inventories |-> window.inventories \cup {status'.file},
                     listings    |-> window.listings \cup {lists'.files},
                     markers     |-> window.markers \cup {marker'}]
  /\ followed' = followed \cup (window'.listings \X {lists'.files})

HNext == Next /\ Watch

HSpec == HInit /\ [][HNext]_hvars

----------------------------------------------------------------------------
(* Properties *)

\* Data of the lists M, for the installed packages of s; release files may have
\* been passed over.
OffersOf(s, M) ==
  /\ s.UpgradeMetricsValid = (Indexes(M) # {})
  /\ \E skipped \in SUBSET ReleaseFiles : s.available = Select(M \ skipped, s.installed)

\* All data of a snapshot are of the refresh in progress.
IsWhole(snapshot) ==
  LET s == snapshot.Stats
  IN  /\ {s.installed, s.DPKGStatusLastModified} \subseteq window.inventories
      /\ \E L \in window.listings : s.APTListsLastModified = LastModified(L)
      /\ \E m \in window.markers : snapshot.RebootRequired = (m = "present")
      /\ \E pair \in followed : pair[1] \in window.listings /\ OffersOf(s, pair[2])

DataOf(snapshot) ==
  LET s == snapshot.Stats
  IN  <<s.installed, s.available, s.UpgradeMetricsValid, s.DPKGStatusLastModified,
        s.APTListsLastModified, "count" \in s.StageDurations, snapshot.RebootRequired>>

\* From the first success on everything published is of one refresh: a refresh
\* publishes inventory, times and reboot marker as the host had them while it
\* ran, and offers of lists it had then, or of lists that came after one of them
\* within a refresh; or else all data that were published before.
PublishedIsWhole ==
  [][hasSuccessful' =>
       \/ IsWhole(published')
       \/ hasSuccessful /\ DataOf(published') = DataOf(published)]_hvars

\* The data of a collection; the refinement mapping to PackageData.
Of(s) == [installed |-> s.installed, available |-> s.available,
          valid |-> s.UpgradeMetricsValid, complete |-> "count" \in s.StageDurations]
Data == INSTANCE PackageData WITH
          Broken    <- Corrupt \cup Overlong,
          inventory <- status.file,
          listing   <- lists.files,
          held      <- window.listings,
          seen      <- Of(stats),
          lastGood  <- Of(lastSnapshot.Stats),
          shown     <- Of(published.Stats)

\* What is collected, kept and published is at each step what PackageData allows:
\* what the files that are read offer, or, for lists that changed during a
\* refresh that saw them, what that refresh went on to read, then and whenever
\* these lists are back; failures and fallbacks included.
ShowsPackageData == Data!Spec
=============================================================================
