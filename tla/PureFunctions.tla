--------------------------- MODULE PureFunctions ---------------------------
(***************************************************************************)
(* Calls of the functions that keep no state, one after the other, each    *)
(* with any of its inputs: versions, texts of the status database and of   *)
(* indexes, release files, settings.  What each call returned is compared  *)
(* with a definition that does not know how the code gets there.           *)
(***************************************************************************)
EXTENDS Integers, VersionOrder, IndexParser, ReleaseMetadata, ConfigResolution

CONSTANTS
  VersionTexts,     \* versions, as sequences of code points
  StatusTexts,      \* texts of the status database
  Inventories,      \* lists of installed packages
  StatusLists,      \* lists of installed packages, for what their status says
  IndexTexts,       \* texts of a package index
  ReleaseFiles,     \* sets of release files
  IndexNames        \* names of package indexes

\* What dpkg accepts as a version is written in ASCII.
ASSUME VersionsAssumption == VersionTexts \subseteq Seq(Runes)

\* Lines of words.  An empty line of a description is written with a dot.
ASSUME TextsAssumption ==
  \A text \in StatusTexts \cup IndexTexts :
    /\ text \in Seq([kind : Kinds, value : Seq(STRING)])
    /\ \A i \in DOMAIN text : text[i].kind = Continuation => text[i].value # <<>>

\* What dpkg writes of a package, where it writes three words.
ASSUME StatusListsAssumption ==
  \A installed \in StatusLists :
    /\ installed \in Seq([Status : Seq(STRING)])
    /\ \A i \in DOMAIN installed :
         Len(installed[i].Status) = 3 =>
           /\ installed[i].Status[2] \in {"ok", "reinstreq"}
           /\ installed[i].Status[3] \in
                {"not-installed", "config-files", "half-installed", "unpacked",
                 "half-configured", "triggers-awaited", "triggers-pending", "installed"}

\* Files of one directory: two have different names.
ASSUME ReleaseFilesAssumption ==
  \A files \in ReleaseFiles :
    /\ IsFiniteSet(files)
    /\ files \subseteq [prefix : Seq(STRING) \ {<<>>}, suffix : ReleaseSuffixes,
                        readable : BOOLEAN, NotAutomatic : BOOLEAN,
                        ButAutomaticUpgrades : BOOLEAN, namesBackports : BOOLEAN]
    /\ \A file, other \in files :
         file.prefix = other.prefix /\ file.suffix = other.suffix => file = other
ASSUME IndexNamesAssumption == IndexNames \subseteq Seq(STRING)

VARIABLE call    \* the function called last, its arguments and its result

Idle == [function |-> "none"]
Init == call = Idle

Compare ==
  /\ call = Idle
  /\ \E left, right \in VersionTexts :
       call' = [function |-> "CompareVersions", left |-> left, right |-> right,
                result |-> CompareVersions(left, right)]

ParseStatus ==
  /\ call = Idle
  /\ \E text \in StatusTexts :
       call' = [function |-> "ParseInstalledPackages", text |-> text,
                result |-> ParseInstalledPackages(text)]

CountStatus ==
  /\ call = Idle
  /\ \E installed \in StatusLists :
       call' = [function |-> "countInstalledPackages", installed |-> installed,
                result |-> [installed |-> countInstalledPackages(installed),
                            broken    |-> countBrokenPackages(installed)]]

\* Both parsers read an index for the packages that are installed.
ParseIndex ==
  /\ call = Idle
  /\ \E text \in IndexTexts, installed \in Inventories :
       LET filter == installedPackageFilter(installed)
       IN call' = [function |-> "ParseAvailablePackages", text |-> text,
                   installed |-> installed,
                   streamed |-> parseAvailablePackageReader(text, filter),
                   parsed |-> parseAvailablePackages(text, filter)]

Revise ==
  /\ call = Idle
  /\ \E installed, other \in Inventories :
       call' = [function |-> "installedPackageRevision",
                installed |-> installed, other |-> other,
                result |-> [installed |-> installedPackageRevision(installed),
                            other |-> installedPackageRevision(other)]]

\* The releases are visited in any order.
LookUpRelease ==
  /\ call = Idle
  /\ \E files \in ReleaseFiles, name \in IndexNames :
       LET releases == readReleaseMetadata(files)
       IN \E order \in SetToSeqs(DOMAIN releases) :
            call' = [function |-> "packageIndexMetadata", files |-> files, name |-> name,
                     order |-> order, result |-> IndexMetadata(name, releases, order)]

ResolveConfig ==
  /\ call = Idle
  /\ \E flags \in FlagSettings, file \in FileSettings, flagTimeout \in FlagTimeouts,
        fileTimeout \in FileTimeouts, load \in {"loaded", "missing", "broken"} :
       LET given == [s \in Settings |-> IF s = Timeout THEN flagTimeout ELSE flags[s]]
           read  == [s \in Settings |-> IF s = Timeout THEN fileTimeout ELSE file[s]]
       IN call' = [function |-> "ResolveFeatureConfig", flags |-> given, file |-> read,
                   load |-> load, result |-> ResolveFeatureConfig(given, load, read)]

Return == call # Idle /\ call' = Idle

Next ==
  \/ Compare \/ ParseStatus \/ CountStatus \/ ParseIndex
  \/ Revise \/ LookUpRelease \/ ResolveConfig
  \/ Return

Spec == Init /\ [][Next]_call

Returned(function) == call.function = function

----------------------------------------------------------------------------
(* Properties *)

\* CompareVersions agrees with the order of the Debian policy on all versions
\* whose epoch is a number that fits: so it is a total preorder, in which the best
\* candidate does not depend on the order of comparisons.
VersionsCompareAsDebian ==
  Returned("CompareVersions")
      /\ HasPolicyForm(call.left) /\ HasPolicyForm(call.right) =>
    call.result = PolicyOrder(call.left, call.right)

\* Each paragraph of the status database that names a package becomes one
\* entry with the fields of that paragraph, continuation lines included,
\* whatever precedes it, is left out of it or comes twice.
StatusIsReadByParagraphs ==
  Returned("ParseInstalledPackages") => call.result = PackagesOf(call.text)

\* A package that should be installed and of which something is on the disk is
\* either installed or broken, never both; of the others only what is held and
\* complete counts, as installed.
PresentIsCountedOnce ==
  Returned("countInstalledPackages") =>
    LET chosen(want, states) ==
          Cardinality({i \in DOMAIN call.installed :
            \E s \in states, flag \in {"ok", "reinstreq"} :
              call.installed[i].Status = <<want, flag, s>>})
        present == {"half-installed", "unpacked", "half-configured",
                    "triggers-awaited", "triggers-pending", "installed"}
    IN /\ call.result.installed + call.result.broken
            = chosen("install", present) + chosen("hold", {"installed"})
       /\ call.result.installed
            = chosen("install", {"installed"}) + chosen("hold", {"installed"})

\* The stream parser, whose fields outlive a paragraph unless they are reset,
\* returns the offers for installed packages, each from one paragraph, in
\* whatever order its fields are.
StreamSelectsOffers ==
  Returned("ParseAvailablePackages") =>
    call.streamed = OffersFor(call.text, call.installed)

\* The byte parser, which leaves paragraphs early, returns the same on texts in
\* which no paragraph names a field twice.
ParsersAgree ==
  Returned("ParseAvailablePackages") /\ WellFormed(call.text) =>
    call.parsed = call.streamed

\* Inventories with the same revision select the same packages: the revision
\* by which the collector keeps parsed packages leaves out nothing that the
\* filter looks at.
RevisionDeterminesFilter ==
  Returned("installedPackageRevision") /\ call.result.installed = call.result.other =>
    installedPackageFilter(call.installed) = installedPackageFilter(call.other)

\* An index has the priority and the backports mark of the most specific
\* release file over it, in whatever order the map is visited, and the default
\* where there is none.
MostSpecificReleaseGoverns ==
  Returned("packageIndexMetadata") =>
    LET governing == Governing(call.name, call.files)
        marked    == "backports" \in ToSet(call.name)
    IN IF governing = {}
       THEN call.result = [Priority |-> 500, Backports |-> marked]
       ELSE \E file \in governing :
              call.result = [Priority |-> Pin(file),
                             Backports |-> marked \/ file.namesBackports]

\* The path reported of a file is the one that is opened, whatever of it flags
\* and config file leave empty: the packages that report it and that open it
\* declare its default each for itself.
ReportedIsOpened ==
  Returned("ResolveFeatureConfig") =>
    LET config == call.result.config
    IN FeatureRuntimeConfigEntries(config) = Opened(config)
=============================================================================
