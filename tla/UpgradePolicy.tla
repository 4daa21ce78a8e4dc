---------------------------- MODULE UpgradePolicy ----------------------------
(***************************************************************************)
(* Which update of one installed package is selected, and under which      *)
(* counts the package falls: the loops of bestPolicyCandidate,             *)
(* hasPinnedUpdate and hasBackportsUpdate over the candidates that the     *)
(* indexes offer, in the order in which they were parsed.                  *)
(*                                                                         *)
(* A version is named by its rank in the order of CompareVersions.  The    *)
(* five counts call bestPolicyCandidate on the same arguments, and it is   *)
(* run once here.                                                          *)
(***************************************************************************)
EXTENDS Naturals, Sequences

CONSTANTS
  Versions,    \* ranks of the version strings that are not empty
  Archives,    \* the kinds of index: [Priority, Security, Backports]
  MaxOffers    \* bound: candidates parsed for one package

NoVersion == 0                       \* the empty string
installedPackagePriority == 100
defaultPackagePriority   == 500
forceDowngradePriority   == 1000

\* An index without a priority has the default one.
normalizedPackagePriority(priority) ==
  IF priority = 0 THEN defaultPackagePriority ELSE priority

ASSUME VersionsAssumption == Versions \subseteq Nat \ {NoVersion} /\ Versions # {}
ASSUME ArchivesAssumption ==
  Archives \subseteq [Priority : Nat, Security : BOOLEAN, Backports : BOOLEAN]
ASSUME BoundAssumption == MaxOffers \in Nat

VARIABLES
  installed,    \* the package the loops are at
  available,    \* its candidates, keyed by architecture
  pc,
  candidates,   \* the list that packageCandidates picked
  considered,   \* how far the loop of bestPolicyCandidate is
  best,         \* its result so far
  counted       \* the counts under which the package falls

vars == <<installed, available, pc, candidates, considered, best, counted>>

Architectures == {"native", "all"}
Installed == [Version : Versions \cup {NoVersion}, Architecture : Architectures,
              held : BOOLEAN]
Priorities == {normalizedPackagePriority(a.Priority) : a \in Archives}
                \cup {installedPackagePriority}
Candidate == [Version : Versions \cup {NoVersion}, Priority : Priorities,
              Security : BOOLEAN, Backports : BOOLEAN]
Counts == {"upgradable", "security upgradable", "pinned", "security pinned",
           "backports"}

\* Mutant: the installed version without the priority apt gives it.
AsCandidateUnranked(pkg) ==
  [Version |-> pkg.Version, Priority |-> 0, Security |-> FALSE, Backports |-> FALSE]

\* The installed package as the first best.
AsCandidate(pkg) ==
  [Version |-> pkg.Version, Priority |-> installedPackagePriority,
   Security |-> FALSE, Backports |-> FALSE]

NoOffers == [a \in Architectures |-> <<>>]

TypeOK ==
  /\ installed \in Installed
  /\ available \in [Architectures -> Seq(Candidate)]
  /\ pc \in {"parse", "policy", "done"}
  /\ candidates \in Seq(Candidate)
  /\ considered \in Nat
  /\ best \in Candidate
  /\ counted \subseteq Counts

Init ==
  /\ installed \in Installed
  /\ available = NoOffers
  /\ pc = "parse"
  /\ candidates = <<>>
  /\ considered = 0
  /\ best = AsCandidate(installed)
  /\ counted = {}

----------------------------------------------------------------------------
(* The candidates *)

\* An index offers a version of the package; what passes the filter has its
\* architecture, or none in particular.
Parse(arch, version, archive) ==
  /\ pc = "parse"
  /\ Len(available["native"]) + Len(available["all"]) < MaxOffers
  /\ arch \in {installed.Architecture, "all"}
  /\ available' = [available EXCEPT ![arch] =
       Append(@, [Version |-> version,
                  Priority |-> normalizedPackagePriority(archive.Priority),
                  Security |-> archive.Security, Backports |-> archive.Backports])]
  /\ UNCHANGED <<installed, pc, candidates, considered, best, counted>>

\* Candidates of architecture `all' count only where there is no native one.
packageCandidates ==
  IF available[installed.Architecture] = <<>> THEN available["all"]
                                              ELSE available[installed.Architecture]

\* Without an installed version every loop returns at once.
SkipPackage ==
  /\ pc = "parse"
  /\ installed.Version = NoVersion
  /\ pc' = "done"
  /\ UNCHANGED <<installed, available, candidates, considered, best, counted>>

BeginPolicy ==
  /\ pc = "parse"
  /\ installed.Version # NoVersion
  /\ candidates' = packageCandidates
  /\ pc' = "policy"
  /\ UNCHANGED <<installed, available, considered, best, counted>>

----------------------------------------------------------------------------
(* bestPolicyCandidate *)

\* Mutant: the version decides before the priority.
BetterByVersion(left, right) ==
  \/ left.Version > right.Version
  \/ left.Version = right.Version /\ left.Priority > right.Priority

isBetterCandidate(left, right) ==
  \/ left.Priority > right.Priority
  \/ left.Priority = right.Priority /\ left.Version > right.Version

sameCandidate(left, right) ==
  left.Priority = right.Priority /\ left.Version = right.Version

\* Lower versions are candidates only of archives that force a downgrade.
Allowed(candidate) ==
  candidate.Version >= installed.Version \/ candidate.Priority >= forceDowngradePriority

\* Mutant: a second archive with the same version is ignored.
ImprovedUnmarked(candidate) ==
  IF Allowed(candidate) /\ isBetterCandidate(candidate, best) THEN candidate ELSE best

Improved(candidate) ==
  CASE ~Allowed(candidate) -> best
    [] Allowed(candidate) /\ isBetterCandidate(candidate, best) -> candidate
    [] OTHER -> [best EXCEPT !.Security =
                     @ \/ (sameCandidate(candidate, best) /\ candidate.Security)]

\* A candidate with the priority it is compared by.
Ranked(candidate) == [candidate EXCEPT !.Priority = normalizedPackagePriority(@)]

Consider ==
  /\ pc = "policy"
  /\ considered < Len(candidates)
  /\ considered' = considered + 1
  /\ best' = Improved(Ranked(candidates[considered + 1]))
  /\ UNCHANGED <<installed, available, pc, candidates, counted>>

----------------------------------------------------------------------------
(* The counts *)

Candidates == {candidates[i] : i \in DOMAIN candidates}

\* Mutant: a held package is taken to get its selected update.
PinnedUnheld(securityOnly) ==
  \E c \in Candidates : /\ ~c.Backports
                        /\ securityOnly => c.Security
                        /\ c.Version > best.Version

hasPinnedUpdate(securityOnly) ==
  \E c \in Candidates :
    /\ ~c.Backports
    /\ securityOnly => c.Security
    /\ c.Version > (IF installed.held THEN installed.Version ELSE best.Version)

hasBackportsUpdate ==
  \E c \in Candidates : c.Backports /\ c.Version > installed.Version

isUpgradable == ~installed.held /\ best.Version > installed.Version

FallsUnder(count) ==
  CASE count = "upgradable"          -> isUpgradable
    [] count = "security upgradable" -> isUpgradable /\ best.Security
    [] count = "pinned"              -> hasPinnedUpdate(FALSE)
    [] count = "security pinned"     -> hasPinnedUpdate(TRUE)
    [] count = "backports"           -> hasBackportsUpdate

Count ==
  /\ pc = "policy"
  /\ considered = Len(candidates)
  /\ counted' = {count \in Counts : FallsUnder(count)}
  /\ pc' = "done"
  /\ UNCHANGED <<installed, available, candidates, considered, best>>

\* The counting loops go on to another package.
NextPackage ==
  /\ pc = "done"
  /\ installed' \in Installed
  /\ available' = NoOffers
  /\ pc' = "parse"
  /\ candidates' = <<>>
  /\ considered' = 0
  /\ best' = AsCandidate(installed')
  /\ counted' = {}

Next ==
  \/ \E arch \in Architectures, v \in Versions, a \in Archives : Parse(arch, v, a)
  \/ SkipPackage \/ BeginPolicy \/ Consider \/ Count \/ NextPackage

Spec == Init /\ [][Next]_vars

----------------------------------------------------------------------------
(* Properties *)

\* Properties of the candidates are of those that packageCandidates lets through.
Offers  == Candidates \cup {AsCandidate(installed)}
Decided == pc = "done" /\ installed.Version # NoVersion

\* The selection is apt's, whatever the order of the indexes: of the versions
\* that are not downgrades, the newest of those with the highest priority,
\* where the installed version counts as offered with priority 100.
SelectsAptCandidate ==
  Decided =>
    /\ \E o \in Offers : Allowed(o) /\ sameCandidate(o, best)
    /\ \A o \in Offers : Allowed(o) =>
         o.Priority <= best.Priority
           /\ (o.Priority = best.Priority => o.Version <= best.Version)

\* Security archives that offer the selected version are not ranked below the
\* archive it is selected from.
SecurityNotOutranked ==
  \A o \in Offers : o.Security /\ o.Version = best.Version => o.Priority >= best.Priority

\* The selected version is marked as a security update if and only if a security
\* archive offers it, be it parsed before or after the others.  A security
\* archive that is ranked below another with the same version is excepted: there
\* the code leaves the mark out, though the version is in a security archive.
SecurityOfSelected ==
  Decided =>
    /\ best.Security => \E o \in Offers : o.Security /\ o.Version = best.Version
    /\ SecurityNotOutranked =>
         ((\E o \in Offers : o.Security /\ o.Version = best.Version) => best.Security)

\* No newer candidate is lost between the counts and nothing is counted without
\* one: held, outranked or from backports, the package falls under some count
\* (as long as no archive forces downgrades).
EveryUpdateIsCounted ==
  Decided /\ (\A o \in Offers : o.Priority < forceDowngradePriority) =>
    ((\E c \in Candidates : c.Version > installed.Version)
       <=> counted \cap {"upgradable", "pinned", "backports"} # {})

\* Every newer version that an archive of backports offers is counted.
BackportsAreCounted ==
  Decided =>
    (("backports" \in counted) <=>
       \E arch \in Architectures : \E i \in DOMAIN available[arch] :
         available[arch][i].Backports /\ available[arch][i].Version > installed.Version)
=============================================================================
