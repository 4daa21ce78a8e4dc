-------------------------- MODULE ReleaseMetadata --------------------------
(***************************************************************************)
(* Which release file gives an index its priority and its backports mark:  *)
(* readReleaseMetadata, packageIndexMetadata and the functions under them. *)
(*                                                                         *)
(* A file name is the sequence of the parts between its underscores; one   *)
(* name is a prefix of another, an underscore following, if and only if    *)
(* its parts are.  A map that the code ranges over is visited in the order *)
(* of a sequence, and every order is tried.                                *)
(***************************************************************************)
EXTENDS Naturals, SequencesExt

notAutomaticPriority                     == 1
notAutomaticButAutomaticUpgradesPriority == 100
defaultPackagePriority                   == 500

\* A release file: its name without the suffix, the suffix, whether it can be
\* read, the two flags, and whether a field of it names backports.
ReleaseSuffixes == {"InRelease", "Release"}
Release(prefix, suffix, readable, notAutomatic, butAutomatic, named) ==
  [prefix |-> prefix, suffix |-> suffix, readable |-> readable,
   NotAutomatic |-> notAutomatic, ButAutomaticUpgrades |-> butAutomatic,
   namesBackports |-> named]

isBackportsValue(name) == "backports" \in ToSet(name)

releasePriority(release) ==
  CASE ~release.NotAutomatic -> defaultPackagePriority
    [] release.NotAutomatic /\ release.ButAutomaticUpgrades ->
         notAutomaticButAutomaticUpgradesPriority
    [] OTHER -> notAutomaticPriority

releaseIsBackports(release) ==
  isBackportsValue(release.prefix) \/ release.namesBackports

MetadataOf(release) ==
  [Priority |-> releasePriority(release), Backports |-> releaseIsBackports(release)]

\* The files in the order of the directory, where InRelease precedes Release:
\* of two readable ones with the same prefix the second stays in the map.
readReleaseMetadata(files) ==
  LET readable == {file \in files : file.readable}
      kept(prefix) == LET same == {file \in readable : file.prefix = prefix}
                      IN CHOOSE file \in same :
                           \A other \in same : other.suffix = "Release" => file = other
  IN [prefix \in {file.prefix : file \in readable} |-> MetadataOf(kept(prefix))]

\* Mutant: the prefix visited last wins.
VisitLast(name, releases, s, prefix) ==
  IF IsStrictPrefix(prefix, name)
  THEN [metadata |-> releases[prefix], longestPrefix |-> Len(prefix)]
  ELSE s

Visit(name, releases, s, prefix) ==
  IF IsStrictPrefix(prefix, name) /\ Len(prefix) > s.longestPrefix
  THEN [metadata |-> releases[prefix], longestPrefix |-> Len(prefix)]
  ELSE s

packageIndexMetadata(name, releases, order) ==
  LET none == [Priority |-> defaultPackagePriority, Backports |-> isBackportsValue(name)]
      visited[n \in 0 .. Len(order)] ==
        IF n = 0 THEN [metadata |-> none, longestPrefix |-> 0]
                 ELSE Visit(name, releases, visited[n - 1], order[n])
  IN visited[Len(order)].metadata

\* The parser adds what the name of the index says.
IndexMetadata(name, releases, order) ==
  LET metadata == packageIndexMetadata(name, releases, order)
  IN [Priority  |-> metadata.Priority,
      Backports |-> metadata.Backports \/ isBackportsValue(name)]

----------------------------------------------------------------------------
(* The reference *)

\* The release file that speaks of an index: the one over it with the most
\* specific name, and Release where InRelease can be read too.
Governing(name, files) ==
  LET over == {file \in files : file.readable /\ IsStrictPrefix(file.prefix, name)}
  IN {file \in over : \A other \in over :
        /\ Len(other.prefix) <= Len(file.prefix)
        /\ other.prefix = file.prefix /\ other.suffix = "Release" => other = file}

\* apt's rules for priorities: NotAutomatic archives are below everything else,
\* unless they ask for upgrades of what is installed from them.
Pin(file) ==
  CASE file.NotAutomatic /\ ~file.ButAutomaticUpgrades -> 1
    [] file.NotAutomatic /\ file.ButAutomaticUpgrades  -> 100
    [] ~file.NotAutomatic                              -> 500
=============================================================================
