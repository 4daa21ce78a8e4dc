---------------------------- MODULE PackageData ----------------------------
(***************************************************************************)
(* What the exporter promises to show of a host, whatever it keeps between *)
(* refreshes: a refresh reads the installed packages, then what the apt    *)
(* lists offer for them, and shows both together; one that fails shows the *)
(* last that did not.                                                      *)
(*                                                                         *)
(* There is no cache here, but there is what a cache may do: the offers    *)
(* are those of the lists as they are, or of lists that came after these   *)
(* within one and the same refresh, now or in the past.  So what is shown  *)
(* of lists that were not touched during any refresh that saw them is what *)
(* they offer, and lists that no refresh saw before are read anew.         *)
(* Release files may be passed over at any time.                           *)
(*                                                                         *)
(* Any read may fail and nothing is said about when a refresh ends.        *)
(***************************************************************************)
CONSTANTS
  IndexFiles, ReleaseFiles, Foreign,
  Broken,             \* the indexes that cannot be read to their end
  InstalledRevision,  \* what the offers for an inventory depend on
  NoFile

VARIABLES
  inventory,       \* the installed packages
  listing,         \* the files of the apt lists
  held,            \* the listings held in the refresh in progress
  followed,        \* <<L, M>>: some refresh that saw L saw M then
  seen,            \* data of the refresh in progress
  lastGood,        \* data of the last refresh that succeeded
  shown            \* data the scrapes are served

vars == <<inventory, listing, held, followed, seen, lastGood, shown>>

Nothing == [content |-> {}, filter |-> NoFile]
Blank   == [installed |-> NoFile, available |-> Nothing, valid |-> FALSE,
            complete |-> FALSE]

\* What the indexes read offer for an inventory; nothing if all are of other
\* packages.
Offers(files, installed) ==
  IF files \cap IndexFiles \subseteq Foreign THEN Nothing
  ELSE [content |-> files, filter |-> InstalledRevision[installed]]

Init ==
  /\ held = {} /\ followed = {}
  /\ seen = Blank /\ lastGood = Blank /\ shown = Blank

\* dpkg and apt at work.
ChangeInventory ==
  /\ inventory' # inventory
  /\ UNCHANGED <<listing, held, followed, seen, lastGood, shown>>

Meet(now) ==
  /\ held' = now
  /\ followed' = followed \cup (now \X {listing'})

ChangeListing ==
  /\ listing' # listing
  /\ Meet(IF held = {} THEN {} ELSE held \cup {listing'})
  /\ UNCHANGED <<inventory, seen, lastGood, shown>>

Begin ==
  /\ held = {}
  /\ Meet({listing})
  /\ UNCHANGED <<inventory, listing, seen, lastGood, shown>>

ReadInventory ==
  /\ held # {} /\ seen.installed = NoFile
  /\ seen' = [seen EXCEPT !.installed = inventory]
  /\ UNCHANGED <<inventory, listing, held, followed, lastGood, shown>>

\* Without indexes the upgrade counts are not valid.
ReadOffers ==
  /\ seen.installed # NoFile /\ ~seen.complete
  /\ \E pair \in followed, skipped \in SUBSET ReleaseFiles :
       /\ pair[1] = listing
       /\ pair[2] \cap Broken = {}
       /\ seen' = [installed |-> seen.installed,
                   available |-> Offers(pair[2] \ skipped, seen.installed),
                   valid     |-> pair[2] \cap IndexFiles # {},
                   complete  |-> TRUE]
  /\ UNCHANGED <<inventory, listing, held, followed, lastGood, shown>>

End == held # {} /\ held' = {} /\ seen' = Blank /\ UNCHANGED <<inventory, listing, followed>>

Succeed ==
  /\ seen.complete
  /\ lastGood' = seen /\ shown' = seen
  /\ End

\* Before the first success a failure shows what it has seen.
Fail ==
  /\ shown' = IF lastGood.complete THEN lastGood ELSE seen
  /\ End
  /\ UNCHANGED lastGood

Next ==
  \/ ChangeInventory \/ ChangeListing
  \/ Begin \/ ReadInventory \/ ReadOffers \/ Succeed \/ Fail

Spec == Init /\ [][Next]_vars
=============================================================================
