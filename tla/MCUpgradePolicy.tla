--------------------------- MODULE MCUpgradePolicy ---------------------------
EXTENDS UpgradePolicy

Archive(priority, security, backports) ==
  [Priority |-> priority, Security |-> security, Backports |-> backports]

\* Archives of every kind, with the priorities that releasePriority gives; the
\* first is of a source that gives none.
Kinds == {Archive(0, FALSE, FALSE), Archive(500, TRUE, FALSE),
          Archive(500, FALSE, TRUE),
          Archive(100, FALSE, FALSE), Archive(100, FALSE, TRUE),
          Archive(1, TRUE, FALSE)}
=============================================================================
