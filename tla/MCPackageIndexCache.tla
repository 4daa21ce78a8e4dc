------------------------ MODULE MCPackageIndexCache ------------------------
EXTENDS PackageIndexCache

CONSTANTS main, extra, release, c1, c2, before, after

OneIndex    == {main}
TwoIndexes  == {main, extra}
OneRelease  == {release}
NoPath      == {}
ForeignOnly == {extra}
Faulty      == {main, release, ListsDir}
FaultyRel   == {release}
One         == {c1}
Two         == {c1, c2}
NoUpgrade   == {before}
Upgrades    == {before, after}
=============================================================================
