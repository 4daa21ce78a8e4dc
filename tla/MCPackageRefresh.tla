-------------------------- MODULE MCPackageRefresh --------------------------
EXTENDS PackageRefresh

CONSTANT MaxEvents   \* bound: errors, cache hits and misses counted in all

\* Holding a package changes the status database but nothing the offers depend on.
Statuses   == {"old", "held", "new", "malformed"}
Unreadable == {"malformed"}
RevisionOf == [f \in Statuses |-> IF f = "held" THEN "old" ELSE f]

\* The second index is older than the first, as a server keeps it.
Main    == "main_Packages"
Update  == "update_Packages"
Other   == "other_Packages"     \* of packages that are not installed
Torn    == "torn_Packages"
Long    == "long_Packages"
Release == "main_Release"
Lists   == {Main, Update, Other, Torn, Long}
Releases == {Release}
Others  == {Other}
Torns   == {Torn}
Longs   == {Long}
Time    == [f \in Lists \cup Releases |->
              CASE f = Main -> 2 [] f = Update -> 1 [] OTHER -> 3]

Status(files, access) == [file : files, access : access]
Files(S)     == [files : S, access : {"ok"}, unopenable : {{}}]
Skipping(S)  == [files : S, access : {"ok"}, unopenable : {{Release}}]
Closed(S)    == [files : S, access : {"ok"}, unopenable : {{Main}}]
Gone(S)      == [files : S, access : {"missing"}, unopenable : {{}}]
Hanging(S)   == [files : S, access : {"blocked"}, unopenable : {{}}]

\* Sources that fail in every way the collection tells apart.
FailingStatus == Status({"old", "malformed"}, {"ok"}) \cup Status({"old"}, {"missing"})
FailingLists  == Files({{Main}, {Main, Long}, {Torn}}) \cup Closed({{Main}}) \cup Gone({{Main}})
FailingMarker == {"absent", "unreadable"}

\* Sources whose contents change and come back.
ChangingStatus == Status({"old", "new"}, {"ok"})
ChangingLists  == Files({{Main}}) \cup Skipping({{Main, Update, Release}}) \cup Gone({{Main}})
ChangingMarker == {"present", "absent"}

\* Sources for a host that settles.
SettlingStatus == Status({"old", "held"}, {"ok"}) \cup Status({"old"}, {"blocked"})
SettlingLists  == Files({{}, {Main}, {Other}}) \cup Skipping({{Main, Release}})
                    \cup Hanging({{Main}})
SettlingMarker == {"present", "absent"}

\* A source changes between two refreshes or just before a step that reads it:
\* at any other time the change commutes with the steps until then.
ChangesAtReads ==
  /\ status' # status => pc \in {"idle", "status", "metadata"}
  /\ lists' # lists => pc \in {"idle", "available", "parse", "unfiltered", "metadata"}
  /\ marker' # marker => pc \in {"idle", "marker"}

\* No step is taken from a state that has counted more events than the bound.
Bounded == MapThenSumSet(LAMBDA k : count[k], Counters) <= MaxEvents
=============================================================================
