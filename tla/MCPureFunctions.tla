-------------------------- MODULE MCPureFunctions --------------------------
EXTENDS PureFunctions

UpTo(n, S) == UNION {[1 .. k -> S] : k \in 0 .. n}

\* "0", "9", "a", "." and "~" in every arrangement, and versions with epochs,
\* some of them no number, and revisions.
Parts == UpTo(3, {48, 57, 97, 46, 126})
Epochs    == {<<>>, <<48, 58>>, <<49, 58>>, <<49, 48, 58>>, <<97, 58>>}
Upstreams == {<<>>, <<48>>, <<49>>, <<49, 126>>, <<97>>, <<49, 45>>, <<49, 58>>,
              <<49, 46, 97>>}
Revisions == {<<>>, <<45, 48>>, <<45, 126>>, <<45, 49, 48>>}
SomeVersions == Parts \cup {e \o u \o r : e \in Epochs, u \in Upstreams, r \in Revisions}

Installed1 == <<"install", "ok", "installed">>
StatusLines == {Blank, NoColon, Line("Package", <<"p">>), Line("Package", <<>>),
                Line("Architecture", <<"amd64">>), Line("Status", Installed1),
                Line("Description", <<"d">>), Line(Continuation, <<"more">>)}
SomeStatusTexts == UpTo(4, StatusLines)

Package(name, arch, version, want, state) ==
  [Name |-> <<name>>, Architecture |-> arch, Version |-> <<version>>,
   Status |-> <<want, "ok", state>>]
Entries == {Package("p", <<"amd64">>, "1", "install", "installed"),
            Package("p", <<"i386">>, "1", "install", "installed"),
            Package("p", <<>>, "1", "hold", "installed"),
            Package("p", <<"amd64">>, "2", "deinstall", "config-files"),
            Package("q", <<"all">>, "1", "install", "installed")}
SomeInventories == UpTo(2, Entries)

\* The words dpkg writes, and statuses of two words.
Statuses == {<<want, flag, state>> :
               want \in {"unknown", "install", "hold", "deinstall", "purge"},
               flag \in {"ok", "reinstreq"},
               state \in {"not-installed", "config-files", "half-installed", "unpacked",
                          "half-configured", "triggers-awaited", "triggers-pending",
                          "installed"}}
            \cup {<<"install", "installed">>, <<>>}
SomeStatusLists == UpTo(2, {[Status |-> words] : words \in Statuses})

IndexLines == {Blank, Line("Package", <<"p">>), Line("Package", <<"q">>),
               Line("Architecture", <<"amd64">>), Line("Architecture", <<"all">>),
               Line("Version", <<"1">>), Line("Version", <<>>),
               Line(Continuation, <<"more">>)}
TwoParagraphs == {p \o <<Blank>> \o q : p, q \in [1 .. 2 -> IndexLines]}
SomeIndexTexts == UpTo(4, IndexLines) \cup TwoParagraphs

Name(n) == SubSeq(<<"host", "stable", "backports", "main", "Packages">>, 1, n)
SomeIndexNames == {Name(5), <<"host", "stable", "main", "Packages">>,
                   <<"other", "stable", "Packages">>}
OneRelease == {Release(Name(n), suffix, readable, flags[1], flags[2], named) :
                 n \in {1, 2, 3}, suffix \in ReleaseSuffixes, readable \in BOOLEAN,
                 flags \in {<<FALSE, FALSE>>, <<TRUE, FALSE>>, <<TRUE, TRUE>>},
                 named \in BOOLEAN}
FileName(file) == <<file.prefix, file.suffix>>
SomeReleaseFiles == {{}} \cup {files \in {{f, g} : f, g \in OneRelease} :
                                  \A f, g \in files : FileName(f) = FileName(g) => f = g}
=============================================================================
