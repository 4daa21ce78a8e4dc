---------------------------- MODULE IndexParser ----------------------------
(***************************************************************************)
(* The two parsers of a package index, the parser of the status database   *)
(* and the filter that joins them, and what they should return: a          *)
(* definition by paragraphs that knows no order of reading.                *)
(*                                                                         *)
(* A text is a sequence of lines, a value a sequence of words.  A field    *)
(* that no parser looks at is a "Description".  The text of a continuation *)
(* line has no colon; \r and white space around field names are left out.  *)
(***************************************************************************)
EXTENDS Naturals, SequencesExt

Fields == {"Package", "Architecture", "Version", "Status", "Description"}
Line(kind, value) == [kind |-> kind, value |-> value]
Blank        == Line("blank", <<>>)
NoColon      == Line("no colon", <<>>)
Continuation == "continuation"
Kinds == Fields \cup {"blank", "no colon", Continuation}

\* Architecture all: of a package without the field as of one for every machine.
ArchitectureOr(words) == IF words = <<>> THEN <<"all">> ELSE words

Offer(name, arch, version) ==
  [Name |-> name, Architecture |-> arch, Version |-> version]

----------------------------------------------------------------------------
(* The status database *)

\* The lines between two blank ones, the second of which, or the end of the text,
\* is line e.
Entry(text, e) ==
  SubSeq(text, Max({k \in 1 .. e - 1 : text[k].kind = "blank"} \cup {0}) + 1, e - 1)
EndsEntry(text, e) == e = Len(text) + 1 \/ text[e].kind = "blank"

\* Mutant: a line without colon ends the field before it.
Deb822LineResetting(s, line) ==
  IF line.kind \in Fields
  THEN [fields  |-> [s.fields EXCEPT ![line.kind] = line.value], current |-> line.kind]
  ELSE IF line.kind = Continuation /\ s.current # ""
  THEN [fields  |-> [s.fields EXCEPT ![s.current] = @ \o line.value],
        current |-> s.current]
  ELSE IF line.kind = "no colon" THEN [s EXCEPT !.current = ""]
  ELSE s

Deb822Line(s, line) ==
  IF line.kind \in Fields
  THEN [fields  |-> [s.fields EXCEPT ![line.kind] = line.value], current |-> line.kind]
  ELSE IF line.kind = Continuation /\ s.current # ""
  THEN [fields  |-> [s.fields EXCEPT ![s.current] = @ \o line.value],
        current |-> s.current]
  ELSE s

parseDeb822Fields(entry) ==
  LET read[n \in 0 .. Len(entry)] ==
        IF n = 0 THEN [fields |-> [f \in Fields |-> <<>>], current |-> ""]
        ELSE Deb822Line(read[n - 1], entry[n])
  IN read[Len(entry)].fields

\* An entry without lines names no package.
ParseInstalledPackages(text) ==
  LET package(entry) ==
        LET fields == parseDeb822Fields(entry)
        IN IF fields["Package"] = <<>> THEN <<>>
           ELSE <<[Name |-> fields["Package"], Architecture |-> fields["Architecture"],
                   Version |-> fields["Version"], Status |-> fields["Status"]]>>
  IN FlattenSeq([e \in 1 .. Len(text) + 1 |->
       IF EndsEntry(text, e) THEN package(Entry(text, e)) ELSE <<>>])

isInstalledStatus(words) ==
  Len(words) = 3 /\ words[1] \in {"install", "hold"} /\ words[3] = "installed"

\* Mutant: what is installed is not excepted.
BrokenUnlessAbsent(words) ==
  Len(words) = 3 /\ words[1] = "install" /\ words[3] \notin {"not-installed", "config-files"}

isBrokenStatus(words) ==
  /\ Len(words) = 3 /\ words[1] = "install"
  /\ words[3] \notin {"not-installed", "config-files", "installed"}

countInstalledPackages(installed) ==
  Cardinality({i \in DOMAIN installed : isInstalledStatus(installed[i].Status)})
countBrokenPackages(installed) ==
  Cardinality({i \in DOMAIN installed : isBrokenStatus(installed[i].Status)})

\* The architectures in which an installed package's offers are of interest.
installedPackageFilter(installed) ==
  LET selected == {pkg \in ToSet(installed) :
                     isInstalledStatus(pkg.Status) /\ pkg.Name # <<>>}
  IN [name \in {pkg.Name : pkg \in selected} |->
        {<<"all">>} \cup {ArchitectureOr(pkg.Architecture) :
                            pkg \in {p \in selected : p.Name = name}}]

packageFilterAllowsArch(filter, name, arch) ==
  name \in DOMAIN filter /\ ArchitectureOr(arch) \in filter[name]

\* Mutant: the architecture is left out of the key.
RevisionWithoutArchitecture(installed) ==
  LET chosen  == {i \in DOMAIN installed : isInstalledStatus(installed[i].Status)}
      line(i) == <<installed[i].Name, installed[i].Version>>
  IN [l \in {line(i) : i \in chosen} |-> Cardinality({i \in chosen : line(i) = l})]

\* The sorted lines name:architecture:version, that is, how often there is each.
installedPackageRevision(installed) ==
  LET chosen  == {i \in DOMAIN installed : isInstalledStatus(installed[i].Status)}
      line(i) == <<installed[i].Name, ArchitectureOr(installed[i].Architecture),
                   installed[i].Version>>
  IN [l \in {line(i) : i \in chosen} |-> Cardinality({i \in chosen : line(i) = l})]

----------------------------------------------------------------------------
(* The package indexes *)

\* What appendAvailablePackage appends: a package or nothing.
appendAvailablePackage(pkg, filter) ==
  IF pkg.Name = <<>> \/ pkg.Version = <<>>
       \/ ~packageFilterAllowsArch(filter, pkg.Name, pkg.Architecture)
  THEN <<>>
  ELSE <<Offer(pkg.Name, ArchitectureOr(pkg.Architecture), pkg.Version)>>

NoFields == Offer(<<>>, <<>>, <<>>)

\* Mutant: the architecture stays for the next paragraph.
FlushKeepingArchitecture(s, filter) ==
  [result |-> s.result \o appendAvailablePackage(s.pkg, filter),
   pkg    |-> Offer(<<>>, s.pkg.Architecture, <<>>)]

\* The stream parser at the end of a paragraph.
flush(s, filter) ==
  [result |-> s.result \o appendAvailablePackage(s.pkg, filter), pkg |-> NoFields]

\* A field of the index into its variable; the other fields are left out.
SetField(pkg, line) ==
  Offer(IF line.kind = "Package" THEN line.value ELSE pkg.Name,
        IF line.kind = "Architecture" THEN line.value ELSE pkg.Architecture,
        IF line.kind = "Version" THEN line.value ELSE pkg.Version)

StreamLine(s, line, filter) ==
  IF line.kind = "blank" THEN flush(s, filter)
  ELSE [result |-> s.result, pkg |-> SetField(s.pkg, line)]

parseAvailablePackageReader(text, filter) ==
  LET scanned[n \in 0 .. Len(text)] ==
        IF n = 0 THEN [result |-> <<>>, pkg |-> NoFields]
        ELSE StreamLine(scanned[n - 1], text[n], filter)
  IN flush(scanned[Len(text)], filter).result

\* Mutant: name and version are taken to be enough.
EnoughWithoutArchitecture(pkg) == pkg.Name # <<>> /\ pkg.Version # <<>>

Enough(pkg) == pkg.Name # <<>> /\ pkg.Architecture # <<>> /\ pkg.Version # <<>>

\* A name or an architecture that is not installed.
Rejects(pkg, line, filter) ==
  \/ line.kind = "Package" /\ line.value \notin DOMAIN filter
  \/ /\ line.kind = "Architecture" /\ pkg.Name # <<>>
     /\ ~packageFilterAllowsArch(filter, pkg.Name, line.value)

\* The byte parser leaves a paragraph as soon as the filter rejects it or it
\* has seen all it needs, which it asks after every field.
ByteLine(s, line, filter) ==
  IF s.left \/ line.kind \notin Fields THEN s
  ELSE IF Rejects(s.pkg, line, filter) THEN [pkg |-> NoFields, left |-> TRUE]
  ELSE [pkg |-> SetField(s.pkg, line), left |-> Enough(SetField(s.pkg, line))]

parseAvailablePackageFields(entry, filter) ==
  LET read[n \in 0 .. Len(entry)] ==
        IF n = 0 THEN [pkg |-> NoFields, left |-> FALSE]
        ELSE ByteLine(read[n - 1], entry[n], filter)
  IN read[Len(entry)].pkg

parseAvailablePackages(text, filter) ==
  FlattenSeq([e \in 1 .. Len(text) + 1 |->
    IF EndsEntry(text, e)
    THEN appendAvailablePackage(parseAvailablePackageFields(Entry(text, e), filter), filter)
    ELSE <<>>])

----------------------------------------------------------------------------
(* The reference *)

\* The lines of a kind in the paragraph that ends before line e.
LinesOf(text, e, kind) ==
  {i \in 1 .. e - 1 : /\ text[i].kind = kind
                      /\ \A k \in i .. e - 1 : text[k].kind # "blank"}

\* The value of a field: that of its last line.
ValueOf(text, e, field) ==
  LET lines == LinesOf(text, e, field)
  IN IF lines = {} THEN <<>> ELSE text[Max(lines)].value

\* The same with the continuation lines up to the next field.
FoldedValueOf(text, e, field) ==
  LET follows(i) == /\ i \in LinesOf(text, e, Continuation)
                    /\ \E j \in LinesOf(text, e, field) :
                         /\ j < i /\ j = Max(LinesOf(text, e, field))
                         /\ \A k \in j + 1 .. i : text[k].kind \notin Fields
  IN ValueOf(text, e, field)
       \o FlattenSeq([i \in 1 .. e - 1 |-> IF follows(i) THEN text[i].value ELSE <<>>])

\* A paragraph names no field twice.
WellFormed(text) ==
  \A e \in 1 .. Len(text) + 1, f \in Fields :
    \A i, j \in LinesOf(text, e, f) : i = j

\* In the order of the text, what its paragraphs offer for the packages that
\* are installed: in their architecture or in architecture all.
OffersFor(text, installed) ==
  LET offer(e) == Offer(ValueOf(text, e, "Package"),
                        ArchitectureOr(ValueOf(text, e, "Architecture")),
                        ValueOf(text, e, "Version"))
      wanted(o) == \E pkg \in ToSet(installed) :
                     /\ isInstalledStatus(pkg.Status)
                     /\ pkg.Name = o.Name
                     /\ o.Architecture \in {<<"all">>, ArchitectureOr(pkg.Architecture)}
  IN FlattenSeq([e \in 1 .. Len(text) + 1 |->
       IF /\ EndsEntry(text, e)
          /\ offer(e).Name # <<>> /\ offer(e).Version # <<>> /\ wanted(offer(e))
       THEN <<offer(e)>> ELSE <<>>])

\* In the order of the text, the packages its paragraphs name.
PackagesOf(text) ==
  FlattenSeq([e \in 1 .. Len(text) + 1 |->
    IF EndsEntry(text, e) /\ FoldedValueOf(text, e, "Package") # <<>>
    THEN <<[Name         |-> FoldedValueOf(text, e, "Package"),
            Architecture |-> FoldedValueOf(text, e, "Architecture"),
            Version      |-> FoldedValueOf(text, e, "Version"),
            Status       |-> FoldedValueOf(text, e, "Status")]>>
    ELSE <<>>])
=============================================================================
