----------------------------- MODULE XlsxImport -----------------------------
(* What an import of a package promises as a whole: which parts of it are   *)
(* parsed, with what, and in which order (orcus_xlsx.cpp, opc_reader.cpp).  *)
EXTENDS OpcReader, TLC

\* The directory of the part at a path, and the one after a segment: ".."
\* takes a directory away where there is one.
Home(at) == IF at = <<>> THEN <<>> ELSE SubSeq(at, 1, Len(at) - 1)
Stepped(d, seg) == IF seg # Up THEN Append(d, seg)
                   ELSE IF d = <<>> THEN d ELSE SubSeq(d, 1, Len(d) - 1)

\* The directories on the way from d, and the last of them.
Way(d, dirs) ==
    LET w[n \in 0 .. Len(dirs)] == IF n = 0 THEN d ELSE Stepped(w[n - 1], dirs[n])
    IN  w
Led(d, dirs) == Way(d, dirs)[Len(dirs)]

\* The part a relation of the part at a path leads to, by the rules of paths.
Resolve(at, rel) == Append(Led(Home(at), rel.dirs), rel.name)

IsRelative(rel) == \A i \in DOMAIN rel.dirs : rel.dirs[i] # Slash

\* No relation is lost: when an import has ended, every part that a part with
\* relations relates to, by a type that has a handler, has been handled.
EveryRelatedPartIsHandled ==
    phase = "done" =>
        \A i \in DOMAIN log :
            log[i].type \in WithRelations =>
                \A rel \in Range(package.parts[log[i].path].rels) :
                    rel.name # Empty /\ rel.type \in HandledTypes /\ IsRelative(rel) =>
                        Resolve(log[i].path, rel) \in handled

\* A part that some other part gives data to is parsed with it: it is not
\* first reached by a relation that has none (a pivot table has one to its
\* cache), after which m_handled_parts would keep it from being read.
DataReachesItsPart ==
    phase = "done" =>
        \A i \in DOMAIN log :
            LET part == package.parts[log[i].path] IN
            log[i].type \in {"office_doc", "worksheet", "pivot_cache_def"} =>
                \A rel \in Range(part.rels) :
                    /\ DataFor(rel.rid, part.extras) = "info"
                    /\ Parses(rel.type, "info", Resolve(log[i].path, rel))
                    => \E j \in DOMAIN log :
                         log[j].path = Resolve(log[i].path, rel) /\ log[j].data = "info"

\* "shared strings get imported first, pivot caches get imported before the
\* sheets" (orcus_xlsx.cpp): none of them is parsed after a sheet.
StringsAndCachesComeFirst ==
    \A i, j \in DOMAIN log :
        /\ log[i].type = "worksheet"
        /\ log[j].type \in {"shared_strings", "pivot_cache_def"}
        => j < i

\* Whatever order the relations of a part come in, every part that is related
\* to is handled, with the data of its own relation, and the parts the sheets
\* depend on come before them.
PartsAreReadWithTheirData == EveryRelatedPartIsHandled /\ DataReachesItsPart /\ StringsAndCachesComeFirst

\* "numerical comparison of relation ID's" (orcus_xlsx.cpp): of two sheets of
\* a workbook the one whose relation has the lower number is read first.
SheetsComeByNumber ==
    \A i, j, w \in DOMAIN log :
        LET rels == package.parts[log[w].path].rels IN
        log[w].type = "office_doc" /\ log[i].type = "worksheet" /\ log[j].type = "worksheet"
        => \A r1, r2 \in Range(rels) :
             /\ r1.type = "worksheet" /\ Resolve(log[w].path, r1) = log[i].path
             /\ r2.type = "worksheet" /\ Resolve(log[w].path, r2) = log[j].path
             /\ r1.rid.number < r2.rid.number
             => i < j
----------------------------------------------------------------------------
(* The packages an import is promised something about: what the standard    *)
(* asks of them and no reader checks.                                       *)

\* The path read_part finds a part at, from the directory of the part whose
\* relation it follows: that of Resolve but where a target is absolute.
LeadsTo(at, rel) == FullPath(<<Empty>> \o Led(Home(at), rel.dirs), rel.name)

\* The relations of the package itself and of its parts, and where they lead.
RelationsOf(pkg, at) == Range(IF at = <<>> THEN pkg.root ELSE pkg.parts[at].rels)
Sources(pkg) == {<<>>} \cup DOMAIN pkg.parts
Leads(pkg) ==
    {l \in UNION {{[from |-> at, rel |-> r, to |-> LeadsTo(at, r)] :
                      r \in RelationsOf(pkg, at)} : at \in Sources(pkg)} :
        l.rel.name # Empty}
\* A part is what the relations that lead to it say.
Kinds(pkg, at) ==
    IF at = <<>> THEN {"package"} ELSE {l.rel.type : l \in {x \in Leads(pkg) : x.to = at}}

\* A relation that is followed into its part: it has a handler and the data that
\* the handler needs.
IsFollowed(pkg, l) ==
    /\ l.from # <<>> /\ l.rel.type \in HandledTypes
    /\ l.rel.type \in NeedsData => DataFor(l.rel.rid, pkg.parts[l.from].extras) = "info"

\* Some parts lead to each other in a ring: from each of them a relation is
\* followed to one of them.
LeadsBack(pkg) ==
    LET followed == {l \in Leads(pkg) : IsFollowed(pkg, l)} IN
    \E ring \in SUBSET DOMAIN pkg.parts :
        /\ ring # {}
        /\ \A p \in ring : \E l \in followed : l.from = p /\ l.to \in ring

\* "Let's not read it twice" (opc_reader.cpp): m_handled_parts, keyed by path,
\* sees to it that a part is parsed once, whatever the number of relations that
\* lead to it and whatever was refused on the way. Only a part that leads back to
\* itself is parsed again, as it is recorded too late.
EachPartIsReadOnce == LeadsBack(package) \/ NoPartIsParsedTwice

\* An import ends, by returning or by an exception. It exhausts the stack for a
\* ring of parts only; a part that leads back to itself by a relation without
\* the data its handler needs does not keep it from ending.
ImportEnds ==
    <>(phase \in {"done", "thrown"} \/ (phase = "exhausted" /\ LeadsBack(package)))

\* The handlers of these kinds of parts have data for relations.
GivesData(kind) == kind \in {"office_doc", "worksheet", "pivot_cache_def"}
\* A relation whose part is parsed with the data of another.
IsInformed(pkg, l) ==
    /\ l.from # <<>> /\ \E kind \in Kinds(pkg, l.from) : GivesData(kind)
    /\ DataFor(l.rel.rid, pkg.parts[l.from].extras) = "info"

\* Which kinds of parts a kind of part relates to.
RelatedTypes(kind) ==
    CASE kind = "package" -> {"office_doc", "other"}
      [] kind = "office_doc" -> {"worksheet", "shared_strings", "styles", "pivot_cache_def",
                                 "rev_headers", "other"}
      [] kind = "worksheet" -> {"drawing", "table", "pivot_table", "other"}
      [] kind = "pivot_table" -> {"pivot_cache_def", "other"}
      [] kind = "pivot_cache_def" -> {"pivot_cache_rec", "other"}
      [] kind = "rev_headers" -> {"rev_log", "other"}
      [] OTHER -> Types

AbsoluteTargetsAreLeaves(pkg) ==
    \A at \in Sources(pkg) : \A r \in RelationsOf(pkg, at) :
        r.type \in WithRelations => IsRelative(r)
RelationsFitTheirPart(pkg) ==
    \A l \in Leads(pkg) : \A kind \in Kinds(pkg, l.from) : l.rel.type \in RelatedTypes(kind)
PartsHaveOneKind(pkg) ==
    \A l, k \in Leads(pkg) : l.to = k.to => l.rel.type = k.rel.type
ThereIsOneWorkbook(pkg) ==
    \A l, k \in Leads(pkg) :
        l.rel.type = "office_doc" /\ k.rel.type = "office_doc" => l.to = k.to
\* Data is for relations that need it, and a part that is given data by one is
\* given it by all but those of a pivot table.
DataIsGivenToAll(pkg) ==
    /\ \A at \in DOMAIN pkg.parts : \A r \in RelationsOf(pkg, at) :
         DataFor(r.rid, pkg.parts[at].extras) = "info" =>
             r.type \in NeedsData /\ r.name # Empty /\ IsRelative(r)
    /\ \A l, k \in Leads(pkg) :
         l.to = k.to /\ IsInformed(pkg, l) =>
             IsInformed(pkg, k) \/ "pivot_table" \in Kinds(pkg, k.from)

WellFormed(pkg) ==
    /\ AbsoluteTargetsAreLeaves(pkg) /\ RelationsFitTheirPart(pkg) /\ PartsHaveOneKind(pkg)
    /\ ThereIsOneWorkbook(pkg) /\ DataIsGivenToAll(pkg)
-----------------------------------------------------------------------------
(* Packages for TLC, with every kind of part, of target and of ending.      *)

MCTexts ==
    {"", "..", "/", "_rels/", "xl", "docProps", "sheets", "caches", "tables", "drawings",
     "pivots", "rev", "workbook", "core", "strings", "styles", "rec", "headers", "log",
     "missing", "sheet", "second", "1", "2", "10"}

Rel(id, type, dirs, name) ==
    [rid |-> [prefix |-> "rId", number |-> id], type |-> type, dirs |-> dirs, name |-> name]
RRel(id, type, dirs, name) ==
    [rid |-> [prefix |-> "r", number |-> id], type |-> type, dirs |-> dirs, name |-> name]

RelatedBy(rels, extras) == [rels |-> rels, extras |-> extras, fails |-> "no"]
Leaf == RelatedBy(<<>>, <<>>)
Extras(ids, x) == [r \in {[prefix |-> "rId", number |-> n] : n \in ids} |-> x]

Root == <<Rel(1, "office_doc", <<"xl">>, "workbook"), Rel(2, "other", <<"docProps">>, "core")>>
Package(parts) == [root |-> Root, parts |-> parts, unsupported |-> {}]

\* Two sheets and a drawing they share; a pivot table whose cache the workbook
\* lists too; parts with the same name in different directories.
Workbook == RelatedBy(
    <<Rel(1, "worksheet", <<"sheets">>, "1"), Rel(10, "worksheet", <<"sheets">>, "10"),
      Rel(2, "pivot_cache_def", <<"caches">>, "1"), Rel(3, "shared_strings", <<>>, "strings"),
      Rel(4, "worksheet", <<"sheets">>, "2")>>,
    Extras({1, 2, 4, 10}, "info"))
Sheet == RelatedBy(
    <<Rel(1, "table", <<"..", "tables">>, "1"), Rel(2, "drawing", <<"..", "drawings">>, "1"),
      Rel(3, "pivot_table", <<"..", "pivots">>, "1"), Rel(4, "other", <<"..", "..">>, "")>>,
    Extras({1}, "info"))
Cache == RelatedBy(<<Rel(1, "pivot_cache_rec", <<>>, "rec")>>, Extras({1}, "info"))
Typical ==
    <<"xl", "workbook">> :> Workbook
    @@ <<"xl", "sheets", "1">> :> Sheet @@ <<"xl", "sheets", "2">> :> Leaf
    @@ <<"xl", "sheets", "10">> :> RelatedBy(<<Rel(1, "drawing", <<"..", "drawings">>, "1")>>, <<>>)
    @@ <<"xl", "strings">> :> Leaf
    @@ <<"xl", "caches", "1">> :> Cache @@ <<"xl", "caches", "rec">> :> Leaf
    @@ <<"xl", "tables", "1">> :> Leaf @@ <<"xl", "drawings", "1">> :> Leaf
    @@ <<"xl", "pivots", "1">> :>
         RelatedBy(<<Rel(1, "pivot_cache_def", <<"..", "caches">>, "1")>>, <<>>)

\* A workbook at the root, with targets that climb too far, are absolute, name
\* no file or no part; two relations to it; a sheet without an ID; revisions.
AtTheRoot ==
    <<"workbook">> :> RelatedBy(
        <<RRel(1, "worksheet", <<"..", "xl", "..", "..">>, "sheet"),
          RRel(2, "worksheet", <<>>, "second"),
          RRel(3, "rev_headers", <<"..", "rev">>, "headers"),
          RRel(4, "styles", <<"/", "xl">>, "styles")>>,
        [r \in {[prefix |-> "r", number |-> n] : n \in {1, 2}} |->
            IF r.number = 1 THEN "info" ELSE "zero"])
    @@ <<"sheet">> :> Leaf @@ <<"second">> :> Leaf
    @@ <<"rev", "headers">> :> RelatedBy(
         <<RRel(1, "rev_log", <<>>, "log"), RRel(2, "rev_log", <<"/", "rev">>, "log"),
           RRel(3, "rev_log", <<>>, "missing")>>, <<>>)
    @@ <<"rev", "log">> :> Leaf
RootPackage == [root |-> <<RRel(1, "office_doc", <<"..">>, "workbook"),
                           RRel(2, "office_doc", <<"xl", "..">>, "workbook")>>,
                parts |-> AtTheRoot, unsupported |-> {"styles"}]

\* A sheet that leads back to itself and whose pivot table does, both without
\* data, between relations that have some.
Loops ==
    <<"xl", "workbook">> :> RelatedBy(
        <<Rel(1, "worksheet", <<"sheets">>, "1"), Rel(2, "worksheet", <<"sheets">>, "2")>>,
        Extras({1, 2}, "info"))
    @@ <<"xl", "sheets", "1">> :> RelatedBy(
         <<Rel(1, "table", <<"..", "tables">>, "1"), Rel(2, "worksheet", <<>>, "1"),
           Rel(3, "pivot_table", <<"..", "pivots">>, "1")>>,
         Extras({1}, "info"))
    @@ <<"xl", "sheets", "2">> :> Leaf @@ <<"xl", "tables", "1">> :> Leaf
    @@ <<"xl", "pivots", "1">> :>
         RelatedBy(<<Rel(1, "worksheet", <<"..", "sheets">>, "1")>>, <<>>)

\* Two pivot tables that lead to each other, which need no data.
Ring ==
    <<"xl", "workbook">> :> RelatedBy(<<Rel(1, "worksheet", <<"sheets">>, "1")>>, Extras({1}, "info"))
    @@ <<"xl", "sheets", "1">> :> RelatedBy(<<Rel(1, "pivot_table", <<"..", "pivots">>, "1")>>, <<>>)
    @@ <<"xl", "pivots", "1">> :> RelatedBy(<<Rel(1, "pivot_table", <<>>, "2")>>, <<>>)
    @@ <<"xl", "pivots", "2">> :> RelatedBy(<<Rel(1, "pivot_table", <<>>, "1")>>, <<>>)

Failing(path, what) == [Typical EXCEPT ![path].fails = what]

MCPackages ==
    {Package(Typical), RootPackage, Package(Loops), Package(Ring),
     [Package(Typical) EXCEPT !.unsupported = {"pivot_cache_def", "table"}],
     Package(Failing(<<"xl", "sheets", "10">>, "part")),
     Package(Failing(<<"xl", "pivots", "1">>, "rels"))}
=============================================================================
