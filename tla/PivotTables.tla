----------------------------- MODULE PivotTables -----------------------------
(***************************************************************************)
(* The pivot caches and pivot tables of an XLSX file: the parts with the   *)
(* definition of a cache, with its records and with a table are read one   *)
(* after another into the same import objects of the document's factory.   *)
(***************************************************************************)
EXTENDS Integers, Sequences, FiniteSets, TLC

CONSTANTS PivotIds,          \* ids of caches
          CacheSources,      \* cacheSource: [type, name, ref], a part None when it is not there
          SharedItems,       \* items of a field: [kind, val, unused]
          RecordValues,      \* values of a record: [kind, val]
          GroupBases,        \* base of a fieldGroup, -1 without one
          Sections,          \* sections of a table that are read
          EntryAttrs,        \* of each section, the attributes of its entries
          PartAttrs,         \* of each section, those of an entry's own elements
          MaxPivotElements   \* bound on the elements of a file, for caches and for tables

VARIABLES pivots,            \* pivot_collection of the document
          cxt,               \* members of the contexts and of the import objects
          file               \* elements read so far: [e, a, in]

vars == <<pivots, cxt, file>>

None == << >>
NoBase == -1
-----------------------------------------------------------------------------
(* pivot_collection: caches by id, and where the caches of each source are. *)
NewPivots == [caches |-> << >>, at |-> << >>, tables |-> << >>]
HasCache(id) == id \in DOMAIN pivots.caches
InsertCache(col, id, fields, key) ==
    [col EXCEPT !.caches = @ @@ (id :> [fields |-> fields, records |-> << >>]),
                !.at = (key :> (IF key \in DOMAIN @ THEN @[key] ELSE {}) \cup {id}) @@ @]
InsertRecords(col, id, records) == [col EXCEPT !.caches[id].records = records]
InsertPivotTable(col, t) == [col EXCEPT !.tables = Append(@, t)]

(* Fields and groups of a cache; a table with the seven lists it has.      *)
NoGroup == [base |-> NoBase, links |-> << >>, items |-> << >>, range |-> None]
NewField == [name |-> None, items |-> << >>, group |-> NoGroup]
AllSections == {"pivotFields", "rowFields", "colFields", "pageFields", "dataFields", "rowItems", "colItems"}
NewPivotTable == [cache |-> 0] @@ [s \in AllSections |-> << >>]

(* import_pivot_cache_def, import_pivot_cache_records, import_pivot_table_def: *)
(* one of each for the document.                                           *)
NewDefinition == [id |-> 0, table |-> None, range |-> None, fields |-> << >>, field |-> NewField,
                  item |-> None, group |-> NoGroup]
NewRecords == [cache |-> 0, records |-> << >>, record |-> << >>]
ObjectOf(s) == IF s \in {"rowFields", "colFields"} THEN "rc_fields"
               ELSE IF s \in {"rowItems", "colItems"} THEN "rc_items" ELSE s
NewList == [to |-> "none", list |-> << >>, entry |-> None]
NewTableDef == [table |-> NewPivotTable, lists |-> [o \in {ObjectOf(s) : s \in AllSections} |-> NewList]]

(* create_cache() leaves the sources of the cache before this one.         *)
CreateCache(d, id) == [d EXCEPT !.id = id]
SetTableSource(d, name) == [d EXCEPT !.table = name]
SetRangeSource(d, ref) == [d EXCEPT !.range = ref]
SourceKey(d) == IF d.table # None THEN [table |-> d.table] ELSE [range |-> d.range]
CommitItem(d) == [d EXCEPT !.field.items = Append(@, d.item), !.item = None]
CommitKeepingField(d) == [d EXCEPT !.fields = Append(@, d.field), !.field.items = << >>]
CommitField(d) == [d EXCEPT !.fields = Append(@, d.field), !.field = NewField]
StartGroup(d, base) == [d EXCEPT !.group = [NoGroup EXCEPT !.base = base]]
CommitGroupItem(d) == [d EXCEPT !.group.items = Append(@, d.item), !.item = None]
CommitGroup(d) == [d EXCEPT !.field.group = d.group]
-----------------------------------------------------------------------------
Init == /\ pivots = NewPivots
        /\ cxt = [phase |-> "file", open |-> << >>, type |-> "unknown", grouped |-> FALSE, used |-> TRUE,
                  def |-> NewDefinition, recs |-> NewRecords, tdef |-> NewTableDef]
        /\ file = << >>

Innermost == IF cxt.open = << >> THEN 0 ELSE cxt.open[Len(cxt.open)]
Open == IF Innermost = 0 THEN "none" ELSE file[Innermost].e
Parts(kinds) == Cardinality({k \in DOMAIN file : file[k].e \in kinds})
Kind(e) == IF e \in {"table", "section", "entry", "part"} THEN "tables" ELSE "caches"
Reads(e, parents) ==
    /\ cxt.phase = "file" /\ Open \in parents
    /\ Len(file) < MaxPivotElements[Kind(e)]
    /\ \A k \in DOMAIN file : Kind(file[k].e) = Kind(e)
Says(e, a) == file' = Append(file, [e |-> e, a |-> a, in |-> Innermost])
Opens(c) == [c EXCEPT !.open = Append(@, Len(file) + 1)]
Closes(c) == [c EXCEPT !.open = SubSeq(@, 1, Len(@) - 1)]
Ends(e) == cxt.phase = "file" /\ Open = e /\ UNCHANGED file
Fails == cxt' = [cxt EXCEPT !.phase = "failed"]
-----------------------------------------------------------------------------
(* xlsx_pivot_cache_def_context, a new one for each part.                  *)
StartCache(id) ==
    /\ Reads("cache", {"none"})
    /\ cxt' = [Opens(cxt) EXCEPT !.type = "unknown", !.grouped = FALSE, !.def = CreateCache(@, id)]
    /\ Says("cache", id)
    /\ UNCHANGED pivots
(* The cells of another source than a worksheet end the import; a source   *)
(* may come without any.                                                   *)
CacheSource(a) ==
    /\ Reads("source", {"cache"})
    /\ IF a.name = None /\ a.ref = None THEN cxt' = [cxt EXCEPT !.type = a.type]
       ELSE IF a.type # "worksheet" THEN Fails
       ELSE cxt' = [cxt EXCEPT !.type = a.type,
                               !.def = IF a.name # None THEN SetTableSource(@, a.name) ELSE SetRangeSource(@, a.ref)]
    /\ Says("source", a)
    /\ UNCHANGED pivots
StartCacheField(name) ==
    /\ Reads("field", {"cache"})
    /\ cxt' = [Opens(cxt) EXCEPT !.def.field.name = name]
    /\ Says("field", name)
    /\ UNCHANGED pivots
(* An item of a field: a boolean and a missing one are not known, and one  *)
(* said not to be in use is left out, except for a string.                 *)
ItemKinds == {"s", "n", "d", "e"}
SharedItem(a) ==
    /\ Reads("item", {"field"})
    /\ LET used == a.kind = "s" \/ ~a.unused
       IN  cxt' = IF a.kind \notin ItemKinds THEN cxt
                  ELSE [cxt EXCEPT !.used = used,
                                   !.def = IF used THEN CommitItem([@ EXCEPT !.item = [kind |-> a.kind, val |-> a.val]]) ELSE @]
    /\ Says("item", a)
    /\ UNCHANGED pivots
StartFieldGroup(base) ==
    /\ Reads("group", {"field"})
    /\ ~\E k \in DOMAIN file : file[k].e = "group" /\ file[k].in = Innermost
    /\ cxt' = IF base = NoBase THEN Opens(cxt) ELSE [Opens(cxt) EXCEPT !.grouped = TRUE, !.def = StartGroup(@, base)]
    /\ Says("group", base)
    /\ UNCHANGED pivots
(* x in discretePr, s in groupItems, and rangePr.                          *)
GroupLink(index) ==
    /\ Reads("link", {"group"})
    /\ IF index < 0 THEN Fails
       ELSE cxt' = IF cxt.grouped THEN [cxt EXCEPT !.def.group.links = Append(@, index)] ELSE cxt
    /\ Says("link", index)
    /\ UNCHANGED pivots
GroupItem(val) ==
    /\ Reads("groupItem", {"group"})
    /\ cxt' = IF ~cxt.grouped THEN [cxt EXCEPT !.used = TRUE]
              ELSE [cxt EXCEPT !.used = TRUE, !.def = CommitGroupItem([@ EXCEPT !.item = [kind |-> "s", val |-> val]])]
    /\ Says("groupItem", val)
    /\ UNCHANGED pivots
GroupRange(range) ==
    /\ Reads("range", {"group"})
    /\ cxt' = IF cxt.grouped THEN [cxt EXCEPT !.def.group.range = range] ELSE cxt
    /\ Says("range", range)
    /\ UNCHANGED pivots
EndFieldGroup ==
    /\ Ends("group")
    /\ cxt' = IF cxt.grouped THEN [Closes(cxt) EXCEPT !.def = CommitGroup(@)] ELSE Closes(cxt)
    /\ UNCHANGED pivots
EndCacheField ==
    /\ Ends("field")
    /\ cxt' = [Closes(cxt) EXCEPT !.def = CommitField(@), !.grouped = FALSE]
    /\ UNCHANGED pivots
(* A second cache with an id ends the import.                              *)
EndCache ==
    /\ Ends("cache")
    /\ LET d == cxt.def IN
       IF HasCache(d.id) THEN Fails /\ UNCHANGED pivots
       ELSE /\ pivots' = InsertCache(pivots, d.id, d.fields, SourceKey(d))
            /\ cxt' = [Closes(cxt) EXCEPT !.def.fields = << >>]
-----------------------------------------------------------------------------
(* xlsx_pivot_cache_rec_context: the part follows the one of its cache.    *)
LastPart == LET tops == {k \in DOMAIN file : file[k].in = 0} IN IF tops = {} THEN 0 ELSE CHOOSE k \in tops : \A j \in tops : j <= k
StartRecords ==
    /\ Reads("records", {"none"})
    /\ LastPart # 0 /\ file[LastPart].e = "cache" /\ HasCache(file[LastPart].a)
    /\ cxt' = [Opens(cxt) EXCEPT !.recs.cache = file[LastPart].a]
    /\ Says("records", file[LastPart].a)
    /\ UNCHANGED pivots
StartRecord ==
    /\ Reads("record", {"records"})
    /\ cxt' = Opens(cxt)
    /\ Says("record", None)
    /\ UNCHANGED pivots
(* Numbers, texts and indices of items are read; errors, booleans, dates   *)
(* and missing values leave the record one shorter.                        *)
RecordKinds == {"n", "s", "x"}
RecordValue(a) ==
    /\ Reads("value", {"record"})
    /\ cxt' = IF a.kind \in RecordKinds THEN [cxt EXCEPT !.recs.record = Append(@, a)] ELSE cxt
    /\ Says("value", a)
    /\ UNCHANGED pivots
EndRecord ==
    /\ Ends("record")
    /\ cxt' = [Closes(cxt) EXCEPT !.recs.records = Append(@, cxt.recs.record), !.recs.record = << >>]
    /\ UNCHANGED pivots
EndRecords ==
    /\ Ends("records")
    /\ pivots' = InsertRecords(pivots, cxt.recs.cache, cxt.recs.records)
    /\ cxt' = [Closes(cxt) EXCEPT !.recs.records = << >>]
-----------------------------------------------------------------------------
(* xlsx_pivot_table_context; without a cacheId the id is whatever was in   *)
(* the memory of the new table.                                            *)
ResetTable(t) == [t EXCEPT !.table = NewPivotTable]
StartPivotTable(id) ==
    /\ Reads("table", {"none"})
    /\ \E garbage \in (IF id = 0 THEN PivotIds ELSE {id}) :
          cxt' = [Opens(cxt) EXCEPT !.tdef = [ResetTable(@) EXCEPT !.table.cache = garbage]]
    /\ Says("table", id)
    /\ UNCHANGED pivots
StartList(o, s) == [o EXCEPT !.to = s, !.list = << >>]
StartSection(s) ==
    /\ Reads("section", {"table"})
    /\ cxt' = [Opens(cxt) EXCEPT !.tdef.lists[ObjectOf(s)] = StartList(@, s)]
    /\ Says("section", s)
    /\ UNCHANGED pivots
CommitList(t, o) == [t EXCEPT !.table[t.lists[o].to] = t.lists[o].list, !.lists[o].list = << >>]
EndSection ==
    /\ Ends("section")
    /\ cxt' = [Closes(cxt) EXCEPT !.tdef = CommitList(@, ObjectOf(file[Innermost].a))]
    /\ UNCHANGED pivots

(* The entries of a section: a field of the rows or columns is an index or *)
(* -2 for the data, an item of theirs has a repetition, a type and indices; *)
(* a data field is shown another way only when that is known.              *)
RcField(a) == IF a.x = -2 THEN [type |-> "data"] ELSE [type |-> "index", index |-> a.x]
DataField(a) == IF a.show = "unknown" THEN [a EXCEPT !.base = 0] ELSE a
EntryOf(s, a) ==
    CASE s \in {"rowFields", "colFields"} -> RcField(a)
      [] s = "dataFields" -> DataField(a)
      [] s = "pageFields" -> a
      [] s = "pivotFields" -> [axis |-> a.axis, items |-> << >>]
      [] OTHER -> [repeat |-> a.repeat, type |-> a.type, data |-> a.data, items |-> << >>]
WithParts == {"pivotFields", "rowItems", "colItems"}
Section == IF Open = "section" THEN file[Innermost].a ELSE file[file[Innermost].in].a
Known(s, a) == s \in {"rowItems", "colItems"} => a.type # "unknown"
StartEntry(a) ==
    /\ Reads("entry", {"section"})
    /\ a \in EntryAttrs[Section]
    /\ LET o == ObjectOf(Section) IN
       IF ~Known(Section, a) THEN Fails
       ELSE IF Section \in WithParts THEN cxt' = [Opens(cxt) EXCEPT !.tdef.lists[o].entry = EntryOf(Section, a)]
       ELSE cxt' = [cxt EXCEPT !.tdef.lists[o].list = Append(@, EntryOf(Section, a))]
    /\ Says("entry", a)
    /\ UNCHANGED pivots
(* An item of a field is by its index, whatever else is said, or by its    *)
(* type, and cannot be without both.                                       *)
PartOf(s, a) == IF s # "pivotFields" THEN a
                ELSE IF a.x >= 0 THEN [index |-> a.x, hidden |-> a.hidden] ELSE [type |-> a.type, hidden |-> FALSE]
EntryPart(a) ==
    /\ Reads("part", {"entry"})
    /\ a \in PartAttrs[Section]
    /\ IF Section = "pivotFields" /\ a.x < 0 /\ a.type = "none" THEN Fails
       ELSE cxt' = [cxt EXCEPT !.tdef.lists[ObjectOf(Section)].entry.items = Append(@, PartOf(Section, a))]
    /\ Says("part", a)
    /\ UNCHANGED pivots
EndEntry ==
    /\ Ends("entry")
    /\ LET o == ObjectOf(Section) IN
       cxt' = [Closes(cxt) EXCEPT !.tdef.lists[o].list = Append(@, cxt.tdef.lists[o].entry), !.tdef.lists[o].entry = None]
    /\ UNCHANGED pivots
EndPivotTable ==
    /\ Ends("table")
    /\ pivots' = InsertPivotTable(pivots, cxt.tdef.table)
    /\ cxt' = [Closes(cxt) EXCEPT !.tdef = ResetTable(@)]

Next == \/ \E id \in PivotIds : StartCache(id)
        \/ \E id \in PivotIds \cup {0} : StartPivotTable(id)
        \/ \E a \in CacheSources : CacheSource(a)
        \/ \E n \in {1} : StartCacheField(<<n>>) \/ GroupItem(n) \/ GroupRange([start |-> n])
        \/ \E a \in SharedItems : SharedItem(a)
        \/ \E base \in GroupBases : StartFieldGroup(base) \/ GroupLink(base)
        \/ \E a \in RecordValues : RecordValue(a)
        \/ EndFieldGroup \/ EndCacheField \/ EndCache \/ StartRecords \/ StartRecord \/ EndRecord \/ EndRecords
        \/ \E s \in Sections : StartSection(s)
        \/ \E a \in UNION {EntryAttrs[s] : s \in Sections} : StartEntry(a)
        \/ \E a \in UNION {PartAttrs[s] : s \in Sections} : EntryPart(a)
        \/ EndSection \/ EndEntry \/ EndPivotTable
-----------------------------------------------------------------------------
Kids(k, kinds) == SelectSeq([j \in DOMAIN file |-> j], LAMBDA j : file[j].in = k /\ file[j].e \in kinds)
Said(k, kinds) == LET kids == Kids(k, kinds) IN [i \in DOMAIN kids |-> file[kids[i]].a]
HasEnded(k) == \A i \in DOMAIN cxt.open : cxt.open[i] # k
Ended(e) == {k \in DOMAIN file : file[k].e = e /\ HasEnded(k) /\ ~(cxt.phase = "failed" /\ k = Innermost)}
LastOf(S) == CHOOSE k \in S : \A j \in S : j <= k

(* Every cache has the fields of its own part in their order, each with    *)
(* the items that are in use and the group it is given, and the records    *)
(* of the part that belongs to it, each with the values that are read; no  *)
(* part leaves a field, an item or a value to the next.                    *)
Kept(a) == a.kind \in ItemKinds /\ (a.kind = "s" \/ ~a.unused)
WantedItems(k) == LET all == SelectSeq(Said(k, {"item"}), Kept)
                  IN  [i \in DOMAIN all |-> [kind |-> all[i].kind, val |-> all[i].val]]
WantedGroup(k) ==
    LET groups == Kids(k, {"group"}) IN
    IF groups = << >> \/ file[groups[1]].a = NoBase THEN NoGroup
    ELSE LET g == groups[1]
             items == Said(g, {"groupItem"})
             ranges == Said(g, {"range"})
         IN  [base |-> file[g].a, links |-> Said(g, {"link"}),
              items |-> [i \in DOMAIN items |-> [kind |-> "s", val |-> items[i]]],
              range |-> IF ranges = << >> THEN None ELSE ranges[Len(ranges)]]
WantedFields(k) == LET kids == Kids(k, {"field"})
                   IN  [i \in DOMAIN kids |-> [name |-> file[kids[i]].a, items |-> WantedItems(kids[i]),
                                               group |-> WantedGroup(kids[i])]]
WantedRecords(k) == LET kids == Kids(k, {"record"})
                    IN  [i \in DOMAIN kids |-> SelectSeq(Said(kids[i], {"value"}), LAMBDA a : a.kind \in RecordKinds)]
CachesAreOwn ==
    /\ DOMAIN pivots.caches = {file[k].a : k \in Ended("cache")}
    /\ \A k \in Ended("cache") : pivots.caches[file[k].a].fields = WantedFields(k)
    /\ \A id \in DOMAIN pivots.caches :
          LET parts == {k \in Ended("records") : file[k].a = id} IN
          pivots.caches[id].records = IF parts = {} THEN << >> ELSE WantedRecords(LastOf(parts))

(* A cache is found at one place and nowhere else: at the table the last   *)
(* source with a name gives, or, as long as no part has named a table, at  *)
(* the range the last source gives.  This is as much as the code promises: *)
(* the place is kept from part to part, so a part that gives no cells has  *)
(* those of the part before it, and since m_src_table_name is never reset  *)
(* and goes first in commit (factory_pivot.cpp:128, 243), a range read     *)
(* after a table is lost.                                                  *)
SourcesUntil(k) == {j \in DOMAIN file : file[j].e = "source" /\ file[j].in \in {c \in Ended("cache") : c <= k}}
PlaceAfter(k) ==
    LET named == {j \in SourcesUntil(k) : file[j].a.name # None}
        ranged == {j \in SourcesUntil(k) : file[j].a.name = None /\ file[j].a.ref # None}
    IN  IF named # {} THEN [table |-> file[LastOf(named)].a.name]
        ELSE [range |-> IF ranged = {} THEN None ELSE file[LastOf(ranged)].a.ref]
CachesAreAtTheirCells ==
    \A k \in Ended("cache") :
        {place \in DOMAIN pivots.at : file[k].a \in pivots.at[place]} = {PlaceAfter(k)}

(* Every pivot table has the sections of its own part, each list in its    *)
(* place and in order, the last of a kind when there are two.              *)
WantedEntry(s, k) ==
    LET e == EntryOf(s, file[k].a)
        parts == Said(k, {"part"})
    IN  IF s \in WithParts THEN [e EXCEPT !.items = [i \in DOMAIN parts |-> PartOf(s, parts[i])]] ELSE e
WantedSection(k, s) ==
    LET all == {j \in DOMAIN file : file[j].in = k /\ file[j].e = "section" /\ file[j].a = s}
    IN  IF all = {} THEN << >>
        ELSE LET kids == Kids(LastOf(all), {"entry"}) IN [i \in DOMAIN kids |-> WantedEntry(s, kids[i])]
PivotTablesAreOwn ==
    LET parts == SelectSeq([j \in DOMAIN file |-> j], LAMBDA k : k \in Ended("table")) IN
    /\ Len(pivots.tables) = Len(parts)
    /\ \A i \in DOMAIN parts :
          /\ file[parts[i]].a # 0 => pivots.tables[i].cache = file[parts[i]].a
          /\ \A s \in AllSections : pivots.tables[i][s] = WantedSection(parts[i], s)
=============================================================================
