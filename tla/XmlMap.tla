------------------------------- MODULE XmlMap -------------------------------
(***************************************************************************)
(* orcus_xml: a map links paths of an XML document to cells and to the     *)
(* fields of ranges; read_stream() puts what it finds there into the       *)
(* sheet, and write() puts the cells back into the source stream.  An      *)
(* element of xml_map_tree is its path.  There is one sheet, and names     *)
(* have no namespace.                                                      *)
(***************************************************************************)
EXTENDS Integers, FiniteSets, SequencesExt

CONSTANTS Maps,         \* sequences of the calls that define a map
          Attributes,   \* names of attributes
          Opens,        \* [parent, name, attrs]: elements a stream may have
          Leaves,       \* [parent, name, attrs, texts]: those without children; a comment parts a text
          MaxParts,     \* bound on the parts the stream is made of
          MaxDepth      \* bound on its nesting

VARIABLES doc,          \* the sheet: a function of row and column
          cxt,          \* xml_map_tree, xml_data_sax_handler, orcus_xml::impl
          file          \* the stream: what the parser reports, at its position

(* The sheet of a mapped import, as a function of row and column.          *)
None == << >>
Empty == << >>                                    \* an empty text, and an empty function

SetAuto(cells, pos, v) == IF v = Empty THEN cells ELSE (pos :> v) @@ cells
Shown(cells, pos) == IF pos \in DOMAIN cells THEN cells[pos] ELSE Empty

FillDown(cells, row, col, n) ==
    LET below == {<<r, col>> : r \in row + 1..row + n} IN
    [p \in (DOMAIN cells \ below) \cup (IF <<row, col>> \in DOMAIN cells THEN below ELSE {}) |->
        IF p \in below THEN cells[<<row, col>>] ELSE cells[p]]

vars == <<doc, cxt, file>>

Without(path, n) == SubSeq(path, 1, Len(path) - n)
IsAttribute(path) == Last(path) \in Attributes

Node(linked, ref) == [linked |-> linked, freed |-> FALSE, ref |-> ref, pos |-> None, col |-> 0, label |-> Empty,
                      parent |-> None, group |-> None, group_pos |-> 0, fields |-> << >>]
EmptyTree == [nodes |-> Empty, order |-> << >>, ranges |-> Empty, cur |-> None, pending |-> << >>, error |-> ""]
Reader == [stack |-> << >>, unlinked |-> 0, chars |-> Empty, in_range |-> FALSE, increment |-> None, links |-> << >>]

Init == /\ doc = Empty /\ file = << >>
        /\ \E map \in Maps :
            cxt = [phase |-> "map", tree |-> EmptyTree, handler |-> Reader, calls |-> map, open |-> << >>, parts |-> 0]
-----------------------------------------------------------------------------
(* xml_map_tree.  A node whose parent has become a link is not found.      *)
Fail(t, why) == [t EXCEPT !.error = why]
Exists(t, path) == path \in DOMAIN t.nodes
Create(t, path, node) == [t EXCEPT !.nodes = (path :> node) @@ @, !.order = Append(@, path)]

(* The elements on the way to a node; a link has no place for children.    *)
RECURSIVE GetOrCreate(_, _, _)
GetOrCreate(t, path, n) ==
    LET here == SubSeq(path, 1, n) IN
    CASE n > Len(path) \/ t.error # "" -> t
      [] n = 1 /\ t.order # << >> /\ ~Exists(t, here) -> Fail(t, "xpath_error")
      [] n > 1 /\ t.error = "" /\ IsAttribute(here) -> Fail(t, "xpath_error")
      [] n > 1 /\ t.error = "" /\ t.nodes[Without(here, 1)].linked -> Fail(t, "undefined")
      [] OTHER -> GetOrCreate(IF Exists(t, here) THEN t ELSE Create(t, here, Node(FALSE, "unknown")), path, n + 1)

LinkReference(t, path, ref, parent) ==
    CASE IsAttribute(path) /\ Exists(t, path) -> Fail(t, "xpath_error")
      [] ~IsAttribute(path) /\ parent.linked -> Fail(t, IF parent.freed THEN "undefined" ELSE "invalid_map_error")
      [] ~IsAttribute(path) /\ ~parent.linked /\ Exists(t, path) ->
            IF t.nodes[path].linked THEN Fail(t, "xpath_error")
            ELSE [t EXCEPT !.nodes[path].linked = TRUE, !.nodes[path].freed = TRUE, !.nodes[path].ref = ref]
      [] OTHER -> Create(t, path, Node(TRUE, ref))
LinkFrom(t, path, ref) == IF t.error # "" THEN t ELSE LinkReference(t, path, ref, t.nodes[Without(path, 1)])
GetLinkedNode(t, path, ref) ==
    LinkFrom(GetOrCreate(t, Without(path, 1), 1), path, ref)

ElemStack(path) == IF IsAttribute(path) THEN Without(path, 1) ELSE path
GroupsOn(t, path) == {n \in 1..Len(path) : t.nodes[SubSeq(path, 1, n)].group # None}
CommonPrefix(a, b) ==
    LET differ == {n \in 1..Len(a) : n <= Len(b) /\ a[n] # b[n]} IN
    IF differ = {} THEN b ELSE SubSeq(a, 1, Min(differ) - 1)

(* The parent of the range is found as its fields come.                    *)
Registered(t, link, range, col) ==
    [t EXCEPT !.nodes[link.path].pos = range, !.nodes[link.path].col = col, !.nodes[link.path].label = link.label,
              !.ranges[range].fields = Append(@, link.path)]
Grouped(t, stack, groups, col) ==
    IF groups \ {1} = {} THEN t ELSE [t EXCEPT !.nodes[SubSeq(stack, 1, Max(groups))].fields = Append(@, col)]
WithParent(s, t, stack, groups) ==
    CASE s.parent # << >> -> [t |-> t, parent |-> CommonPrefix(stack, s.parent)]
      [] s.parent = << >> /\ groups = {} -> [s EXCEPT !.t = Fail(t, "undefined")]
      [] OTHER -> [t |-> t, parent |-> SubSeq(stack, 1, Max(groups) - 1)]
Inserted(s, t, link, stack, groups, col) ==
    WithParent(s, Grouped(Registered(t, link, s.t.cur, col), stack, groups, col), stack, groups)
PlaceField(s, t, link, stack) ==
    CASE t.error # "" -> [s EXCEPT !.t = t]
      [] t.error = "" /\ Len(stack) < 2 -> [s EXCEPT !.t = Fail(t, "xpath_error")]
      [] OTHER -> Inserted(s, t, link, stack, GroupsOn(t, stack), Len(t.ranges[s.t.cur].fields))
InsertField(s, link) ==
    IF s.t.error # "" THEN s ELSE PlaceField(s, GetLinkedNode(s.t, link.path, "field"), link, ElemStack(link.path))

GetRange(t, pos) == IF pos \in DOMAIN t.ranges THEN t
                    ELSE [t EXCEPT !.ranges = (pos :> [fields |-> << >>, row |-> 0]) @@ @]

Committed(s, range) ==
    CASE s.t.error # "" -> s.t
      [] s.t.error = "" /\ s.parent = << >> -> Fail(s.t, "undefined")
      [] OTHER -> [s.t EXCEPT !.nodes[s.parent].parent = range, !.cur = None]
CommitRange(t) ==
    IF t.pending = << >> THEN t
    ELSE Committed(FoldLeft(InsertField, [t |-> GetRange(t, t.cur), parent |-> << >>], t.pending), t.cur)

Call(t, call) ==
    CASE call.op = "cell" ->
            LET u == GetLinkedNode(t, call.path, "cell") IN
            IF u.error # "" THEN u ELSE [u EXCEPT !.nodes[call.path].pos = call.pos]
      [] call.op = "range" -> [t EXCEPT !.cur = call.pos, !.pending = << >>]
      [] call.op = "field" -> [t EXCEPT !.pending = Append(@, call)]
      [] call.op = "row-group" ->
            LET u == GetOrCreate(GetRange(t, t.cur), call.path, 1) IN
            IF u.error # "" THEN u ELSE [u EXCEPT !.nodes[call.path].group = t.cur]
      [] call.op = "commit" -> CommitRange(t)
-----------------------------------------------------------------------------
(* xml_data_sax_handler: s is the sheet, the tree and the handler.         *)
CellOf(t, node) == IF node.ref = "cell" THEN node.pos
                   ELSE <<node.pos[1] + t.ranges[node.pos].row, node.pos[2] + node.col>>
SetLink(s, path, v) ==
    LET node == s.t.nodes[path] IN
    IF node.ref = "unknown" THEN s ELSE [s EXCEPT !.doc = SetAuto(@, CellOf(s.t, node), v)]

Current(h) == IF h.unlinked > 0 \/ h.stack = << >> THEN << >> ELSE Last(h.stack).path
PushElement(s, name, at) ==
    LET h == s.h
        path == IF h.stack = << >> THEN <<name>> ELSE Append(Last(h.stack).path, name)
        known == /\ h.unlinked = 0 /\ Exists(s.t, path)
                 /\ h.stack # << >> => ~s.t.nodes[Last(h.stack).path].linked
    IN  IF known THEN [s EXCEPT !.h.stack = Append(@, [path |-> path, at |-> at]), !.h.chars = Empty]
        ELSE [s EXCEPT !.h.unlinked = @ + 1, !.h.chars = Empty]
PopElement(s) == IF s.h.unlinked > 0 THEN [s EXCEPT !.h.unlinked = @ - 1]
                 ELSE [s EXCEPT !.h.stack = Front(@)]

NextRow(s, group) ==
    IF group # None /\ s.h.increment = group THEN [s EXCEPT !.t.ranges[group].row = @ + 1, !.h.increment = None] ELSE s
SetAttributes(s, path, attrs) ==
    FoldLeft(LAMBDA r, a : SetLink(r, Append(path, a), attrs[a]), s,
             SetToSeq({a \in DOMAIN attrs : Exists(s.t, Append(path, a))}))
Enter(s, path, ev) ==
    IF path = << >> THEN s
    ELSE [SetAttributes(NextRow(s, s.t.nodes[path].group), path, ev.attrs)
            EXCEPT !.h.in_range = @ \/ s.t.nodes[path].parent # None]
StartElement(s, ev, at) == LET u == PushElement(s, ev.name, at) IN Enter(u, Current(u.h), ev)

UnlinkedAnchor(t, path) ==
    ~t.nodes[path].linked /\ \E a \in Attributes : Exists(t, Append(path, a))

(* The last value of a group's own fields fills the rows of its records.   *)
FillGroup(s, node, range, to) ==
    IF to <= node.group_pos THEN s.doc
    ELSE FoldLeft(LAMBDA c, col : FillDown(c, range[1] + node.group_pos + 1, range[2] + col, to - node.group_pos),
                  s.doc, node.fields)
EndGroup(s, path, node) ==
    IF node.group = None THEN s
    ELSE [s EXCEPT !.doc = FillGroup(s, node, node.group, s.t.ranges[node.group].row - 1),
                   !.t.nodes[path].group_pos = s.t.ranges[node.group].row, !.h.increment = node.group]

(* Where an element is in the stream is kept if something is linked to it. *)
KeptLinks(s, path, node, at) ==
    IF node.ref = "cell" \/ node.parent # None \/ (~s.h.in_range /\ UnlinkedAnchor(s.t, path))
    THEN Append(s.h.links, [path |-> path, open |-> Last(s.h.stack).at, close |-> at]) ELSE s.h.links
Leave(s, path, node, at) ==
    [EndGroup(SetLink(s, path, s.h.chars), path, node)
        EXCEPT !.h.links = KeptLinks(s, path, node, at), !.h.in_range = @ /\ node.parent = None]
EndElement(s, at) ==
    LET path == Current(s.h) IN
    PopElement(IF path = << >> THEN s ELSE Leave(s, path, s.t.nodes[path], at))

Event(s, ev, at) ==
    CASE ev.e = "start" -> StartElement(s, ev, at)
      [] ev.e = "end" -> EndElement(s, at)
      [] ev.e = "empty" -> EndElement(StartElement(s, ev, at), at)
      [] ev.e = "text" -> IF Current(s.h) = << >> THEN s ELSE [s EXCEPT !.h.chars = ev.text]

(* read_stream() writes the labels of the ranges first.                    *)
Labels(t) == LET headers == UNION {{<<pos, k>> : k \in DOMAIN t.ranges[pos].fields} : pos \in DOMAIN t.ranges}
                 Text(h) == LET f == t.ranges[h[1]].fields[h[2]] IN
                            IF t.nodes[f].label = Empty THEN <<Last(f)>> ELSE t.nodes[f].label
             IN  [p \in {<<h[1][1], h[1][2] + h[2] - 1>> : h \in headers} |->
                    Text(CHOOSE h \in headers : p = <<h[1][1], h[1][2] + h[2] - 1>>)]
Reset(t) == [t EXCEPT !.ranges = [pos \in DOMAIN @ |-> [@[pos] EXCEPT !.row = 1]]]
Start(t) == [doc |-> Labels(t), t |-> Reset(t), h |-> Reader]

RECURSIVE Events(_, _, _)
Events(s, evs, k) == IF k > Len(evs) THEN s ELSE Events(Event(s, evs[k], k), evs, k + 1)
-----------------------------------------------------------------------------
(* write(): the source stream with the linked parts taken from the sheet.  *)
StartOf(name, attrs) == [e |-> "start", name |-> name, attrs |-> attrs, text |-> Empty]
EndOf(name) == [e |-> "end", name |-> name, attrs |-> Empty, text |-> Empty]
TextOf(v) == [e |-> "text", name |-> None, attrs |-> Empty, text |-> v]
AttributesOf(t, path, ref) == {a \in Attributes : Exists(t, Append(path, a)) /\ t.nodes[Append(path, a)].ref = ref}
PlaceOf(node, row) == IF node.ref = "cell" THEN node.pos ELSE <<node.pos[1] + 1 + row, node.pos[2] + node.col>>
WriteOpening(t, path, cells, ref, row) ==
    StartOf(Last(path), [a \in AttributesOf(t, path, ref) |-> Shown(cells, PlaceOf(t.nodes[Append(path, a)], row))])

RECURSIVE WriteElement(_, _, _, _)
WriteElement(t, path, cells, row) ==
    LET node == t.nodes[path]
        children == IF node.linked THEN << >>
                    ELSE SelectSeq(t.order, LAMBDA p : Without(p, 1) = path /\ ~IsAttribute(p)
                                                       /\ (t.nodes[p].linked => t.nodes[p].ref = "field"))
        content == FlattenSeq([k \in DOMAIN children |-> WriteElement(t, children[k], cells, row)])
        open == WriteOpening(t, path, cells, "field", row)
        attributes == \E a \in Attributes : Exists(t, Append(path, a))
    IN  IF children = << >> /\ node.ref # "field" THEN <<[open EXCEPT !.e = IF attributes THEN "empty" ELSE "start"]>>
        ELSE <<open>> \o content \o (IF node.ref = "field" THEN <<TextOf(Shown(cells, PlaceOf(node, row)))>> ELSE << >>)
                 \o <<EndOf(Last(path))>>

WriteRange(t, path, cells) ==
    LET children == SelectSeq(t.order, LAMBDA p : Without(p, 1) = path /\ ~IsAttribute(p))
        rows == t.ranges[t.nodes[path].parent].row
    IN  IF t.nodes[path].linked \/ children = << >> THEN << >>
        ELSE FlattenSeq([k \in 1..rows |-> WriteElement(t, children[1], cells, k - 1)])

Write(t, links, cells, stream) ==
    LET sorted == SortSeq(links, LAMBDA a, b : a.open < b.open)
        Opening(l) == WriteOpening(t, l.path, cells, "cell", 0)
        Linked(l) ==
            CASE t.nodes[l.path].ref = "cell" ->
                    <<Opening(l), TextOf(Shown(cells, t.nodes[l.path].pos)), stream[l.close]>>
              [] t.nodes[l.path].ref # "cell" /\ t.nodes[l.path].parent # None ->
                    <<Opening(l)>> \o WriteRange(t, l.path, cells) \o <<stream[l.close]>>
              [] OTHER -> <<[Opening(l) EXCEPT !.e = IF l.open = l.close THEN "empty" ELSE "start"]>>
        After(l) == IF t.nodes[l.path].ref = "cell" \/ t.nodes[l.path].parent # None THEN l.close + 1 ELSE l.open + 1
        From(k) == IF k = 1 THEN 1 ELSE After(sorted[k - 1])
    IN  FlattenSeq([k \in DOMAIN sorted |-> SubSeq(stream, From(k), sorted[k].open - 1) \o Linked(sorted[k])])
            \o SubSeq(stream, From(Len(sorted) + 1), Len(stream))
-----------------------------------------------------------------------------
DefineMap ==
    /\ cxt.phase = "map" /\ cxt.calls # << >>
    /\ LET t == Call(cxt.tree, Head(cxt.calls)) IN
       cxt' = [cxt EXCEPT !.phase = IF t.error = "" THEN "map" ELSE t.error, !.tree = t, !.calls = Tail(@)]
    /\ UNCHANGED <<doc, file>>

ReadStream ==
    /\ cxt.phase = "map" /\ cxt.calls = << >>
    /\ doc' = Labels(cxt.tree)
    /\ cxt' = [cxt EXCEPT !.phase = "read", !.tree = Reset(@)]
    /\ UNCHANGED file

Report(evs) ==
    LET s == Events([doc |-> doc, t |-> cxt.tree, h |-> cxt.handler], file \o evs, Len(file) + 1) IN
    /\ cxt.phase = "read" /\ cxt.parts < MaxParts
    /\ doc' = s.doc /\ file' = file \o evs
    /\ cxt' = [cxt EXCEPT !.tree = s.t, !.handler = s.h, !.parts = @ + 1,
                  !.open = CASE Len(evs) = 1 /\ evs[1].e = "start" -> Append(@, evs[1].name)
                             [] Len(evs) = 1 /\ evs[1].e = "end" -> Front(@)
                             [] OTHER -> @]

Parent == IF cxt.open = << >> THEN "" ELSE Last(cxt.open)
ReadOpen == \E el \in Opens :
    /\ Len(cxt.open) < MaxDepth /\ (cxt.open = << >> <=> file = << >>)
    /\ el.parent = Parent
    /\ Report(<<StartOf(el.name, el.attrs)>>)
ReadLeaf == \E el \in Leaves :
    /\ cxt.open # << >> /\ el.parent = Parent
    /\ Report(IF el.texts = << >> THEN <<[StartOf(el.name, el.attrs) EXCEPT !.e = "empty"]>>
              ELSE <<StartOf(el.name, el.attrs)>> \o [k \in DOMAIN el.texts |-> TextOf(el.texts[k])]
                       \o <<EndOf(el.name)>>)
ReadClose == cxt.open # << >> /\ Report(<<EndOf(Last(cxt.open))>>)

Next == DefineMap \/ ReadStream \/ ReadOpen \/ ReadLeaf \/ ReadClose

Spec == Init /\ [][Next]_vars
-----------------------------------------------------------------------------
Read == cxt.phase = "read" /\ file # << >> /\ cxt.open = << >>
Links == cxt.handler.links

(* A stream that is written from the sheet has the same in its linked      *)
(* places: read by the same map it gives the same sheet.  (An element of a *)
(* linked path that comes twice has one position only; a linked element    *)
(* that is closed where it opens is written with an end too many.)         *)
Writable == /\ \A j, k \in DOMAIN Links : Links[j].path = Links[k].path => j = k
            /\ \A k \in DOMAIN Links : LET n == cxt.tree.nodes[Links[k].path] IN
                  n.ref = "cell" \/ n.parent # None => Links[k].open # Links[k].close
XmlIsWrittenBack ==
    Read /\ Writable =>
        LET again == Start(cxt.tree)
            stream == Write(cxt.tree, Links, doc, file)
            fresh == [again EXCEPT !.t.nodes = [p \in DOMAIN @ |-> [@[p] EXCEPT !.group_pos = 0]]]
        IN  Events(fresh, stream, 1).doc = doc

(* What the stream says: at each event the elements that are open, the     *)
(* event where an element ends, those that start a group, the groups that  *)
(* have no other one inside, and the texts of elements and attributes: of  *)
(* a text in pieces the last one.                                          *)
Around == LET f[k \in 0..Len(file)] ==
                IF k = 0 THEN << >>
                ELSE LET closed == IF k > 1 /\ file[k-1].e \in {"end", "empty"} THEN Front(f[k-1]) ELSE f[k-1]
                     IN  IF file[k].e \in {"start", "empty"} THEN Append(closed, k) ELSE closed
          IN  f
Stream ==
    LET around == Around
        begins == {k \in DOMAIN file : file[k].e \in {"start", "empty"}}
        path == [k \in begins |-> [n \in DOMAIN around[k] |-> file[around[k][n]].name]]
        end == [k \in begins |-> Max({j \in k..Len(file) : \E n \in DOMAIN around[j] : around[j][n] = k})]
        groups == {k \in begins : Exists(cxt.tree, path[k]) /\ cxt.tree.nodes[path[k]].group # None}
        ofElements == {[path |-> path[k], at |-> k, text |-> file[end[k] - 1].text] : k \in {j \in begins : end[j] > j}}
        ofAttributes == UNION {{[path |-> Append(path[k], a), at |-> k, text |-> file[k].attrs[a]] :
                                   a \in DOMAIN file[k].attrs} : k \in begins}
    IN  [path |-> path, end |-> end, groups |-> groups,
         records |-> {k \in groups : \A j \in groups : ~(k < j /\ j <= end[k])},
         said |-> {f \in ofElements \cup ofAttributes : Exists(cxt.tree, f.path) /\ f.text # Empty}]

(* Each record of the stream is a row of its own, with what it says itself *)
(* and what the groups around it say.  (This is so where all records are   *)
(* elements of one path, and a group speaks for itself before its records: *)
(* the end of a group fills down from the first of its rows, and it takes  *)
(* for its own also those of the groups before that had no record.)        *)
In(st, k, g) == g <= k /\ k <= st.end[g]
GroupOf(st, f) == Max({g \in st.groups : In(st, f.at, g)})
SpeaksFirst(st, f, group) == \A m \in st.records : In(st, m, group) => f.at <= m \/ m = group
SpeaksLast(st, f, group, fields) == \A h \in fields : h.path = f.path /\ GroupOf(st, h) = group => h.at <= f.at
RowsOf(st, group) == {Cardinality({m \in st.records : m <= l}) : l \in {m \in st.records : In(st, m, group)}}
FillsItsRows(st, f, group, fields, node) ==
    SpeaksFirst(st, f, group) /\ SpeaksLast(st, f, group, fields) =>
        \A r \in RowsOf(st, group) : Shown(doc, <<node.pos[1] + r, node.pos[2] + node.col>>) = f.text
RowsAreFilled(st, fields) ==
    (\A k, m \in st.records : st.path[k] = st.path[m]) =>
        \A f \in fields : FillsItsRows(st, f, GroupOf(st, f), fields, cxt.tree.nodes[f.path])
FieldsSaid(st) == {f \in st.said : cxt.tree.nodes[f.path].ref = "field"}
RecordsAreRowsOf(st) == RowsAreFilled(st, FieldsSaid(st))
XmlRecordsAreRows == Read => RecordsAreRowsOf(Stream)

(* A linked cell has the last text its path has in the stream.             *)
XmlCellsAreTheLast ==
    Read => LET said == Stream.said IN
            \A f \in said : LET node == cxt.tree.nodes[f.path] IN
                (node.ref = "cell" /\ \A h \in said : h.path = f.path => h.at <= f.at) => doc[node.pos] = f.text
=============================================================================
