------------------------------ MODULE JsonMap ------------------------------
(***************************************************************************)
(* orcus_json: a map links paths of a JSON document to cells and to the    *)
(* fields of ranges, and read_stream() puts the values it finds there into *)
(* the sheet.  A node of json_map_tree is its path: keys of objects and    *)
(* positions in arrays, where Everywhere stands for each of them.                   *)
(***************************************************************************)
EXTENDS Integers, FiniteSets, SequencesExt

CONSTANTS Maps,         \* sequences of the calls that define a map
          Containers,   \* [parent, key, type]: the arrays and objects the stream may have
          Scalars,      \* [parent, key, value]
          Null,         \* the value null
          MaxParts, MaxDepth       \* bounds on the stream

VARIABLES doc,          \* the sheet
          cxt,          \* json_map_tree and json_content_handler
          file          \* the stream: what json_parser reports

(* The sheet of a mapped import, as a function of row and column.          *)
None == << >>
Empty == << >>                                    \* an empty text, and an empty function

SetAuto(cells, pos, v) == IF v = Empty THEN cells ELSE (pos :> v) @@ cells
Shown(cells, pos) == IF pos \in DOMAIN cells THEN cells[pos] ELSE Empty

FillDown(cells, row, col, n) ==
    LET below == {<<r, col>> : r \in row + 1..row + n} IN
    [p \in (DOMAIN cells \ below) \cup (IF <<row, col>> \in DOMAIN cells THEN below ELSE {}) |->
        IF p \in below THEN cells[<<row, col>>] ELSE cells[p]]

vars == <<doc, cxt, file>>

Everywhere == -1                                         \* node_child_default_position
Root == <<"root", 0>>
Key(k) == <<"key", k>>
At(n) == <<"position", n>>

Node == [type |-> "unknown", pos |-> None, col |-> 0, label |-> Empty, group |-> None, anchored |-> << >>]
EmptyTree == [nodes |-> Empty, ranges |-> Empty, cur |-> None, error |-> ""]
Handler == [stack |-> << >>, unlinked |-> 0, groups |-> << >>, increment |-> None]

Init == /\ doc = Empty /\ file = << >>
        /\ \E map \in Maps :
            cxt = [phase |-> "map", tree |-> EmptyTree, handler |-> Handler, calls |-> map, open |-> << >>, parts |-> 0]
-----------------------------------------------------------------------------
(* json_map_tree.                                                          *)
Fail(t, why) == [t EXCEPT !.error = why]
Exists(t, path) == path \in DOMAIN t.nodes
ContainerOf(step) == IF step[1] = "key" THEN "object" ELSE "array"
WithNode(t, path) == IF Exists(t, path) THEN t ELSE [t EXCEPT !.nodes = (path :> Node) @@ @]

RECURSIVE GetOrCreate(_, _, _)
GetOrCreate(t, path, n) ==
    LET here == SubSeq(path, 1, n)
        u == WithNode(t, here)
        type == u.nodes[here].type
    IN  IF t.error # "" \/ n = Len(path) THEN u
        ELSE IF type \notin {"unknown", ContainerOf(path[n + 1])} THEN Fail(u, "path_error")
        ELSE GetOrCreate([u EXCEPT !.nodes[here].type = ContainerOf(path[n + 1])], path, n + 1)

Link(t, path) ==
    LET u == GetOrCreate(t, path, 1) IN
    IF u.error = "" /\ u.nodes[path].type # "unknown" THEN Fail(u, "path_error") ELSE u

RowGroup(t, path) ==
    LET u == GetOrCreate(t, path, 1) IN
    IF u.error # "" THEN u ELSE [u EXCEPT !.nodes[path].group = t.cur.pos]

KeyOf(path) == IF Len(path) > 1 /\ Last(path)[1] = "key" THEN <<Last(path)[2]>> ELSE Empty
Unlabeled(field) == field.label = Empty /\ KeyOf(field.path) = Empty
FieldLabel(t, k) ==
    LET field == t.cur.fields[k] IN
    IF field.label # Empty THEN field.label
    ELSE IF ~Unlabeled(field) THEN KeyOf(field.path)
    ELSE <<"field", Cardinality({j \in 1..(k - 1) : Unlabeled(t.cur.fields[j])})>>

(* The k-th field goes into the next column, and is anchored to the        *)
(* nearest row group above it.                                             *)
Field(t, k) ==
    LET path == t.cur.fields[k].path
        u == Link(t, path)
        range == t.cur.pos
        v == [u EXCEPT !.nodes[path].type = "field", !.nodes[path].pos = range, !.nodes[path].label = FieldLabel(t, k),
                       !.nodes[path].col = k - 1, !.ranges[range].fields = Append(@, path)]
        groups == {n \in 1..Len(path) : u.nodes[SubSeq(path, 1, n)].group # None}
    IN  IF u.error # "" THEN u
        ELSE IF groups = {} THEN v
        ELSE [v EXCEPT !.nodes[SubSeq(path, 1, Max(groups))].anchored = Append(@, path)]

CommitRange(t) ==
    LET pos == t.cur.pos
        u == IF pos \in DOMAIN t.ranges THEN t
             ELSE [t EXCEPT !.ranges = (pos :> [fields |-> << >>, row |-> 0, header |-> FALSE]) @@ @]
        v == FoldLeft(RowGroup, [u EXCEPT !.ranges[pos].header = t.cur.header], t.cur.groups)
        more(w, k) == IF w.error = "" THEN Field(w, k) ELSE w
    IN  FoldLeft(more, v, [k \in DOMAIN t.cur.fields |-> k])

Call(t, call) ==
    CASE call.op = "cell" ->
            LET u == Link(t, call.path) IN
            IF u.error # "" THEN u ELSE [u EXCEPT !.nodes[call.path].type = "cell", !.nodes[call.path].pos = call.pos]
      [] call.op = "range" -> [t EXCEPT !.cur = [pos |-> call.pos, header |-> call.header, fields |-> << >>, groups |-> << >>]]
      [] call.op = "field" -> [t EXCEPT !.cur.fields = Append(@, call)]
      [] call.op = "row-group" -> [t EXCEPT !.cur.groups = Append(@, call.path)]
      [] call.op = "commit" -> CommitRange(t)
-----------------------------------------------------------------------------
(* json_content_handler and the walker of the tree.                        *)
InputType(node) == IF node.type \in {"cell", "field"} THEN "value" ELSE node.type
Current(h) == IF h.unlinked > 0 \/ h.stack = << >> THEN << >> ELSE Last(h.stack).path

(* Where the next node of the stream is in the tree.                       *)
NextNode(t, h) ==
    LET top == Last(h.stack)
        exact == Append(top.path, IF t.nodes[top.path].type = "array" THEN At(top.at) ELSE Key(top.key))
        any == Append(top.path, At(Everywhere))
    IN  CASE h.stack = << >> -> <<Root>>
          [] h.stack # << >> /\ t.nodes[top.path].type = "array" /\ ~Exists(t, exact) -> any
          [] OTHER -> exact

PushNode(s, type) ==
    LET h == s.h
        cur == Current(h)
        group == s.t.nodes[cur].group
        next == h.groups # << >> /\ cur # << >> /\ group # None /\ h.increment = group
        u == IF next THEN [s EXCEPT !.t.ranges[group].row = @ + 1, !.h.increment = None] ELSE s
        path == NextNode(s.t, h)
        linked == h.unlinked = 0 /\ Exists(s.t, path) /\ InputType(s.t.nodes[path]) = type
        counted == IF h.unlinked = 0 /\ h.stack # << >> THEN [u EXCEPT !.h.stack[Len(h.stack)].at = @ + 1] ELSE u
        below == [counted EXCEPT !.h.stack = Append(@, [path |-> path, at |-> 0, key |-> ""])]
        of == s.t.nodes[path].group
    IN  CASE ~linked -> [counted EXCEPT !.h.unlinked = @ + 1]
          [] linked /\ of = None -> below
          [] linked /\ of # None -> [below EXCEPT !.h.groups = Append(@, [path |-> path, row |-> u.t.ranges[of].row])]

PopNode(s) ==
    LET cur == Current(s.h)
        range == s.t.nodes[cur].group
        group == cur # << >> /\ range # None
        from == Last(s.h.groups).row
        to == s.t.ranges[range].row
        top == IF s.t.ranges[range].header THEN range[1] + 1 ELSE range[1]
        u == [s EXCEPT !.h.groups = IF group THEN Front(@) ELSE @,
                       !.h.unlinked = IF @ > 0 THEN @ - 1 ELSE @,
                       !.h.stack = IF s.h.unlinked > 0 THEN @ ELSE Front(@)]
        outer == Current(u.h)
        v == IF u.h.groups # << >> /\ outer # << >> /\ u.t.nodes[outer].group # None
             THEN [u EXCEPT !.h.increment = u.t.nodes[outer].group] ELSE u
        anchored == u.t.nodes[Last(u.h.groups).path].anchored
    IN  IF group /\ to > from /\ u.h.groups # << >>
        THEN [v EXCEPT !.doc = FoldLeft(LAMBDA c, f : FillDown(c, top + from, range[2] + s.t.nodes[f].col, to - from),
                                        s.doc, anchored)]
        ELSE v

BelowOrigin(t, node) == <<node.pos[1] + t.ranges[node.pos].row, node.pos[2] + node.col>>
FieldPosition(t, node) ==
    LET range == t.ranges[node.pos] IN
    <<node.pos[1] + range.row + (IF range.header THEN 1 ELSE 0), node.pos[2] + node.col>>
CommitValue(s, v) ==
    LET cur == Current(s.h)
        node == s.t.nodes[cur]
    IN  CASE cur = << >> \/ v = Null -> s
          [] cur # << >> /\ v # Null /\ node.type = "cell" -> [s EXCEPT !.doc = SetAuto(@, node.pos, v)]
          [] cur # << >> /\ v # Null /\ node.type = "field" ->
                [s EXCEPT !.doc = SetAuto(@, FieldPosition(s.t, node), v)]
          [] OTHER -> s

SetObjectKey(s, k) ==
    IF s.h.unlinked > 0 \/ s.h.stack = << >> THEN s
    ELSE IF s.t.nodes[Last(s.h.stack).path].type # "object" THEN s
    ELSE [s EXCEPT !.h.stack[Len(s.h.stack)].key = k]

Event(s, ev) ==
    CASE ev.e = "key" -> SetObjectKey(s, ev.key)
      [] ev.e = "begin" -> PushNode(s, ev.type)
      [] ev.e = "end" -> PopNode(s)
      [] ev.e = "value" -> PopNode(CommitValue(PushNode(s, "value"), ev.value))

(* The labels of the fields go into the first row of a range with headers. *)
Labels(t) ==
    LET fields == UNION {Range(t.ranges[pos].fields) : pos \in {p \in DOMAIN t.ranges : t.ranges[p].header}}
        place(f) == <<t.nodes[f].pos[1], t.nodes[f].pos[2] + t.nodes[f].col>>
    IN  [p \in {place(f) : f \in fields} |-> t.nodes[CHOOSE f \in fields : p = place(f)].label]
-----------------------------------------------------------------------------
DefineMap ==
    /\ cxt.phase = "map" /\ cxt.calls # << >>
    /\ LET t == Call(cxt.tree, Head(cxt.calls)) IN
       cxt' = [cxt EXCEPT !.phase = IF t.error = "" THEN "map" ELSE t.error, !.tree = t, !.calls = Tail(@)]
    /\ UNCHANGED <<doc, file>>

ReadStream ==
    /\ cxt.phase = "map" /\ cxt.calls = << >>
    /\ doc' = Labels(cxt.tree)
    /\ cxt' = [cxt EXCEPT !.phase = "read"]
    /\ UNCHANGED file

Report(key, ev, open) ==
    LET evs == IF key = "" THEN <<ev>> ELSE <<[e |-> "key", key |-> key, type |-> "", value |-> Null], ev>>
        s == FoldLeft(Event, [doc |-> doc, t |-> cxt.tree, h |-> cxt.handler], evs)
    IN  /\ cxt.phase = "read" /\ cxt.parts < MaxParts
        /\ doc' = s.doc /\ file' = file \o evs
        /\ cxt' = [cxt EXCEPT !.tree = s.t, !.handler = s.h, !.parts = @ + 1, !.open = open]

Begin == \E c \in Containers :
    /\ Len(cxt.open) < MaxDepth /\ c.parent = cxt.open /\ (cxt.open = << >> => file = << >>)
    /\ Report(c.key, [e |-> "begin", key |-> "", type |-> c.type, value |-> Null],
              Append(cxt.open, IF cxt.open = << >> THEN "$" ELSE c.key))
Scalar == \E c \in Scalars :
    /\ cxt.open # << >> /\ c.parent = cxt.open
    /\ Report(c.key, [e |-> "value", key |-> "", type |-> "", value |-> c.value], cxt.open)
End == /\ cxt.open # << >>
       /\ Report("", [e |-> "end", key |-> "", type |-> "", value |-> Null], Front(cxt.open))

Next == DefineMap \/ ReadStream \/ Begin \/ Scalar \/ End

Spec == Init /\ [][Next]_vars
-----------------------------------------------------------------------------
(* What the stream says, independent of the walk: the path of each node    *)
(* and its place among the children of its parent.                         *)
Read == cxt.phase = "read" /\ file # << >> /\ cxt.open = << >>
Begins == {k \in DOMAIN file : file[k].e \in {"begin", "value"}}
Around == LET f[k \in 0..Len(file)] ==
                IF k = 0 THEN << >>
                ELSE LET open == IF k > 1 /\ file[k-1].e \in {"end", "value"} THEN Front(f[k-1]) ELSE f[k-1]
                     IN  IF file[k].e \in {"begin", "value"} THEN Append(open, k) ELSE open
          IN  f
Stream ==
    LET around == Around
        parent(k) == around[k][Len(around[k]) - 1]
        place(k) == Cardinality({j \in Begins : j < k /\ Len(around[j]) = Len(around[k])
                                                /\ Front(around[j]) = Front(around[k])})
        step(k) == IF k > 1 /\ file[k-1].e = "key" THEN Key(file[k-1].key) ELSE At(place(k))
        path[k \in Begins] ==
            IF Len(around[k]) = 1 THEN <<Root>>
            ELSE LET exact == Append(path[parent(k)], step(k)) IN
                 IF Exists(cxt.tree, exact) \/ step(k)[1] = "key" THEN exact ELSE Append(path[parent(k)], At(Everywhere))
        end == [k \in Begins |-> Max({j \in k..Len(file) : \E n \in DOMAIN around[j] : around[j][n] = k})]
        records == {k \in Begins : /\ Len(around[k]) > 1
                                   /\ Exists(cxt.tree, path[parent(k)]) /\ cxt.tree.nodes[path[parent(k)]].group # None}
    IN  [path |-> path, end |-> end, records |-> records,
         rows |-> {k \in records : \A j \in records : ~(k < j /\ j <= end[k])}]

(* Each record of the stream is a row of its own, with its values and      *)
(* those of the records around it: an object that has no records inside is *)
(* a row, and one that has them is repeated for each.  (The values of an   *)
(* object come before its records.)                                        *)
RecordsOfAreRows(st) ==
            LET In(k, r) == r <= k /\ k <= st.end[r]
                fields == {k \in Begins : /\ file[k].e = "value" /\ file[k].value # Null /\ Exists(cxt.tree, st.path[k])
                                          /\ cxt.tree.nodes[st.path[k]].type = "field"}
                record == [k \in fields |-> Max({r \in st.records : In(k, r)})]
                first(k) == \A r \in st.rows : In(r, record[k]) => k <= r \/ r = record[k]
                last(k) == \A j \in fields : st.path[j] = st.path[k] /\ record[j] = record[k] => j <= k
            IN  \A k \in fields : first(k) /\ last(k) =>
                    LET node == cxt.tree.nodes[st.path[k]]
                        top == node.pos[1] + (IF cxt.tree.ranges[node.pos].header THEN 0 ELSE -1)
                    IN  \A r \in {Cardinality({m \in st.rows : m <= l}) : l \in {m \in st.rows : In(m, record[k])}} :
                            Shown(doc, <<top + r, node.pos[2] + node.col>>) = file[k].value
JsonRecordsAreRows == Read => RecordsOfAreRows(Stream)

(* A linked cell has the last value of its path.                           *)
CellsOfAreTheLast(st) ==
            LET said == {k \in Begins : file[k].e = "value" /\ file[k].value # Null /\ Exists(cxt.tree, st.path[k])}
            IN  \A k \in said : LET node == cxt.tree.nodes[st.path[k]] IN
                    (node.type = "cell" /\ \A j \in said : st.path[j] = st.path[k] => j <= k) =>
                        doc[node.pos] = file[k].value
JsonCellsAreTheLast == Read => CellsOfAreTheLast(Stream)
=============================================================================
