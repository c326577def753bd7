--------------------------- MODULE StructureTrees ---------------------------
(***************************************************************************)
(* xml_structure_tree and json_structure_tree: the paths a document has,   *)
(* each once, with what repeats below the same parent; the mappers that    *)
(* make ranges of what repeats, and detect_map_definition(), which makes   *)
(* the calls that define a map of them.  A node is its path.               *)
(***************************************************************************)
EXTENDS Integers, FiniteSets, SequencesExt

CONSTANTS Formats,         \* a subset of {"xml", "json"}
          XmlParts,        \* [parent, name, attrs]: elements; attrs are names
          JsonParts,       \* [parent, key, type]: values, arrays and objects; key is <<>> in an array
          TextElements,    \* elements that may have characters
          MaxParts, MaxDepth   \* bounds on the file

VARIABLES doc,             \* the tree: a function from paths to nodes
          cxt,             \* the handler: its stack, and what is to be done
          file             \* what the parser reports

vars == <<doc, cxt, file>>

Empty == << >>
Each == <<"position", -1>>
At(n) == <<"position", n>>

(* elem_prop and structure_node.  A count is in_scope_count or child_count,*)
(* positions is array_positions.                                           *)
Node(count) == [children |-> << >>, attrs |-> << >>, count |-> count, repeat |-> FALSE, content |-> FALSE,
                positions |-> Empty]
Add(tree, path, node) == (path :> node) @@ tree
AppendNew(seq, names) == FoldLeft(LAMBDA s, n : IF n \in Range(s) THEN s ELSE Append(s, n), seq, names)

Init == /\ doc = Empty /\ file = << >>
        /\ \E f \in Formats : cxt = [format |-> f, stack |-> << >>, parts |-> 0, normal |-> FALSE]

Report(ev) == /\ cxt.parts < MaxParts
              /\ file' = Append(file, ev)
Push(scope) == Append(cxt.stack, scope)
Top == Last(cxt.stack)
-----------------------------------------------------------------------------
(* xml_sax_handler.                                                        *)
XmlPath(name) == Append(IF cxt.stack = << >> THEN << >> ELSE Top, name)

(* An element that occurs again below the same parent repeats; the counts  *)
(* of the children are reset when their parent ends.                       *)
RecurredAnywhere(node) == [node EXCEPT !.count = @ + 1, !.repeat = TRUE]
Recurred(node) == [node EXCEPT !.count = @ + 1, !.repeat = @ \/ node.count > 0]
StartElement(tree, parent, path) ==
    IF path \in DOMAIN tree THEN [tree EXCEPT ![path] = Recurred(@)]
    ELSE LET t == Add(tree, path, Node(1)) IN
         IF parent = << >> THEN t ELSE [t EXCEPT ![parent].children = Append(@, Last(path))]

XmlStart == \E e \in XmlParts :
    /\ cxt.format = "xml" /\ Len(cxt.stack) < MaxDepth
    /\ IF cxt.stack = << >> THEN file = << >> /\ e.parent = << >> ELSE e.parent = <<Last(Top)>>
    /\ Report([e |-> "begin", key |-> e.name, type |-> "element", attrs |-> e.attrs])
    /\ LET path == XmlPath(e.name)
           tree == StartElement(doc, Front(path), path)
       IN  /\ doc' = [tree EXCEPT ![path].attrs = AppendNew(@, e.attrs)]
           /\ cxt' = [cxt EXCEPT !.stack = Push(path), !.parts = @ + 1]

XmlEnd ==
    /\ cxt.format = "xml" /\ cxt.stack # << >>
    /\ Report([e |-> "end", key |-> "", type |-> "element", attrs |-> << >>])
    /\ LET children == {Append(Top, c) : c \in Range(doc[Top].children)} IN
       doc' = [p \in DOMAIN doc |-> IF p \in children THEN [doc[p] EXCEPT !.count = 0] ELSE doc[p]]
    /\ cxt' = [cxt EXCEPT !.stack = Front(@), !.parts = @ + 1]

XmlCharacters ==
    /\ cxt.format = "xml" /\ cxt.stack # << >> /\ Last(Top) \in TextElements
    /\ Last(file).e # "text"
    /\ Report([e |-> "text", key |-> "", type |-> "element", attrs |-> << >>])
    /\ doc' = [doc EXCEPT ![Top].content = TRUE]
    /\ cxt' = [cxt EXCEPT !.parts = @ + 1]
-----------------------------------------------------------------------------
(* json_structure_tree::impl.  A step of a path is the kind of the node,   *)
(* and the name of a key.                                                  *)
Kind(path) == Last(path)[1]
ValueOf(path) == Append(path, <<"value">>)

(* What is no value makes its position in an array one that is not always  *)
(* a value, when a value was there before.                                 *)
WithoutPosition(tree, array, pos) ==
    IF ValueOf(array) \in DOMAIN tree /\ pos \in DOMAIN tree[ValueOf(array)].positions
    THEN [tree EXCEPT ![ValueOf(array)].positions[pos] = FALSE] ELSE tree
(* A value records its position unless that is before the first recorded.  *)
WithPosition(tree, path, pos) ==
    LET known == DOMAIN tree[path].positions IN
    IF pos \in known \/ (known # {} /\ \A k \in known : pos < k) THEN tree
    ELSE [tree EXCEPT ![path].positions = (pos :> TRUE) @@ @]

IsNodeRepeatable(parent, step) == Kind(parent) = "array" /\ step[1] \in {"array", "object"}
PushStack(s, step) ==
    LET top == Last(s.stack)
        path == Append(top.path, step)
        pos == top.count
        array == Kind(top.path) = "array"
        marked == IF array /\ step[1] # "value" THEN WithoutPosition(s.doc, top.path, pos) ELSE s.doc
        found == IF path \in DOMAIN marked THEN [marked EXCEPT ![path].repeat = IsNodeRepeatable(top.path, step)]
                 ELSE Add([marked EXCEPT ![top.path].children = Append(@, step)], path, Node(0))
        counted == [s.stack EXCEPT ![Len(s.stack)].count = @ + 1]
    IN  IF s.stack = << >> THEN [doc |-> <<step>> :> Node(0), stack |-> <<[path |-> <<step>>, count |-> 0]>>]
        ELSE [doc |-> IF array /\ step[1] = "value" THEN WithPosition(found, path, pos) ELSE found,
              stack |-> Append(counted, [path |-> path, count |-> 0])]

PopStack(s) ==
    LET top == Last(s.stack)
        rest == Front(s.stack)
    IN  [doc |-> [s.doc EXCEPT ![top.path].count = IF top.count > @ THEN top.count ELSE @],
         stack |-> IF rest # << >> /\ Kind(Last(rest).path) = "key" THEN Front(rest) ELSE rest]

PushKey(s, key) == IF key = << >> THEN s ELSE PushStack(s, <<"key">> \o key)
JsonState == [doc |-> doc, stack |-> cxt.stack]
Steps(stack) == IF stack = << >> THEN << >> ELSE Last(stack).path

JsonBegin == \E p \in JsonParts :
    /\ cxt.format = "json" /\ Len(cxt.stack) < MaxDepth
    /\ IF cxt.stack = << >> THEN file = << >> /\ p.parent = << >> /\ p.type # "value"
       ELSE p.parent # << >> /\ p.parent = Last(SelectSeq(Steps(cxt.stack), LAMBDA x : x[1] # "key"))
                             /\ (Kind(Top.path) = "array" <=> p.key = << >>)
    /\ Report([e |-> "begin", key |-> p.key, type |-> p.type, attrs |-> << >>])
    /\ LET s == PushStack(PushKey(JsonState, p.key), <<p.type>>)
           t == IF p.type = "value" THEN PopStack(s) ELSE s
       IN  doc' = t.doc /\ cxt' = [cxt EXCEPT !.stack = t.stack, !.parts = @ + 1]

JsonEnd ==
    /\ cxt.format = "json" /\ cxt.stack # << >>
    /\ Report([e |-> "end", key |-> << >>, type |-> "", attrs |-> << >>])
    /\ LET s == PopStack(JsonState) IN doc' = s.doc /\ cxt' = [cxt EXCEPT !.stack = s.stack, !.parts = @ + 1]

Ended == file # << >> /\ cxt.stack = << >>

Ranks == [array |-> 1, object |-> 2, key |-> 3, value |-> 4]
Normalize ==
    /\ cxt.format = "json" /\ Ended /\ ~cxt.normal
    /\ doc' = [p \in DOMAIN doc |-> [doc[p] EXCEPT !.children =
                    SortSeq(@, LAMBDA a, b : Ranks[a[1]] < Ranks[b[1]])]]
    /\ cxt' = [cxt EXCEPT !.normal = TRUE]
    /\ UNCHANGED file

Next == XmlStart \/ XmlEnd \/ XmlCharacters \/ JsonBegin \/ JsonEnd \/ Normalize

Spec == Init /\ [][Next]_vars
-----------------------------------------------------------------------------
(* The mappers: a walk over the tree, which collects what is inside of the *)
(* outermost node that repeats.                                            *)
Child(path, c) == Append(path, c)
FieldsOfXml(path) ==
    LET node == doc[path]
        leaf == node.children = << >> /\ node.content
    IN  [k \in DOMAIN node.attrs |-> Append(path, node.attrs[k])] \o (IF leaf THEN <<path>> ELSE << >>)

(* A step of a path as the map has it: keys, and positions of arrays.      *)
StepsTo(path, n) ==
    LET step(k) == IF path[k][1] = "key" THEN <<path[k]>>
                   ELSE IF path[k-1] = <<"array">> /\ path[k] # <<"value">> THEN <<Each>> ELSE << >>
    IN  FoldLeft(LAMBDA steps, k : steps \o step(k), <<<<"root", 0>>>>, [k \in 1..(n - 1) |-> k + 1])
ValidPositions(path) ==
    SelectSeq([k \in 1..MaxParts |-> k - 1],
              LAMBDA n : n \in DOMAIN doc[path].positions /\ doc[path].positions[n])
BuildFieldPaths(path) ==
    LET base == StepsTo(path, Len(path))
        valid == ValidPositions(path)
    IN  IF valid = << >> THEN <<base>> ELSE [k \in DOMAIN valid |-> Append(base, At(valid[k]))]
BuildRowGroupPath(path) == StepsTo(path, Len(path) - 1)

FieldsOf(path) == IF cxt.format = "xml" THEN FieldsOfXml(path)
                  ELSE IF Kind(path) = "value" THEN BuildFieldPaths(path) ELSE << >>
GroupOf(path) == IF cxt.format = "xml" THEN path ELSE BuildRowGroupPath(path)

NewRange == [paths |-> << >>, groups |-> << >>]
RECURSIVE Traverse(_, _, _)
Traverse(m, path, inside) ==
    LET node == doc[path]
        group == IF node.repeat THEN [m EXCEPT !.range.groups = Append(@, GroupOf(path))] ELSE m
        in == inside \/ node.repeat
        here == IF in THEN [group EXCEPT !.range.paths = @ \o FieldsOf(path)] ELSE group
        below == FoldLeft(LAMBDA n, c : Traverse(n, Child(path, c), in), here, node.children)
    IN  IF node.repeat /\ ~inside THEN [ranges |-> Append(below.ranges, below.range), range |-> NewRange] ELSE below
Root == CHOOSE p \in DOMAIN doc : Len(p) = 1
Ranges == Traverse([ranges |-> << >>, range |-> NewRange], Root, FALSE).ranges

(* orcus_xml, orcus_json::detect_map_definition(): each range has a sheet  *)
(* of its own, which the second number stands for.                         *)
Call(op, path, sheet) == [op |-> op, path |-> path, pos |-> <<0, sheet>>, label |-> Empty, header |-> TRUE]
CallsOf(range, sheet) ==
    <<Call("range", << >>, sheet)>> \o [k \in DOMAIN range.paths |-> Call("field", range.paths[k], sheet)]
    \o [k \in DOMAIN range.groups |-> Call("row-group", range.groups[k], sheet)] \o <<Call("commit", << >>, sheet)>>
Detected == FoldLeft(LAMBDA calls, k : calls \o CallsOf(Ranges[k], k), << >>, [k \in DOMAIN Ranges |-> k])
HasRange == \E path \in DOMAIN doc : doc[path].repeat

(* dump_compact(): the paths, with what is around them that repeats.       *)
Scopes(path) == [n \in 1..Len(path) |-> <<path[n], doc[SubSeq(path, 1, n)].repeat>>]
RECURSIVE DumpXml(_), DumpJson(_)
DumpXml(path) ==
    LET node == doc[path]
        attrs == [k \in DOMAIN node.attrs |-> <<Scopes(path), <<node.attrs[k]>>>>]
    IN  FoldLeft(LAMBDA out, c : out \o DumpXml(Child(path, c)), <<<<Scopes(path), Empty>>>> \o attrs, node.children)
DumpJson(path) ==
    IF Kind(path) = "value" THEN <<<<Scopes(path), ValidPositions(path)>>>>
    ELSE FoldLeft(LAMBDA out, c : out \o DumpJson(Child(path, c)), << >>, doc[path].children)
-----------------------------------------------------------------------------
(* What the file says, by the place of each node among its parts.          *)
Begins == {k \in DOMAIN file : file[k].e = "begin"}
Around == LET f[k \in 0..Len(file)] ==
                IF k = 0 THEN << >>
                ELSE LET open == IF k > 1 /\ (file[k-1].e = "end" \/ file[k-1].type = "value")
                                 THEN Front(f[k-1]) ELSE f[k-1]
                     IN  IF file[k].e = "begin" THEN Append(open, k) ELSE open
          IN  f
PathOf(open) ==
    IF cxt.format = "xml" THEN [n \in DOMAIN open |-> file[open[n]].key]
    ELSE FoldLeft(LAMBDA path, k : path \o (IF file[k].key = << >> THEN << >> ELSE <<<<"key">> \o file[k].key>>)
                                        \o <<<<file[k].type>>>>, << >>, open)
Parent(open) == IF Len(open) < 2 THEN 0 ELSE open[Len(open) - 1]

(* An XML path repeats when two of its elements have the same parent; it   *)
(* has content when one of its elements has; its attributes and children   *)
(* are in the order they come in the file.                                 *)
FirstOf(S) == Min(S)
XmlStructureIsOwn ==
    LET around == Around
        path == [k \in Begins |-> PathOf(around[k])]
        of(p) == {k \in Begins : path[k] = p}
        with(p, a) == {k \in of(p) : a \in Range(file[k].attrs)}
        before(a, b, p) == IF FirstOf(with(p, a)) # FirstOf(with(p, b)) THEN FirstOf(with(p, a)) < FirstOf(with(p, b))
                           ELSE LET at == file[FirstOf(with(p, a))].attrs IN
                                \E i, j \in DOMAIN at : i < j /\ at[i] = a /\ at[j] = b
    IN  /\ DOMAIN doc = Range(path)
        /\ \A p \in DOMAIN doc :
            /\ doc[p].repeat <=> \E j, k \in of(p) : j # k /\ Parent(around[j]) = Parent(around[k])
            /\ doc[p].content <=> \E k \in DOMAIN file : file[k].e = "text" /\ PathOf(around[k]) = p
            /\ Range(doc[p].attrs) = UNION {Range(file[k].attrs) : k \in of(p)}
            /\ \A i, j \in DOMAIN doc[p].attrs : i < j => before(doc[p].attrs[i], doc[p].attrs[j], p)
            /\ \A i, j \in DOMAIN doc[p].children :
                    i < j => FirstOf(of(Child(p, doc[p].children[i]))) < FirstOf(of(Child(p, doc[p].children[j])))

(* A JSON path repeats when it is an array or an object in an array and    *)
(* comes more than once; a position where there is always a value is       *)
(* listed, and where one is listed nothing else came after the first value *)
(* there.                                                                  *)
JsonStructureIsOwn ==
    LET around == Around
        path == [k \in Begins |-> PathOf(around[k])]
        place(k) == Cardinality({j \in Begins : j < k /\ Parent(around[j]) = Parent(around[k]) /\ Parent(around[k]) # 0})
        in(p, n) == {k \in Begins : Len(path[k]) > 1 /\ Front(path[k]) = p /\ place(k) = n}
        values(p, n) == {k \in in(p, n) : file[k].type = "value"}
    IN  \A p \in DOMAIN doc :
            /\ doc[p].repeat <=> /\ Cardinality({k \in Begins : path[k] = p}) > 1 /\ Len(p) > 1
                                 /\ Kind(Front(p)) = "array" /\ Kind(p) \in {"array", "object"}
            /\ Kind(p) = "value" /\ Kind(Front(p)) = "array" =>
                \A n \in 0..MaxParts :
                    LET listed == n \in Range(ValidPositions(p))
                        array == Front(p)
                    IN  /\ in(array, n) # {} /\ in(array, n) = values(array, n) => listed
                        /\ listed => /\ values(array, n) # {}
                                     /\ \A k \in in(array, n) \ values(array, n) : k < FirstOf(values(array, n))

(* Each path that repeats is a row group of one range, that of the         *)
(* outermost path around it that repeats, and so is each field.            *)
RangesAreOfRepeats ==
    LET outermost(p) == {n \in 1..Len(p) : doc[SubSeq(p, 1, n)].repeat}
        repeats == {p \in DOMAIN doc : doc[p].repeat}
        tops == {p \in repeats : outermost(p) = {Len(p)}}
        inside(top) == {p \in DOMAIN doc : Len(p) >= Len(top) /\ SubSeq(p, 1, Len(top)) = top}
        ranges == Ranges
    IN  /\ Len(ranges) = Cardinality(tops) /\ (HasRange <=> ranges # << >>)
        /\ \A top \in tops : \E k \in DOMAIN ranges :
                /\ ranges[k].groups[1] = GroupOf(top)
                /\ Range(ranges[k].groups) = {GroupOf(p) : p \in inside(top) \cap repeats}
                /\ Range(ranges[k].paths) = UNION {Range(FieldsOf(p)) : p \in inside(top)}
        /\ \A k \in DOMAIN ranges : IsInjective(ranges[k].paths)

(* Each path is dumped once, after the path it is below.                   *)
DumpIsWhole ==
    LET dump == IF cxt.format = "xml" THEN DumpXml(Root) ELSE DumpJson(Root)
        path(d) == [n \in DOMAIN d[1] |-> d[1][n][1]]
    IN  /\ IsInjective(dump)
        /\ {path(dump[k]) : k \in DOMAIN dump} = {p \in DOMAIN doc : cxt.format = "xml" \/ Kind(p) = "value"}
        /\ \A i, j \in DOMAIN dump : path(dump[j]) = Front(path(dump[i])) => j < i

StructureIsOwn ==
    Ended => /\ RangesAreOfRepeats /\ DumpIsWhole
             /\ IF cxt.format = "xml" THEN XmlStructureIsOwn ELSE JsonStructureIsOwn

(* A value in an array has a position of its own in the map.               *)
ValuesHavePositions == \A p \in DOMAIN doc : doc[p].positions # Empty => ValidPositions(p) # << >>
=============================================================================
