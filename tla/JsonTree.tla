------------------------------ MODULE JsonTree ------------------------------
(***************************************************************************)
(* json::document_tree: json_parser reads a stream of characters, the      *)
(* parser_handler makes a tree of json_values of it, references to other   *)
(* files are resolved, and nodes of the finished tree are written to.      *)
(* A string, a literal or a run of white space is one symbol of the stream.*)
(***************************************************************************)
EXTENDS Integers, FiniteSets, SequencesExt, FiniteSetsExt

CONSTANTS Texts,        \* strings, of keys and of values
          Escaped,      \* those that also stand in the stream with an escape
          Ref,          \* the key "$ref"
          Externals,    \* what other files hold, by path: a document, or why there is none
          Inits,        \* initializers a node is assigned
          MaxSymbols,   \* bound on the length of the stream
          MaxNest,      \* max_nest_level
          MaxWrites,    \* bound on the writes to nodes
          MaxWritten    \* bound on the length of a stream whose tree is written to

VARIABLES doc,          \* document_tree::impl: the values made and the root
          cxt,          \* the parser and its handler
          file          \* the stream, then the writes

vars == <<doc, cxt, file>>

NoText == "-"
Symbol(t, s, e) == [type |-> t, text |-> s, escaped |-> e]
Mark(t) == Symbol(t, NoText, FALSE)
Symbols == {Mark(t) : t \in {"[", "]", "{", "}", ",", ":", " ", "true"}}
           \cup {Symbol("string", s, FALSE) : s \in Texts} \cup {Symbol("string", s, TRUE) : s \in Escaped}
Space == Mark(" ")

(* A string_view of the handler: of interned characters, or of the         *)
(* parser's cell_buffer, where a string with escapes is put together.      *)
View(s) == [buffer |-> FALSE, text |-> s]
InBuffer(s) == IF s.escaped THEN [buffer |-> TRUE, text |-> NoText] ELSE View(s.text)
Intern(s) == View(s.text)
Read(view, buffer) == IF view.buffer THEN buffer ELSE view.text

NoObject == [k \in {} |-> 0]
JsonValue(t, view) == [type |-> t, parent |-> 0, text |-> view, order |-> << >>,
                       object |-> NoObject, array |-> << >>, has_ref |-> FALSE]
Containers == {"array", "object"}

Init == \E preserve, resolve \in BOOLEAN :
           /\ doc = [nodes |-> << >>, root |-> 0]
           /\ cxt = [at |-> "start", stack |-> << >>, buffer |-> NoText, refs |-> << >>,
                     preserve |-> preserve, resolve |-> resolve]
           /\ file = << >>

Top == cxt.stack[Len(cxt.stack)]
Container == doc.nodes[Top.node]
Fail(why) == cxt' = [cxt EXCEPT !.at = why] /\ UNCHANGED doc
Goto(at) == cxt' = [cxt EXCEPT !.at = at] /\ UNCHANGED doc
-----------------------------------------------------------------------------
(* Where array(), object() and parse() go on after a value.                *)
After(stack) == IF stack = << >> THEN "end"
                ELSE IF doc.nodes[stack[Len(stack)].node].type = "array" THEN "after item"
                ELSE "after member"

(* parser_handler::push_value: v becomes the next item, or the member of   *)
(* the key that waits on the stack.                                        *)
IsReference(v, key) == cxt.resolve /\ key = Ref /\ v.type = "string" /\ ~Container.has_ref
Attached(v, key) ==
    LET id == Len(doc.nodes) + 1 IN
    IF cxt.stack = << >> THEN [nodes |-> <<v>>, root |-> 1]
    ELSE LET up == IF Container.type = "array" THEN [Container EXCEPT !.array = Append(@, id)]
                   ELSE [Container EXCEPT !.order = IF cxt.preserve THEN Append(@, key) ELSE @,
                                          !.object = (key :> id) @@ @,
                                          !.has_ref = @ \/ IsReference(v, key)]
         IN [doc EXCEPT !.nodes = Append([@ EXCEPT ![Top.node] = up], [v EXCEPT !.parent = Top.node])]

PushValue(v, buffer) ==
    LET key == IF cxt.stack = << >> THEN NoText ELSE Read(Top.key, buffer)
        member == cxt.stack # << >> /\ Container.type = "object"
    IN  IF member /\ key \in DOMAIN Container.object THEN Fail("document_error")
        ELSE /\ doc' = Attached(v, key)
             /\ cxt' = [cxt EXCEPT
                  !.buffer = buffer,
                  !.refs = IF member /\ IsReference(v, key)
                           THEN Append(@, [path |-> Read(v.text, buffer), dest |-> Top.node]) ELSE @,
                  !.stack = IF v.type \in Containers
                            THEN Append(@, [node |-> Len(doc.nodes) + 1, key |-> View(NoText)]) ELSE @,
                  !.at = IF v.type \in Containers THEN v.type ELSE After(cxt.stack)]

(* json_parser::value, with one level of nesting for each value.           *)
Value(s) ==
    IF Len(cxt.stack) >= MaxNest THEN Fail("parse_error")
    ELSE CASE s.type = "[" -> PushValue(JsonValue("array", View(NoText)), cxt.buffer)
           [] s.type = "{" -> PushValue(JsonValue("object", View(NoText)), cxt.buffer)
           [] s.type = "string" -> PushValue(JsonValue("string", Intern(s)),
                                             IF s.escaped THEN s.text ELSE cxt.buffer)
           [] s.type = "true" -> PushValue(JsonValue("true", View(NoText)), cxt.buffer)
           [] OTHER -> Fail("parse_error")

(* end_array and end_object.                                               *)
EndContainer == LET below == Front(cxt.stack) IN
                cxt' = [cxt EXCEPT !.stack = below, !.at = After(below)] /\ UNCHANGED doc

(* json_parser::array: white space hides a ']' from the look after a ','.  *)
Array(s) == CASE s.type = "]" -> EndContainer
              [] OTHER -> Value(s)
AfterItem(s) == CASE s.type = "]" -> EndContainer
                  [] s.type = "," -> Goto("comma")
                  [] OTHER -> Fail("parse_error")
Comma(s) == IF s.type = "]" THEN Fail("parse_error") ELSE Array(s)

(* json_parser::object                                                     *)
ObjectKey(s) == /\ cxt' = [cxt EXCEPT !.at = "colon",
                                      !.buffer = IF s.escaped THEN s.text ELSE @,
                                      !.stack = [@ EXCEPT ![Len(@)].key = Intern(s)]]
                /\ UNCHANGED doc
Object(s) == CASE s.type = "}" /\ cxt.at = "object" -> EndContainer
               [] s.type = "string" -> ObjectKey(s)
               [] OTHER -> Fail("parse_error")
Colon(s) == IF s.type = ":" THEN Goto("member") ELSE Fail("parse_error")
AfterMember(s) == CASE s.type = "}" -> EndContainer
                    [] s.type = "," -> Goto("new key")
                    [] OTHER -> Fail("parse_error")

Errors == {"parse_error", "document_error", "general_error"}

(* The next symbol.  White space is skipped everywhere, but ends the look  *)
(* at what follows a comma.  (What comes after an error is not read.)      *)
Accept(s) ==
    /\ cxt.at \in {"start", "array", "comma", "after item", "object", "colon", "member",
                   "after member", "new key", "end"}
    /\ Len(file) < MaxSymbols
    /\ IF s = Space THEN Goto(IF cxt.at = "comma" THEN "array" ELSE cxt.at)
       ELSE CASE cxt.at \in {"start", "member"} -> Value(s)
              [] cxt.at = "array" -> Array(s)
              [] cxt.at = "comma" -> Comma(s)
              [] cxt.at = "after item" -> AfterItem(s)
              [] cxt.at \in {"object", "new key"} -> Object(s)
              [] cxt.at = "colon" -> Colon(s)
              [] cxt.at = "after member" -> AfterMember(s)
              [] cxt.at = "end" -> Fail("parse_error")
    /\ file' = IF cxt'.at \in Errors THEN file ELSE Append(file, s)

ReadSymbol == \E s \in Symbols : (s = Space => Space \notin Range(file)) /\ Accept(s)

EndOfStream == /\ cxt.at = "end"
               /\ cxt' = [cxt EXCEPT !.at = "references"]
               /\ UNCHANGED <<doc, file>>
-----------------------------------------------------------------------------
(* document_tree::load: the other files, in the order of the references.   *)
(* Their values join the resource of this tree.  (A reference without a    *)
(* path, "#...", is left as it is; the texts here are paths.)              *)
External(path) ==
    LET e == Externals[path]   id == Len(doc.nodes)
        kids == [k \in DOMAIN e.keys |-> [JsonValue("true", View(NoText)) EXCEPT !.parent = id + 1]]
    IN  <<[JsonValue(e.type, View(NoText)) EXCEPT
             !.order = IF cxt.preserve /\ e.type = "object" THEN e.keys ELSE << >>,
             !.object = IF e.type # "object" THEN NoObject
                        ELSE [k \in Range(e.keys) |-> id + 1 + (CHOOSE i \in DOMAIN e.keys : e.keys[i] = k)]]>>
        \o kids

Swapped(nodes, src, dest) ==
    [nodes EXCEPT ![dest].order = nodes[src].order, ![dest].object = nodes[src].object,
                  ![dest].has_ref = FALSE,
                  ![src].order = nodes[dest].order, ![src].object = nodes[dest].object]

ResolveReference ==
    /\ cxt.at = "references" /\ cxt.refs # << >>
    /\ LET ref == Head(cxt.refs)   e == Externals[ref.path]
           src == Len(doc.nodes) + 1   nodes == doc.nodes \o External(ref.path)
       IN IF e.type \in {"outside", "malformed"} THEN Fail("general_error")
          ELSE /\ doc' = [doc EXCEPT !.nodes =
                     IF e.type = "object" /\ Cardinality(DOMAIN doc.nodes[ref.dest].object) = 1
                     THEN Swapped(nodes, src, ref.dest) ELSE nodes]
               /\ cxt' = [cxt EXCEPT !.refs = Tail(@)]
    /\ UNCHANGED file

Loaded == /\ cxt.at = "references" /\ cxt.refs = << >>
          /\ cxt' = [cxt EXCEPT !.at = "loaded"]
          /\ UNCHANGED <<doc, file>>
-----------------------------------------------------------------------------
(* Initializers.  A list of two whose first is a string is a member of an  *)
(* object, a list of members an object, any other list an array.           *)
IsPair(v) == v.type = "list" /\ Len(v.items) = 2 /\ v.items[1].type = "string"
TypeOfInit(v) == IF IsPair(v) THEN "pair" ELSE v.type

(* aggregate_nodes_to_object and _to_array: the values ids become the      *)
(* children of the value p; NoHeap when an exception is thrown.            *)
NoHeap == << >>
Adopt(nodes, ids, p) == [k \in DOMAIN nodes |-> IF k \in Range(ids) THEN [nodes[k] EXCEPT !.parent = p] ELSE nodes[k]]
AggregateToArray(nodes, p, ids) ==
    IF \E i \in Range(ids) : nodes[i].type = "pair" THEN NoHeap
    ELSE Adopt([nodes EXCEPT ![p] = [@ EXCEPT !.type = "array", !.array = ids]], ids, p)
AggregateToObject(nodes, p, ids) ==
    LET keys == [k \in DOMAIN ids |-> nodes[ids[k]].text.text]
        members == [k \in DOMAIN ids |-> nodes[ids[k]].array[1]]
    IN  IF \E i, j \in DOMAIN keys : i # j /\ keys[i] = keys[j] THEN NoHeap
        ELSE Adopt([nodes EXCEPT ![p] = [@ EXCEPT !.type = "object", !.order = keys,
                      !.object = [k \in Range(keys) |-> members[CHOOSE i \in DOMAIN keys : keys[i] = k]]]],
                   members, p)
Aggregate(nodes, p, ids, object) ==
    IF object THEN AggregateToObject(nodes, p, ids) ELSE AggregateToArray(nodes, p, ids)
AllPairs(items) == \A k \in DOMAIN items : IsPair(items[k])

(* node::to_json_value: the value is made after those in it, and is the    *)
(* last of the heap.                                                       *)
RECURSIVE ToJsonValue(_, _), MakeAll(_, _, _)
MakeAll(items, nodes, ids) ==
    IF items = << >> THEN [nodes |-> nodes, ids |-> ids]
    ELSE LET made == ToJsonValue(Head(items), nodes) IN
         IF made = NoHeap THEN [nodes |-> NoHeap, ids |-> << >>]
         ELSE MakeAll(Tail(items), made, Append(ids, Len(made)))
ToJsonValue(v, nodes) ==
    CASE TypeOfInit(v) = "pair" ->
           LET made == ToJsonValue(v.items[2], nodes) IN
           IF made = NoHeap \/ Last(made).type = "pair" THEN NoHeap
           ELSE Append(made, [JsonValue("pair", View(v.items[1].text)) EXCEPT !.array = <<Len(made)>>])
      [] TypeOfInit(v) \in {"list", "array"} ->
           LET made == MakeAll(v.items, nodes, << >>)
               p == Len(made.nodes) + 1
           IN  IF made.nodes = NoHeap /\ v.items # << >> THEN NoHeap
               ELSE Aggregate(Append(made.nodes, JsonValue("array", View(NoText))), p, made.ids,
                              v.type = "list" /\ v.items # << >> /\ AllPairs(v.items))
      [] OTHER -> Append(nodes, JsonValue(v.type, View(v.text)))

(* node::store_to_node: an empty list makes an object here.                *)
StoreToNode(v, n) ==
    LET plain == [JsonValue(v.type, View(v.text)) EXCEPT !.parent = doc.nodes[n].parent]
        made == MakeAll(v.items, [doc.nodes EXCEPT ![n] = plain], << >>)
    IN  CASE TypeOfInit(v) = "pair" -> NoHeap
          [] TypeOfInit(v) = "list" /\ made.nodes # NoHeap ->
               Aggregate(made.nodes, n, made.ids, AllPairs(v.items))
          [] TypeOfInit(v) = "array" /\ made.nodes # NoHeap -> AggregateToArray(made.nodes, n, made.ids)
          [] TypeOfInit(v) \in {"list", "array"} -> NoHeap
          [] OTHER -> made.nodes

(* The nodes that child() and operator[] lead to.                          *)
Children(nodes, n) == CASE nodes[n].type = "array" -> Range(nodes[n].array)
                        [] nodes[n].type = "object" -> Range(nodes[n].object)
                        [] OTHER -> {}
RECURSIVE Below(_, _), Meaning(_, _)
Below(nodes, n) == {n} \cup UNION {Below(nodes, m) : m \in Children(nodes, n)}

(* What a value says, the order of members left aside.                     *)
Meaning(nodes, n) ==
    LET v == nodes[n] IN
    CASE v.type = "array" -> <<"array", [i \in DOMAIN v.array |-> Meaning(nodes, v.array[i])]>>
      [] v.type = "object" -> <<"object", [k \in DOMAIN v.object |-> Meaning(nodes, v.object[k])]>>
      [] OTHER -> <<v.type, Read(v.text, cxt.buffer)>>

Writes == SelectSeq(file, LAMBDA s : s.type = "write")
Write(op, n, arg, nodes) ==
    /\ file' = Append(file, [type |-> "write", op |-> op, node |-> n, arg |-> arg, nodes |-> doc.nodes])
    /\ IF nodes = NoHeap THEN Fail("document_error")
       ELSE doc' = [doc EXCEPT !.nodes = nodes] /\ UNCHANGED cxt
Nodes == Below(doc.nodes, doc.root)
Writable == cxt.at = "loaded" /\ Len(Writes) < MaxWrites /\ Len(file) <= MaxWritten

Assign == Writable /\ \E n \in Nodes, v \in Inits : Write("=", n, v, StoreToNode(v, n))

(* operator[] makes a value for a key that is not there.                   *)
Subscript ==
    Writable /\ \E n \in Nodes, k \in Texts :
        /\ doc.nodes[n].type = "object" /\ k \notin DOMAIN doc.nodes[n].object
        /\ Write("[]", n, k, Append([doc.nodes EXCEPT ![n].object = (k :> Len(doc.nodes) + 1) @@ @],
                                    [JsonValue("unset", View(NoText)) EXCEPT !.parent = n]))

PushBack ==
    Writable /\ \E n \in Nodes, v \in Inits :
        /\ doc.nodes[n].type = "array"
        /\ LET made == ToJsonValue(v, doc.nodes) IN
           Write("push_back", n, v,
                 IF made = NoHeap THEN NoHeap
                 ELSE [made EXCEPT ![n].array = Append(@, Len(made))])

(* dump_value: the text a value is written as, when its objects give their *)
(* members in the orders that order says.                                  *)
RECURSIVE Dump(_, _, _)
Separated(parts, n) == FlattenSeq([k \in DOMAIN parts |-> parts[k] \o IF k < n THEN <<Mark(",")>> ELSE << >>])
Dump(nodes, n, order) ==
    LET v == nodes[n] IN
    CASE v.type = "array" ->
           <<Mark("[")>> \o Separated([k \in DOMAIN v.array |-> Dump(nodes, v.array[k], order)], Len(v.array))
           \o <<Mark("]")>>
      [] v.type = "object" ->
           <<Mark("{")>>
           \o Separated([k \in DOMAIN order[n] |-> <<Symbol("string", order[n][k], FALSE), Mark(":")>>
                                                   \o Dump(nodes, v.object[order[n][k]], order)],
                        Cardinality(DOMAIN v.object))
           \o <<Mark("}")>>
      [] v.type = "unset" -> << >>
      [] OTHER -> <<Symbol(v.type, Read(v.text, cxt.buffer), FALSE)>>

(* dump_value_xml: the tags of a value at a level, the outermost with the   *)
(* namespace when it is not a scalar.                                      *)
Tag(t, name, ns) == [type |-> t, text |-> name, ns |-> ns]
XmlItem(name, inside) == <<Tag("item", name, FALSE)>> \o inside \o <<Tag("/item", NoText, FALSE)>>
RECURSIVE XmlDump(_, _, _, _)
XmlItems(nodes, ids, names, order, level) ==
    FlattenSeq([k \in DOMAIN ids |-> XmlItem(names[k], XmlDump(nodes, ids[k], order, level + 1))])
XmlDump(nodes, n, order, level) ==
    LET v == nodes[n] IN
    CASE v.type = "array" ->
           <<Tag("array", NoText, level = 0)>>
           \o XmlItems(nodes, v.array, [k \in DOMAIN v.array |-> NoText], order, level)
           \o <<Tag("/array", NoText, FALSE)>>
      [] v.type = "object" ->
           <<Tag("object", NoText, level = 0)>>
           \o XmlItems(nodes, [k \in DOMAIN order[n] |-> v.object[order[n][k]]], order[n], order, level)
           \o <<Tag("/object", NoText, FALSE)>>
      [] v.type = "unset" -> << >>
      [] OTHER -> <<Tag(v.type, Read(v.text, cxt.buffer), FALSE)>>

(* yaml_dumper: what is written, in pieces, for a value at an indent.  A   *)
(* line break right after another one is left out; the value is a piece    *)
(* of its own, as it comes between two.  How an array or an object begins  *)
(* depends on what the value has for its parent.                           *)
Piece(t, x) == [type |-> t, x |-> x]
LineEnd == Piece("break", 0)
Indent(n) == Piece("indent", n)
ParentType(nodes, v) == IF v.parent = 0 THEN "unset" ELSE nodes[v.parent].type
RECURSIVE YamlValue(_, _, _, _)
YamlItems(nodes, v, order, indent) ==
    FlattenSeq([k \in DOMAIN v.array |->
        <<Indent(indent), Piece("dash", 0)>> \o YamlValue(nodes, v.array[k], order, indent + 2) \o <<LineEnd>>])
YamlMembers(nodes, v, keys, order, indent) ==
    FlattenSeq([k \in DOMAIN keys |->
        (IF k = 1 /\ ParentType(nodes, v) = "array" THEN << >> ELSE <<Indent(indent)>>)
        \o <<Piece("key", keys[k])>> \o YamlValue(nodes, v.object[keys[k]], order, indent + 2) \o <<LineEnd>>])
YamlValue(nodes, n, order, indent) ==
    LET v == nodes[n]   up == ParentType(nodes, v) IN
    <<Piece("value", 0)>> \o
    CASE v.type = "array" ->
           (IF up = "unset" THEN << >> ELSE <<LineEnd>>) \o YamlItems(nodes, v, order, indent)
      [] v.type = "object" /\ order[n] # << >> ->
           (IF up \in {"unset", "array"} THEN << >> ELSE <<LineEnd>>) \o YamlMembers(nodes, v, order[n], order, indent)
      [] v.type \in {"object", "unset"} -> << >>
      [] OTHER -> <<Piece("scalar", IF v.type = "string" THEN Read(v.text, cxt.buffer) ELSE v.type)>>

(* An object without key_order gives its members in any order.             *)
KeyOrders ==
    LET loose == {n \in DOMAIN doc.nodes : doc.nodes[n].order = << >> /\ Cardinality(DOMAIN doc.nodes[n].object) > 1}
        orders(n) == SetToSeqs(DOMAIN doc.nodes[n].object)
    IN  {[n \in DOMAIN doc.nodes |-> IF n \in loose THEN o[n]
                                     ELSE IF doc.nodes[n].order # << >> THEN doc.nodes[n].order
                                     ELSE SetToSeq(DOMAIN doc.nodes[n].object)] :
            o \in {f \in [loose -> UNION {orders(n) : n \in loose}] : \A n \in loose : f[n] \in orders(n)}}

Next == \/ ReadSymbol \/ EndOfStream \/ ResolveReference \/ Loaded
        \/ Assign \/ Subscript \/ PushBack

Spec == Init /\ [][Next]_vars
-----------------------------------------------------------------------------
(* What an initializer stands for.                                         *)
RECURSIVE Said(_)
Said(v) ==
    CASE v.type = "list" /\ v.items # << >> /\ AllPairs(v.items) ->
           <<"object", [k \in {p.items[1].text : p \in Range(v.items)} |->
                           Said((CHOOSE p \in Range(v.items) : p.items[1].text = k).items[2])]>>
      [] v.type \in {"list", "array"} -> <<"array", [i \in DOMAIN v.items |-> Said(v.items[i])]>>
      [] v.type = "object" -> <<"object", NoObject>>
      [] OTHER -> <<v.type, v.text>>

(* A stream that is accepted is dumped as it was, with the members in      *)
(* their order when that is asked for, whatever is in the parser's buffer  *)
(* by then.  (A comma before white space and a ']' is passed over.)        *)
Solid == SelectSeq(file, LAMBDA s : s # Space)
Unescaped == [k \in DOMAIN Solid |-> [Solid[k] EXCEPT !.escaped = FALSE]]
Significant == LET commas == {k \in DOMAIN Unescaped : Unescaped[k].type = "," /\ Unescaped[k+1].type = "]"}
               IN  [k \in 1..Len(Unescaped) - Cardinality(commas) |->
                       Unescaped[CHOOSE i \in (DOMAIN Unescaped) \ commas :
                                    i - Cardinality({j \in commas : j < i}) = k]]
JsonTextIsKept ==
    (cxt.at = "loaded" /\ Writes = << >> /\ cxt.resolve = FALSE) =>
        \E o \in KeyOrders : Dump(doc.nodes, doc.root, o) = Significant

(* An object that is a reference, and nothing but that, has the members of *)
(* the document it refers to; every other object has its own.              *)
JsonReferencesResolve ==
    (cxt.at = "loaded" /\ Writes = << >>) =>
        \A n \in Nodes : doc.nodes[n].type = "object" =>
            LET v == doc.nodes[n] IN
            DOMAIN v.object = {Ref} /\ cxt.resolve /\ doc.nodes[v.object[Ref]].type = "string" =>
                Externals[doc.nodes[v.object[Ref]].text.text].type # "object"

(* A write changes the value of the node it is made to, as it says, and of *)
(* those around it; a node that stands elsewhere keeps its value.  (How an *)
(* empty list counts depends on where it stands.)                          *)
JsonWritesAreLocal ==
    (cxt.at = "loaded" /\ Writes # << >>) =>
        LET w == Last(Writes)
            before(n) == Meaning(w.nodes, n)
            after(n) == Meaning(doc.nodes, n)
        IN  /\ \A n \in Nodes \cap DOMAIN w.nodes : w.node \notin Below(w.nodes, n) => after(n) = before(n)
            /\ w.op = "=" => after(w.node) = Said(w.arg)
            /\ w.op = "push_back" => after(w.node)[2] = Append(before(w.node)[2], Said(w.arg))
            /\ w.op = "[]" => after(w.node)[2] = (w.arg :> <<"unset", NoText>>) @@ before(w.node)[2]
(* Read as XML, the dump of a tree says what the tree does, by elements    *)
(* one inside of the other: item elements take the names of the members.   *)
Frame(t) == [type |-> t, name |-> NoText, names |-> << >>, values |-> << >>]
Collected(f) ==
    IF f.type = "array" THEN <<"array", f.values>>
    ELSE <<"object", [k \in Range(f.names) |-> f.values[CHOOSE i \in DOMAIN f.names : f.names[i] = k]]>>
Given(stack, m) ==
    [stack EXCEPT ![Len(stack)].names = Append(@, stack[Len(stack)].name),
                  ![Len(stack)].values = Append(@, m)]
ReadTag(stack, t) ==
    CASE t.type = "item" -> [stack EXCEPT ![Len(stack)].name = t.text]
      [] t.type = "/item" -> stack
      [] t.type \in Containers -> Append(stack, Frame(t.type))
      [] t.type \in {"/array", "/object"} -> Given(Front(stack), Collected(Last(stack)))
      [] OTHER -> Given(stack, <<t.type, t.text>>)
XmlMeaning(tags) == FoldLeft(ReadTag, <<Frame("document")>>, tags)[1].values

(* Read as YAML, by lines and the columns they begin in.                   *)
LinesOf(pieces) ==
    LET kept == SelectSeq([k \in DOMAIN pieces |->
                    IF pieces[k] = LineEnd /\ k > 1 /\ pieces[k-1] = LineEnd THEN Piece("value", 0) ELSE pieces[k]],
                          LAMBDA x : x.type # "value")
        AddPiece(lines, x) == IF x = LineEnd THEN Append(lines, << >>)
                              ELSE [lines EXCEPT ![Len(lines)] = Append(@, x)]
    IN  SelectSeq(FoldLeft(AddPiece, << << >> >>, kept), LAMBDA l : l # << >>)
From(col, pieces) ==
    IF pieces # << >> /\ Head(pieces).type = "indent" THEN [col |-> col + Head(pieces).x, marks |-> Tail(pieces)]
    ELSE [col |-> col, marks |-> pieces]
RECURSIVE YamlMeaning(_)
YamlEntry(lines, from, to) ==
    LET first == lines[from]   rest == SubSeq(lines, from + 1, to) IN
    YamlMeaning(IF Len(first.marks) = 1 THEN rest ELSE <<From(first.col + 2, Tail(first.marks))>> \o rest)
YamlMeaning(lines) ==
    LET col == lines[1].col
        mark(k) == Head(lines[k].marks)
        starts == SelectSeq([k \in DOMAIN lines |-> k], LAMBDA k : lines[k].col <= col)
        entry(k) == YamlEntry(lines, starts[k], IF k = Len(starts) THEN Len(lines) ELSE starts[k+1] - 1)
    IN  CASE lines = << >> -> <<"nothing">>
          [] \E k \in Range(starts) : lines[k].col # col \/ mark(k).type # mark(1).type -> <<"mixed">>
          [] mark(1).type = "scalar" -> IF Len(lines) = 1 THEN <<mark(1).x>> ELSE <<"folded">>
          [] mark(1).type = "dash" -> <<"array", [k \in DOMAIN starts |-> entry(k)]>>
          [] mark(1).type = "key" ->
               <<"object", [x \in {mark(starts[k]).x : k \in DOMAIN starts} |->
                               entry(CHOOSE k \in DOMAIN starts : mark(starts[k]).x = x)]>>
YamlText(lines) == YamlMeaning([k \in DOMAIN lines |-> From(0, lines[k])])
RECURSIVE Plain(_)
Plain(m) ==
    CASE m[1] = "array" -> <<"array", [i \in DOMAIN m[2] |-> Plain(m[2][i])]>>
      [] m[1] = "object" -> <<"object", [k \in DOMAIN m[2] |-> Plain(m[2][k])]>>
      [] OTHER -> <<IF m[1] = "string" THEN m[2] ELSE m[1]>>

(* The other dumps of a loaded tree say what the tree does.  A value that  *)
(* is not set is in neither.  YAML has no text for an empty array and an   *)
(* empty object, and goes wrong for a value that does not know its parent, *)
(* as one that push_back() made.  (The scalars of YAML are their texts.)   *)
HasText(n) == doc.nodes[n].type \in Containers => Children(doc.nodes, n) # {}
KnowsParent(n) == \A m \in Children(doc.nodes, n) :
                     doc.nodes[m].type \in Containers => ParentType(doc.nodes, doc.nodes[m]) = doc.nodes[n].type
JsonDumpsAreReadAgain ==
    (cxt.at = "loaded" /\ \A n \in Nodes : doc.nodes[n].type # "unset") =>
        \A o \in KeyOrders :
            LET said == Meaning(doc.nodes, doc.root) IN
            /\ XmlMeaning(XmlDump(doc.nodes, doc.root, o, 0)) = <<said>>
            /\ (\A n \in Nodes : HasText(n) /\ KnowsParent(n)) =>
                  YamlText(LinesOf(YamlValue(doc.nodes, doc.root, o, 0))) = Plain(said)
=============================================================================
