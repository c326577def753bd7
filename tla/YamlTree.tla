------------------------------ MODULE YamlTree ------------------------------
(***************************************************************************)
(* yaml::document_tree: yaml_parser keeps a stack of scopes, one for each  *)
(* indent, and calls a handler that makes a tree of yaml_values.  A line   *)
(* is its indent and the items on it: dashes and keys, then a scalar.      *)
(* Assertions are those of a release build: none.                          *)
(***************************************************************************)
EXTENDS Integers, FiniteSets, SequencesExt

CONSTANTS Lines,        \* lines a stream may consist of
          Numbers,      \* texts that are a number
          Null,         \* the text that is the keyword for null
          Space, Break, \* what joins the lines of a string
          MaxLines      \* bound on the length of the stream

VARIABLES doc,          \* document_tree::impl::m_docs, as what its values mean
          cxt,          \* the parser and its handler
          file          \* the number of lines that were read

vars == <<doc, cxt, file>>

Item(k, t) == [kind |-> k, text |-> t]
Line(i, items) == [indent |-> i, items |-> items]
Width(item) == IF item.kind = "dash" THEN 2 ELSE 3      \* "- " and "k: "

Scope(w) == [width |-> w, type |-> "unset"]
NoScope == -1                                           \* scope_empty
Parser == [scopes |-> << >>, buffer |-> << >>, literal |-> FALSE, last |-> "begin_parse",
           document |-> FALSE, nodes |-> << >>, root |-> 0, stack |-> << >>, docs |-> << >>, error |-> ""]

Init == doc = << >> /\ cxt = [phase |-> "parse", p |-> Parser] /\ file = 0

Fail(p, why) == [p EXCEPT !.error = why]
Sound(p) == p.error = ""
-----------------------------------------------------------------------------
(* The handler.  A key waits on the stack for its value; a map keeps its   *)
(* keys in order, and finds a value by the address of its key.             *)
YamlValue(t, s) == [type |-> t, text |-> s, keys |-> << >>, values |-> << >>]

Attach(p, id) ==
    LET n == p.stack[Len(p.stack)].node   key == p.stack[Len(p.stack)].key
        v == p.nodes[n]
        there == {k \in DOMAIN v.keys : v.keys[k] = key}
    IN  IF v.type = "sequence" THEN [p EXCEPT !.nodes[n].values = Append(@, id)]
        ELSE [p EXCEPT !.nodes[n].keys = Append(@, key),
                       !.nodes[n].values = Append(@, IF there = {} THEN id ELSE @[CHOOSE k \in there : TRUE]),
                       !.stack[Len(p.stack)].key = 0]

Placed(p) == IF p.root = 0 THEN [p EXCEPT !.root = Len(p.nodes)] ELSE Attach(p, Len(p.nodes))
Opened(p, type) == IF type \notin {"sequence", "map"} THEN p
                   ELSE [p EXCEPT !.stack = Append(@, [node |-> Len(p.nodes), key |-> 0])]
Handle(p, type, text) ==
    IF p.root # 0 /\ p.stack = << >> THEN Fail(p, "undefined")
    ELSE Opened(Placed([p EXCEPT !.nodes = Append(@, YamlValue(type, text)), !.last = type]), type)

EndContainer(p, token) == IF p.stack = << >> THEN Fail(p, "undefined")
                          ELSE [p EXCEPT !.stack = Front(@), !.last = token]

(* begin_map_key, the scalar, end_map_key.                                 *)
HandleKey(p, type, text) ==
    IF p.stack = << >> THEN Fail(p, "undefined")
    ELSE [p EXCEPT !.nodes = Append(@, YamlValue(type, text)),
                   !.stack[Len(p.stack)].key = Len(p.nodes) + 1, !.last = "end_map_key"]

BeginDocument(p) == [p EXCEPT !.document = TRUE, !.root = 0, !.last = "begin_document"]
CheckOrBeginDocument(p) == IF p.document THEN p ELSE BeginDocument(p)
EndDocument(p) == IF p.document THEN [p EXCEPT !.docs = Append(@, p.root), !.root = 0] ELSE p
-----------------------------------------------------------------------------
(* Scopes.                                                                 *)
GetScope(p) == IF p.scopes = << >> THEN NoScope ELSE Last(p.scopes).width
ScopeType(p) == Last(p.scopes).type
SetScopeType(p, t) == [p EXCEPT !.scopes[Len(p.scopes)].type = t]
PushScope(p, w) == [p EXCEPT !.scopes = Append(@, Scope(w))]

TypeOfScalar(text) == IF text \in Numbers THEN "number" ELSE IF text = Null THEN "null" ELSE "string"
ParseValue(p, text) == Handle(CheckOrBeginDocument(p), TypeOfScalar(text), text)

MergeLineBuffer(p) ==
    LET sep == IF p.literal THEN Break ELSE Space IN
    FlattenSeq([k \in DOMAIN p.buffer |-> IF k = 1 THEN p.buffer[1] ELSE <<sep>> \o p.buffer[k]])
HandleNullAfter(p, token) == IF p.last = token THEN Handle(p, "null", Null) ELSE p

EndScope(p) ==
    LET q == CASE ScopeType(p) = "map" -> EndContainer(HandleNullAfter(p, "end_map_key"), "end_map")
               [] ScopeType(p) = "sequence" ->
                    EndContainer(HandleNullAfter(p, "begin_sequence_element"), "end_sequence")
               [] ScopeType(p) = "multi_line_string" ->
                    [Handle(p, "string", MergeLineBuffer(p)) EXCEPT !.buffer = << >>, !.literal = FALSE]
               [] ScopeType(p) = "unset" ->
                    IF p.buffer = << >> THEN p
                    ELSE ParseValue([p EXCEPT !.buffer = Tail(@)], Head(p.buffer))
    IN [q EXCEPT !.scopes = Front(@)]

CheckOrBeginMap(p) ==
    CASE ScopeType(p) = "unset" -> Handle(SetScopeType(CheckOrBeginDocument(p), "map"), "map", << >>)
      [] ScopeType(p) = "map" -> HandleNullAfter(p, "end_map_key")
      [] OTHER -> p
CheckOrBeginSequence(p) ==
    LET q == CASE ScopeType(p) = "unset" ->
                    Handle(SetScopeType(CheckOrBeginDocument(p), "sequence"), "sequence", << >>)
               [] ScopeType(p) = "sequence" -> HandleNullAfter(p, "begin_sequence_element")
               [] OTHER -> p
    IN [q EXCEPT !.last = "begin_sequence_element"]
-----------------------------------------------------------------------------
(* The rest of a line, from its next item on.                              *)
PushValue(p, text) ==
    LET q == CheckOrBeginDocument(p) IN
    [IF p.buffer # << >> /\ ScopeType(p) = "unset" THEN SetScopeType(q, "multi_line_string") ELSE q
     EXCEPT !.buffer = Append(@, text)]

RECURSIVE ParseLine(_, _)
AfterKey(p, items) ==
    CASE ~Sound(p) \/ Len(items) = 1 -> p
      [] Sound(p) /\ Len(items) > 1 /\ items[2].kind = "bar" -> [p EXCEPT !.literal = TRUE]
      [] Sound(p) /\ Len(items) > 1 /\ items[2].kind = "dash" -> Fail(p, "parse_error")
      [] OTHER -> ParseLine(PushScope(p, GetScope(p) + Width(items[1])), Tail(items))

AfterDash(p, items) ==
    IF Len(items) = 1 \/ ~Sound(p) THEN p
    ELSE ParseLine(PushScope(p, GetScope(p) + Width(items[1])), Tail(items))

DocumentStart(p, items) ==
    LET q == [BeginDocument(p) EXCEPT !.scopes = << >>] IN
    IF Len(items) = 1 THEN q ELSE ParseLine(PushScope(q, 0), Tail(items))

ParseMapKey(p, items) ==
    LET item == items[1] IN
    CASE item.kind = "quoted" -> Handle(p, "string", item.text)
      [] item.kind = "quoted key" -> AfterKey(HandleKey(CheckOrBeginMap(p), "string", item.text), items)
      [] item.kind = "key" -> AfterKey(HandleKey(CheckOrBeginMap(p), TypeOfScalar(item.text), item.text), items)
      [] item.kind \in {"bar", "text"} /\ ScopeType(p) = "map" -> Fail(p, "parse_error")
      [] item.kind = "bar" /\ ScopeType(p) # "map" -> [p EXCEPT !.literal = TRUE]
      [] item.kind = "text" /\ ScopeType(p) # "map" -> PushValue(p, item.text)

ParseLine(p, items) ==
    CASE items[1].kind = "dash" -> AfterDash(CheckOrBeginSequence(p), items)
      [] items[1].kind = "---" -> DocumentStart(p, items)
      [] items[1].kind \notin {"dash", "---"} /\ ScopeType(p) = "sequence" -> Fail(p, "parse_error")
      [] OTHER -> ParseMapKey(p, items)

(* What a line is when it is taken as text.                                *)
TextOf(items) == FlattenSeq([k \in DOMAIN items |-> <<items[k].kind>> \o items[k].text])
AsText(items) == IF Len(items) = 1 /\ items[1].kind = "text" THEN items[1].text ELSE TextOf(items)

LineInLiteral(p, line) ==
    LET extra == [k \in 1..line.indent - GetScope(p) |-> Space] IN
    IF p.buffer # << >> THEN [p EXCEPT !.buffer = Append(@, extra \o AsText(line.items))]
    ELSE IF line.indent = GetScope(p) THEN Fail(p, "parse_error")
    ELSE [SetScopeType(PushScope(p, line.indent), "multi_line_string") EXCEPT !.buffer = <<AsText(line.items)>>]

RECURSIVE EndScopesTo(_, _)
EndScopesTo(p, indent) ==
    IF ~Sound(p) \/ GetScope(p) = indent THEN p
    ELSE IF GetScope(p) < indent THEN Fail(p, "parse_error")
    ELSE EndScopesTo(EndScope(p), indent)

(* One turn of the loop of parse().                                        *)
Step(p, line) ==
    LET inside == GetScope(p) # NoScope /\ GetScope(p) <= line.indent
        start(q) == IF Sound(q) THEN ParseLine(q, line.items) ELSE q
    IN  IF inside /\ p.literal THEN LineInLiteral(p, line)
        ELSE IF inside /\ p.buffer # << >>
        THEN [SetScopeType(p, "multi_line_string") EXCEPT !.buffer = Append(@, AsText(line.items))]
        ELSE start(CASE GetScope(p) = NoScope /\ line.indent > 0 -> Fail(p, "parse_error")
                     [] GetScope(p) < line.indent -> PushScope(p, line.indent)
                     [] OTHER -> EndScopesTo(p, line.indent))

RECURSIVE EndAllScopes(_)
EndAllScopes(p) == IF p.scopes = << >> \/ ~Sound(p) THEN p ELSE EndAllScopes(EndScope(p))
End(p) == LET end(q) == IF Sound(q) THEN EndDocument(q) ELSE q IN end(EndAllScopes(p))
-----------------------------------------------------------------------------
(* What a value says: keys and values in their order.                      *)
RECURSIVE Meaning(_, _)
Meaning(nodes, n) ==
    IF n = 0 THEN <<"none">>
    ELSE LET v == nodes[n] IN
         CASE v.type = "sequence" -> <<"sequence", [k \in DOMAIN v.values |-> Meaning(nodes, v.values[k])]>>
           [] v.type = "map" -> <<"map", [k \in DOMAIN v.values |-> Meaning(nodes, v.keys[k])],
                                         [k \in DOMAIN v.values |-> Meaning(nodes, v.values[k])]>>
           [] OTHER -> <<v.type, v.text>>

Trees(p) == [error |-> p.error,
             docs |-> IF Sound(p) THEN [k \in DOMAIN p.docs |-> Meaning(p.nodes, p.docs[k])] ELSE << >>]

After(p) == [phase |-> IF Sound(p) THEN "parse" ELSE p.error, p |-> IF Sound(p) THEN p ELSE Parser]
ReadLine == \E line \in Lines :
    /\ cxt.phase = "parse" /\ file < MaxLines
    /\ cxt' = After(Step(cxt.p, line))
    /\ file' = file + 1
    /\ UNCHANGED doc

EndOfStream ==
    /\ cxt.phase = "parse"
    /\ LET result == Trees(End(cxt.p)) IN
       /\ cxt' = [phase |-> IF result.error = "" THEN "done" ELSE result.error, p |-> Parser]
       /\ doc' = result.docs
    /\ UNCHANGED file

Next == ReadLine \/ EndOfStream

Spec == Init /\ [][Next]_vars
-----------------------------------------------------------------------------
(* dump_yaml: a container that stands in another one goes to the lines     *)
(* below, four columns to the right.                                       *)
NothingToQuote(text) == FALSE
NeedsQuoting(text) == text \in Numbers
DumpScalar(v) == IF v[1] = "string" /\ NeedsQuoting(v[2]) THEN Item("quoted", v[2]) ELSE Item("text", v[2])
DumpKey(v) == IF v[1] = "string" /\ NeedsQuoting(v[2]) THEN Item("quoted key", v[2]) ELSE Item("key", v[2])
RECURSIVE DumpNode(_, _)
DumpItem(head, v, scope) ==
    IF v[1] \in {"map", "sequence"} THEN <<Line(4 * scope, <<head>>)>> \o DumpNode(v, scope + 1)
    ELSE <<Line(4 * scope, <<head, DumpScalar(v)>>)>>
DumpNode(v, scope) ==
    CASE v[1] = "map" -> FlattenSeq([k \in DOMAIN v[2] |-> DumpItem(DumpKey(v[2][k]), v[3][k], scope)])
      [] v[1] = "sequence" -> FlattenSeq([k \in DOMAIN v[2] |-> DumpItem(Item("dash", << >>), v[2][k], scope)])
      [] OTHER -> <<Line(4 * scope, <<DumpScalar(v)>>)>>
DumpYaml(docs) == FlattenSeq([k \in DOMAIN docs |-> <<Line(0, <<Item("---", << >>)>>)>> \o DumpNode(docs[k], 0)])

Load(lines) == Trees(End(FoldLeft(LAMBDA p, line : IF Sound(p) THEN Step(p, line) ELSE p, Parser, lines)))

(* A tree that was read is the same after it is dumped and read again:     *)
(* the scopes the parser makes of indents are those of the containers.     *)
(* (A string with a line break, a value that has come to a map without a   *)
(* key, and a container without members are not written so that they could *)
(* be read.)                                                               *)
RECURSIVE Written(_)
Written(v) == CASE v[1] = "map" -> /\ v[2] # << >>
                                   /\ \A k \in DOMAIN v[2] : v[2][k] # <<"none">> /\ Written(v[2][k])
                                   /\ \A k \in DOMAIN v[3] : Written(v[3][k])
                [] v[1] = "sequence" -> v[2] # << >> /\ \A k \in DOMAIN v[2] : Written(v[2][k])
                [] v[1] = "none" -> FALSE
                [] OTHER -> Break \notin Range(v[2])
YamlTreeIsReadAgain ==
    (cxt.phase = "done" /\ \A k \in DOMAIN doc : Written(doc[k])) =>
        Load(DumpYaml(doc)) = [error |-> "", docs |-> doc]
-----------------------------------------------------------------------------
(* dump_json, of the first document, as the tokens of it: a key is written *)
(* as it is, a text with its line breaks escaped.                          *)
Token(k, t) == [kind |-> k, text |-> t]
Sign(k) == <<Token(k, << >>)>>
RECURSIVE DumpJsonNode(_)
DumpJsonItem(key, v, sep) == key \o DumpJsonNode(v) \o IF sep THEN Sign(",") ELSE << >>
DumpJsonNode(v) ==
    CASE v[1] = "map" ->
           Sign("{") \o FlattenSeq([k \in DOMAIN v[2] |->
                DumpJsonItem(<<Token("string", v[2][k][2])>> \o Sign(":"), v[3][k], k < Len(v[2]))]) \o Sign("}")
      [] v[1] = "sequence" ->
           Sign("[") \o FlattenSeq([k \in DOMAIN v[2] |-> DumpJsonItem(<< >>, v[2][k], k < Len(v[2]))]) \o Sign("]")
      [] v[1] = "string" -> <<Token("string", FlattenSeq([k \in DOMAIN v[2] |->
                                IF v[2][k] = Break THEN <<"\\", "n">> ELSE <<v[2][k]>>]))>>
      [] v[1] = "null" -> Sign("null")
      [] OTHER -> <<Token(v[1], v[2])>>
RECURSIVE HasOtherKey(_)
HasOtherKey(v) ==              \* "JSON doesn't support non-string key."
    CASE v[1] = "map" -> \E k \in DOMAIN v[2] : v[2][k][1] # "string" \/ HasOtherKey(v[3][k])
      [] v[1] = "sequence" -> \E k \in DOMAIN v[2] : HasOtherKey(v[2][k])
      [] OTHER -> FALSE
DumpJson(docs) == IF docs = << >> THEN << >> ELSE IF HasOtherKey(docs[1]) THEN <<"document_error">> ELSE DumpJsonNode(docs[1])

(* Any tree whose keys are all texts is written as the JSON text of it,    *)
(* one with another key not at all: the text is that of the grammar, with  *)
(* a comma between members and at no other place, and says the same.  (A   *)
(* document, and a member, may have no value when nothing was read for it; *)
(* the program has no JSON for these.)                                     *)
RECURSIVE ReadJson(_, _), ReadMembers(_, _, _, _)
Unescaped(text) ==
    FoldLeft(LAMBDA s, c : IF s # << >> /\ Last(s) = "\\" THEN Append(Front(s), Break) ELSE Append(s, c), << >>, text)
NoJson == [value |-> <<"none">>, end |-> 0]
ReadJson(t, p) ==
    CASE p > Len(t) -> NoJson
      [] p <= Len(t) /\ t[p].kind = "[" -> ReadMembers(t, p + 1, "]", <<"sequence", << >>>>)
      [] p <= Len(t) /\ t[p].kind = "{" -> ReadMembers(t, p + 1, "}", <<"map", << >>, << >>>>)
      [] p <= Len(t) /\ t[p].kind = "string" ->
           [value |-> <<"string", Unescaped(t[p].text)>>,
            end |-> IF Break \in ToSet(t[p].text) THEN 0 ELSE p + 1]
      [] p <= Len(t) /\ t[p].kind = "null" -> [value |-> <<"null", Null>>, end |-> p + 1]
      [] p <= Len(t) /\ t[p].kind = "number" -> [value |-> <<"number", t[p].text>>, end |-> p + 1]
      [] OTHER -> NoJson
ReadMembers(t, p, close, v) ==
    LET keyed == v[1] = "map"
        start == IF keyed THEN p + 2 ELSE p
        member == ReadJson(t, start)
        added == IF keyed THEN <<"map", Append(v[2], ReadJson(t, p).value), Append(v[3], member.value)>>
                 ELSE <<"sequence", Append(v[2], member.value)>>
    IN CASE p > Len(t) -> NoJson
         [] p <= Len(t) /\ t[p].kind = close -> IF t[p - 1].kind = "," THEN NoJson ELSE [value |-> v, end |-> p + 1]
         [] keyed /\ p <= Len(t) /\ t[p].kind # close /\ (p + 1 > Len(t) \/ t[p].kind # "string" \/ t[p + 1].kind # ":") -> NoJson
         [] OTHER -> IF member.end = 0 \/ member.end > Len(t) THEN NoJson
                     ELSE CASE t[member.end].kind = "," -> ReadMembers(t, member.end + 1, close, added)
                            [] t[member.end].kind = close -> [value |-> added, end |-> member.end + 1]
                            [] OTHER -> NoJson
RECURSIVE IsWhole(_)
IsWhole(v) == CASE v[1] = "map" -> \A k \in DOMAIN v[2] : v[2][k] # <<"none">> /\ IsWhole(v[3][k])
                [] v[1] = "sequence" -> \A k \in DOMAIN v[2] : IsWhole(v[2][k])
                [] OTHER -> v # <<"none">>
YamlTreeIsReadAsJson ==
    (cxt.phase = "done" /\ doc # << >> /\ IsWhole(doc[1])) =>
        LET text == DumpJson(doc) IN
        IF HasOtherKey(doc[1]) THEN text = <<"document_error">>
        ELSE ReadJson(text, 1) = [value |-> doc[1], end |-> Len(text) + 1]
=============================================================================
