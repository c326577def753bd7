------------------------------- MODULE DomTree -------------------------------
(***************************************************************************)
(* dom::document_tree: the tree that load() makes of an XML document, what *)
(* the handles of its nodes change, and dump(), which writes it as XML     *)
(* again, with namespace aliases of its own choice.  A node is its place   *)
(* in doc.nodes; it comes after the nodes before it with the same parent.  *)
(***************************************************************************)
EXTENDS Integers, FiniteSets, SequencesExt

CONSTANTS Tags,            \* elements a file may have: [name, decls, attrs]; decls are <<alias, namespace>>
          DomTexts, Blank, \* texts, and the character trim() takes from their ends
          Instructions,    \* [target, attrs]; the target "xml" is the declaration
          Edits,           \* calls on nodes and on the tree: [op, name, value]
          Reloads,         \* whether another file is loaded into the tree
          MaxParts, MaxDepth, MaxEdits   \* bounds

VARIABLES doc,             \* document_tree::impl: what it has when it is loaded
          cxt,             \* its members while it is loaded, and sax_ns_parser
          file             \* what the parser reports, names as they are written

vars == <<doc, cxt, file>>

NoNs == ""                                      \* XMLNS_UNKNOWN_ID
XmlNs == "xml"                                  \* the builtin alias, and its namespace
None == 0
Name(ns, local) == <<ns, local>>

Fresh == [nodes |-> << >>, decl |-> << >>, pis |-> << >>, prolog |-> << >>, epilog |-> << >>]
Loading == [attrs |-> << >>, decls |-> << >>, stack |-> << >>, scopes |-> << >>, error |-> ""]

Node(kind, parent) == [kind |-> kind, parent |-> parent, name |-> Name(NoNs, ""), decls |-> << >>, attrs |-> << >>,
                       value |-> << >>]
Element(parent, name, decls, attrs) ==
    [Node("element", parent) EXCEPT !.name = name, !.decls = decls, !.attrs = attrs]
Leaf(kind, parent, value) == [Node(kind, parent) EXCEPT !.value = value]
WithNode(d, node) == [d EXCEPT !.nodes = Append(@, node)]

Init == doc = Fresh /\ file = << >> /\ cxt = [phase |-> "load", h |-> Loading, edits |-> 0, loads |-> 1]
-----------------------------------------------------------------------------
(* sax_ns_parser: the innermost declaration of an alias counts.            *)
Named(decls, alias) == SelectSeq(decls, LAMBDA d : d[1] = alias)
Resolve(scopes, alias) ==
    LET with == {n \in DOMAIN scopes : Named(scopes[n], alias) # << >>} IN
    IF with = {} THEN (IF alias = XmlNs THEN XmlNs ELSE NoNs) ELSE Last(Named(scopes[Max(with)], alias))[2]
AttributeName(scopes, name) == Name(IF name[1] = "" THEN NoNs ELSE Resolve(scopes, name[1]), name[2])

Trim(text) ==
    LET in == {k \in DOMAIN text : text[k] # Blank} IN
    IF in = {} THEN << >> ELSE SubSeq(text, Min(in), Max(in))

(* document_tree::impl: s is the tree and the members used to load it.     *)
Current(s) == Last(s.h.stack)
StartElement(s, ev) ==
    LET scopes == Append(s.h.scopes, ev.decls)
        twice == \E i, j \in DOMAIN ev.attrs : i # j /\ ev.attrs[i][1] = ev.attrs[j][1]
        attrs == [k \in DOMAIN ev.attrs |-> <<AttributeName(scopes, ev.attrs[k][1]), ev.attrs[k][2]>>]
        parent == IF s.d.nodes = << >> THEN None ELSE Current(s)
        name == Name(Resolve(scopes, ev.name[1]), ev.name[2])
    IN  IF twice THEN [s EXCEPT !.h.error = "malformed_xml_error"]
        ELSE [s EXCEPT !.d = WithNode(@, Element(parent, name, s.h.decls \o ev.decls, s.h.attrs \o attrs)),
                       !.h.stack = Append(@, Len(s.d.nodes) + 1), !.h.scopes = scopes,
                       !.h.attrs = << >>, !.h.decls = << >>]
EndElement(s, ev) == [s EXCEPT !.h.stack = Front(@), !.h.scopes = Front(@)]
Characters(s, text) ==
    IF s.h.stack = << >> \/ Trim(text) = << >> THEN s
    ELSE [s EXCEPT !.d = WithNode(@, Leaf("content", Current(s), Trim(text)))]
Comment(s, text) ==
    IF s.h.stack # << >> THEN [s EXCEPT !.d = WithNode(@, Leaf("comment", Current(s), text))]
    ELSE IF s.d.nodes = << >> THEN [s EXCEPT !.d.prolog = Append(@, text)]
    ELSE [s EXCEPT !.d.epilog = Append(@, text)]

(* Attributes of an instruction are collected like those of an element.    *)
SetAttribute(s, attr) == [s EXCEPT !.h.attrs = Append(@, <<Name(NoNs, attr[1]), attr[2]>>)]
EndInstruction(s, target) ==
    LET attrs == s.h.attrs
        t == [s EXCEPT !.h.attrs = << >>]
    IN  IF target = "xml" THEN [t EXCEPT !.d.decl = <<attrs>>]
        ELSE [t EXCEPT !.d.pis = (target :> attrs) @@ @]
Instruction(s, ev) == EndInstruction(FoldLeft(SetAttribute, s, ev.attrs), ev.name[2])

Handle(s, ev) ==
    CASE s.h.error # "" -> s
      [] s.h.error = "" /\ ev.e = "start" -> StartElement(s, ev)
      [] s.h.error = "" /\ ev.e = "end" -> EndElement(s, ev)
      [] s.h.error = "" /\ ev.e = "text" -> Characters(s, ev.value)
      [] s.h.error = "" /\ ev.e = "comment" -> Comment(s, ev.value)
      [] s.h.error = "" /\ ev.e = "instruction" -> Instruction(s, ev)
Replay(events) == FoldLeft(Handle, [d |-> Fresh, h |-> Loading], events)

Event(e, name, decls, attrs, value) == [e |-> e, name |-> name, decls |-> decls, attrs |-> attrs, value |-> value]
Start(name, decls, attrs) == Event("start", name, decls, attrs, << >>)
End == Event("end", <<"", "">>, << >>, << >>, << >>)
Text(value) == Event("text", <<"", "">>, << >>, << >>, value)
CommentOf(value) == Event("comment", <<"", "">>, << >>, << >>, value)
InstructionOf(target, attrs) == Event("instruction", <<"", target>>, << >>, attrs, << >>)

Read(ev) ==
    LET s == Handle([d |-> doc, h |-> cxt.h], ev) IN
    /\ cxt.phase = "load" /\ Len(file) < MaxParts /\ cxt.h.error = ""
    /\ doc' = s.d /\ cxt' = [cxt EXCEPT !.h = s.h]
    /\ file' = Append(file, ev)
Open == cxt.h.stack # << >>

ReadStart == \E t \in Tags :
    /\ Open \/ doc.nodes = << >>
    /\ Len(cxt.h.stack) < MaxDepth
    /\ t.name[1] = "" \/ Resolve(Append(cxt.h.scopes, t.decls), t.name[1]) # NoNs
    /\ Read(Start(t.name, t.decls, t.attrs))
ReadEnd == Open /\ Read(End)
ReadText == \E t \in DomTexts : Open /\ Read(Text(t))
ReadComment == \E t \in DomTexts : Read(CommentOf(t))
ReadInstruction == \E i \in Instructions : (i.target = "xml" => file = << >>) /\ Read(InstructionOf(i.target, i.attrs))

Loaded == doc.nodes # << >> /\ ~Open /\ cxt.h.error = ""

(* document_tree::load() begins with nothing of what there was.  (A second *)
(* tree is not changed again.)                                             *)
Load ==
    /\ Reloads /\ Loaded /\ cxt.loads = 1
    /\ doc' = Fresh /\ file' = << >>
    /\ cxt' = [cxt EXCEPT !.phase = "load", !.h = Loading, !.loads = 2, !.edits = MaxEdits]
-----------------------------------------------------------------------------
(* The mutable handles.                                                    *)
SetAttrOn(attrs, name, value) ==
    LET at == {k \in DOMAIN attrs : attrs[k][1] = name} IN
    IF at = {} THEN Append(attrs, <<name, value>>) ELSE [attrs EXCEPT ![Min(at)] = <<name, value>>]

EditElement(d, n, call) ==
    CASE call.op = "append_element" -> WithNode(d, Element(n, call.name, << >>, << >>))
      [] call.op = "append_content" -> WithNode(d, Leaf("content", n, call.value))
      [] call.op = "append_comment" -> WithNode(d, Leaf("comment", n, call.value))
      [] call.op = "set_attribute" -> [d EXCEPT !.nodes[n].attrs = SetAttrOn(@, call.name, call.value)]
      [] call.op = "set_name" -> [d EXCEPT !.nodes[n].name = call.name]
      [] call.op = "declare_namespace" -> [d EXCEPT !.nodes[n].decls = Append(@, call.name)]
EditTree(d, call) ==
    CASE call.op = "set_root" -> [d EXCEPT !.nodes = <<Element(None, call.name, << >>, << >>)>>]
      [] call.op = "set_declaration" ->
            [d EXCEPT !.decl = <<SetAttrOn(IF @ = << >> THEN << >> ELSE @[1], Name(NoNs, call.name[2]), call.value)>>]
      [] call.op = "add_processing_instruction" ->
            LET attrs == IF call.name[1] \in DOMAIN d.pis THEN d.pis[call.name[1]] ELSE << >> IN
            [d EXCEPT !.pis = (call.name[1] :> SetAttrOn(attrs, Name(NoNs, call.name[2]), call.value)) @@ @]
      [] call.op = "append_prolog_comment" -> [d EXCEPT !.prolog = Append(@, call.value)]
      [] call.op = "append_epilog_comment" -> [d EXCEPT !.epilog = Append(@, call.value)]
TreeEdits == {"set_root", "set_declaration", "add_processing_instruction", "append_prolog_comment", "append_epilog_comment"}

Change == \E call \in Edits :
    /\ Loaded /\ cxt.edits < MaxEdits
    /\ IF call.op \in TreeEdits THEN doc' = EditTree(doc, call)
       ELSE \E n \in DOMAIN doc.nodes : doc.nodes[n].kind = "element" /\ doc' = EditElement(doc, n, call)
    /\ cxt' = [cxt EXCEPT !.phase = "edit", !.edits = @ + 1]
    /\ UNCHANGED file

Next == ReadStart \/ ReadEnd \/ ReadText \/ ReadComment \/ ReadInstruction \/ Load \/ Change

Spec == Init /\ [][Next]_vars
-----------------------------------------------------------------------------
(* xml_dumper: scopes are the declarations of the elements around a name   *)
(* that have some.                                                         *)
Declaring(decls, ns) == SelectSeq(decls, LAMBDA d : d[2] = ns)
FindAlias(scopes, ns) ==
    LET with == {n \in DOMAIN scopes : Declaring(scopes[n], ns) # << >>} IN
    IF with # {} THEN Head(Declaring(scopes[Max(with)], ns))[1] ELSE IF ns = XmlNs THEN XmlNs ELSE "no alias"
Written(scopes, name) == <<IF name[1] = NoNs THEN "" ELSE FindAlias(scopes, name[1]), name[2]>>

ChildNodes(d, n) == SelectSeq([k \in DOMAIN d.nodes |-> k], LAMBDA k : d.nodes[k].parent = n)
HasElementChildren(d, n) == \E k \in DOMAIN d.nodes : d.nodes[k].parent = n /\ d.nodes[k].kind = "element"
Space(yes) == IF yes THEN <<Text(<<Blank>>)>> ELSE << >>

(* Parts of a block stand on lines of their own.                           *)
RECURSIVE DumpNode(_, _, _, _)
DumpNode(d, n, scopes, indent) ==
    LET node == d.nodes[n]
        inner == IF node.decls = << >> THEN scopes ELSE Append(scopes, node.decls)
        attrs == [k \in DOMAIN node.attrs |-> <<Written(inner, node.attrs[k][1]), node.attrs[k][2]>>]
        block == indent /\ node.parent # None /\ HasElementChildren(d, node.parent)
        own == indent /\ HasElementChildren(d, n)
        children == FoldLeft(LAMBDA out, c : out \o DumpNode(d, c, inner, indent), << >>, ChildNodes(d, n))
        part == CASE node.kind = "content" -> <<Text(node.value)>>
                  [] node.kind = "comment" -> <<CommentOf(node.value)>>
                  [] node.kind = "element" -> <<Start(Written(inner, node.name), node.decls, attrs)>>
                                              \o Space(own) \o children \o Space(own) \o <<End>>
    IN  Space(block) \o part \o Space(block)

Comments(texts) == [k \in DOMAIN texts |-> CommentOf(texts[k])]
PlainAttrs(attrs) == [k \in DOMAIN attrs |-> <<attrs[k][1][2], attrs[k][2]>>]
Dump(d, indent) ==
    [k \in DOMAIN d.decl |-> InstructionOf("xml", PlainAttrs(d.decl[k]))]
    \o FoldLeft(LAMBDA out, t : Append(out, InstructionOf(t, PlainAttrs(d.pis[t]))), << >>, SetToSeq(DOMAIN d.pis))
    \o Comments(d.prolog) \o DumpNode(d, 1, << >>, indent) \o Comments(d.epilog)

(* Texts that meet are one to the parser.                                  *)
Joined(events) ==
    LET join(out, ev) == IF ev.e = "text" /\ out # << >> /\ Last(out).e = "text"
                         THEN Append(Front(out), Text(Last(out).value \o ev.value)) ELSE Append(out, ev)
    IN  FoldLeft(join, << >>, events)
-----------------------------------------------------------------------------
(* A tree as a reader sees it.                                             *)
RECURSIVE Tree(_, _)
Tree(d, n) ==
    LET node == d.nodes[n]
        children == ChildNodes(d, n)
    IN  [kind |-> node.kind, name |-> node.name, decls |-> node.decls, attrs |-> node.attrs, value |-> node.value,
         nodes |-> [k \in DOMAIN children |-> Tree(d, children[k])]]
Whole(d) == [root |-> Tree(d, 1), decl |-> d.decl, pis |-> d.pis, prolog |-> d.prolog, epilog |-> d.epilog]

(* Where names and texts have one way to be written: an alias stands for   *)
(* one namespace on a path and a namespace has one alias, attributes are   *)
(* in none that is the default, every name is declared; no two texts meet, *)
(* and each is trimmed.                                                    *)
RECURSIVE DeclsOn(_, _)
DeclsOn(d, n) == IF n = None THEN << >> ELSE DeclsOn(d, d.nodes[n].parent) \o d.nodes[n].decls
HasAlias(decls, ns) == ns = XmlNs \/ Declaring(decls, ns) # << >>
NamesAreClear(d) ==
    \A n \in {k \in DOMAIN d.nodes : d.nodes[k].kind = "element"} :
        LET decls == DeclsOn(d, n)
            node == d.nodes[n]
        IN  /\ \A i, j \in DOMAIN decls : i # j => decls[i][1] # decls[j][1] /\ decls[i][2] # decls[j][2]
            /\ IF node.name[1] = NoNs THEN Named(decls, "") = << >> ELSE HasAlias(decls, node.name[1])
            /\ \A k \in DOMAIN node.attrs :
                LET ns == node.attrs[k][1][1] IN
                ns # NoNs => HasAlias(decls, ns) /\ (Declaring(decls, ns) # << >> => Declaring(decls, ns)[1][1] # "")
TextsAreClear(d) ==
    \A n \in DOMAIN d.nodes :
        /\ d.nodes[n].kind = "content" => Trim(d.nodes[n].value) = d.nodes[n].value /\ d.nodes[n].value # << >>
        /\ LET c == ChildNodes(d, n) IN
           \A k \in 2..Len(c) : ~(d.nodes[c[k-1]].kind = "content" /\ d.nodes[c[k]].kind = "content")

(* A tree that is written and loaded again is the same, with indents and   *)
(* without, whatever has been loaded or changed before.                    *)
DomIsReadAgain ==
    Loaded /\ NamesAreClear(doc) /\ TextsAreClear(doc) =>
        \A indent \in BOOLEAN :
            LET s == Replay(Joined(Dump(doc, indent))) IN s.h.error = "" /\ Whole(s.d) = Whole(doc)

(* A tree is that of its own file alone.                                   *)
DomIsOfItsFile == cxt.phase = "load" /\ cxt.loads = 2 => doc = Replay(file).d
=============================================================================
