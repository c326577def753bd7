------------------------------- MODULE CssTree -------------------------------
(***************************************************************************)
(* css_document_tree: css_parser reads selectors and blocks of properties, *)
(* and a handler stores the properties at the node of each selector.  A    *)
(* file is a sequence of rules, and a rule a sequence of symbols; white    *)
(* space is seen only where it parts the simple selectors of a chain.      *)
(***************************************************************************)
EXTENDS Integers, FiniteSets, SequencesExt

CONSTANTS Selectors,   \* [chain, pseudo]: pairs of a combinator and a simple selector
          Properties,  \* [name, values]: a value has the type of its symbol
          MaxGroup, MaxBlock, MaxRules,  \* bounds on a group of selectors, a block and the file
          MaxChainDepth                  \* max_selector_chain_depth

VARIABLES doc,         \* css_document_tree::impl: m_root, simple selectors to nodes, and m_string_pool
          cxt,         \* the parser and its handler
          file         \* the rules that were read

vars == <<doc, cxt, file>>

Symbol(k, t, glued) == [kind |-> k, text |-> t, glued |-> glued]
NoSimple == [name |-> "", id |-> "", classes |-> {}, pseudo_classes |-> {}]
Parser == [where |-> "rule", count |-> 0, comb |-> "descendant", group |-> << >>, chain |-> << >>,
           simple |-> NoSimple, curcomb |-> "descendant", pseudo |-> {}, props |-> << >>, name |-> "",
           values |-> << >>]

Init == doc = [root |-> << >>, pool |-> {}] /\ cxt = [phase |-> "parse", p |-> Parser] /\ file = << >>
-----------------------------------------------------------------------------
(* parser_handler.                                                         *)
EndSimpleSelector(p) ==
    [p EXCEPT !.chain = Append(@, IF @ = << >> THEN <<"first", p.simple>> ELSE <<p.curcomb, p.simple>>),
              !.simple = NoSimple, !.count = @ + 1, !.where = "rule"]
EndSelector(p) ==
    [p EXCEPT !.group = Append(@, [chain |-> p.chain, pseudo |-> p.pseudo]), !.chain = << >>, !.pseudo = {}]
(* A property that the block has already is not changed (map::insert).     *)
EndProperty(p) ==
    [p EXCEPT !.props = IF p.name \in DOMAIN @ THEN @ ELSE (p.name :> p.values) @@ @,
              !.name = "", !.values = << >>]

(* The tree: under each combinator the nodes of simple selectors, at each  *)
(* node its properties for each set of pseudo elements.                    *)
NewNode == [properties |-> << >>, children |-> << >>]
GetOrCreateNode(store, ss) == IF ss \in DOMAIN store THEN store[ss] ELSE NewNode
GetOrCreateSelectors(store, comb) == IF comb \in DOMAIN store THEN store[comb] ELSE << >>
StoreProperties(store, pseudo, props) ==
    (pseudo :> (props @@ IF pseudo \in DOMAIN store THEN store[pseudo] ELSE << >>)) @@ store

RECURSIVE Inserted(_, _, _, _)
Inserted(store, chain, pseudo, props) ==
    LET ss == Head(chain)[2]
        node == GetOrCreateNode(store, ss)
        next == chain[2][1]
        below == IF Len(chain) = 1 THEN [node EXCEPT !.properties = StoreProperties(@, pseudo, props)]
                 ELSE [node EXCEPT !.children =
                        (next :> Inserted(GetOrCreateSelectors(@, next), Tail(chain), pseudo, props)) @@ @]
    IN (ss :> below) @@ store

(* The texts the tree keeps after the file is gone: all of a selector, the *)
(* names of properties, and the values that are texts.                     *)
InternSelector(sel) ==
    UNION {{sel.chain[k][2].name, sel.chain[k][2].id} \cup sel.chain[k][2].classes : k \in DOMAIN sel.chain} \ {""}
InternValues(values) == {values[k].v : k \in {j \in DOMAIN values : values[j].type \in {"type", "url"}}}

InsertProperties(tree, sel, props) ==
    IF props = << >> THEN tree
    ELSE [root |-> Inserted(tree.root, sel.chain, sel.pseudo, props),
          pool |-> tree.pool \cup InternSelector(sel) \cup DOMAIN props
                        \cup UNION {InternValues(props[n]) : n \in DOMAIN props}]
InsertAll(tree, group, props) == FoldLeft(LAMBDA t, sel : InsertProperties(t, sel, props), tree, group)
EndBlock(s) == [doc |-> InsertAll(s.doc, s.p.group, s.p.props),
                p |-> [s.p EXCEPT !.group = << >>, !.props = << >>, !.where = "rule"]]
-----------------------------------------------------------------------------
(* css_parser, one symbol at a time.                                       *)
SelectorEnds(p) == IF p.where = "selector" THEN EndSimpleSelector(p) ELSE p

SimpleSelector(p, sym) ==
    LET again == p.where = "selector" /\ sym.glued /\ sym.kind # "type"
        q == IF again THEN p ELSE SelectorEnds(p)
        r == IF again THEN q
             ELSE [q EXCEPT !.where = "selector",
                            !.curcomb = IF q.count > 0 THEN q.comb ELSE @,
                            !.comb = IF q.count > 0 THEN "descendant" ELSE @]
    IN  CASE sym.kind = "type" -> [r EXCEPT !.simple.name = sym.text]
          [] sym.kind = "class" -> [r EXCEPT !.simple.classes = @ \cup {sym.text}]
          [] sym.kind = "id" -> [r EXCEPT !.simple.id = sym.text]

PseudoSelector(p, sym) == IF sym.kind = "::" THEN [p EXCEPT !.pseudo = @ \cup {sym.text}]
                          ELSE [p EXCEPT !.simple.pseudo_classes = @ \cup {sym.text}]

Fail(p) == [p EXCEPT !.where = "parse_error"]
Combinators == [s \in {">", "+"} |-> IF s = ">" THEN "direct_child" ELSE "next_sibling"]

InRule(p, sym) ==
    LET q == SelectorEnds(p) IN
    CASE sym.kind \in {"type", "class", "id"} -> SimpleSelector(p, sym)
      [] sym.kind \in {":", "::"} /\ p.where = "selector" /\ sym.glued -> PseudoSelector(p, sym)
      [] sym.kind \in DOMAIN Combinators ->
            IF q.count = 0 THEN Fail(q) ELSE [q EXCEPT !.comb = Combinators[sym.kind]]
      [] sym.kind = "at-rule" -> q
      [] sym.kind = "," -> EndSelector(q)
      [] sym.kind = "{" -> [EndSelector(q) EXCEPT !.count = 0, !.comb = "descendant", !.where = "property"]
      [] OTHER -> Fail(q)

Min2(a, b) == IF a < b THEN a ELSE b
(* What a function of colors hands on, and what the handler keeps of it.   *)
Clipped(sym) == [sym EXCEPT !.text = IF sym.kind \in {"rgb", "rgba"}
                                     THEN [k \in DOMAIN @ |-> IF k < 4 THEN Min2(@[k], 255) ELSE @[k]] ELSE @]
Value(sym) == [type |-> sym.kind, v |-> IF sym.kind = "rgb" THEN sym.text \o <<0>> ELSE sym.text]

InBlock(s, sym) ==
    LET p == s.p
        At(q) == [s EXCEPT !.p = q]
        ended == EndProperty(p)
    IN  CASE p.where = "property" /\ sym.kind = "type" -> At([p EXCEPT !.where = "name", !.name = sym.text])
          [] p.where = "next property" /\ sym.kind = "type" -> At([p EXCEPT !.where = "name", !.name = sym.text])
          [] p.where = "next property" /\ sym.kind = "}" -> EndBlock(s)
          [] p.where = "name" /\ sym.kind = ":" -> At([p EXCEPT !.where = "value"])
          [] p.where \in {"value", "values"} /\ sym.kind \in {"type", "rgb", "rgba", "url"} ->
                At([p EXCEPT !.where = "values", !.values = Append(@, Value(Clipped(sym)))])
          [] p.where = "values" /\ sym.kind = "," -> At([p EXCEPT !.where = "value"])
          [] p.where = "values" /\ sym.kind = ";" -> At([ended EXCEPT !.where = "next property"])
          [] p.where = "values" /\ sym.kind = "}" -> EndBlock(At(ended))
          [] OTHER -> At(Fail(p))

Step(s, sym) == CASE s.p.where = "parse_error" -> s
                  [] s.p.where \in {"rule", "selector"} -> [s EXCEPT !.p = InRule(s.p, sym)]
                  [] OTHER -> InBlock(s, sym)
-----------------------------------------------------------------------------
(* How a rule is written.                                                  *)
SimpleText(ss, first) ==
    LET name == IF ss.name = "" THEN << >> ELSE <<Symbol("type", ss.name, FALSE)>>
        ids == IF ss.id = "" THEN << >> ELSE <<Symbol("id", ss.id, ss.name # "")>>
        classes == [k \in 1..Cardinality(ss.classes) |->
                        Symbol("class", SetToSeq(ss.classes)[k], ss.name # "" \/ ss.id # "" \/ k > 1)]
        pcs == [k \in 1..Cardinality(ss.pseudo_classes) |-> Symbol(":", SetToSeq(ss.pseudo_classes)[k], TRUE)]
    IN  name \o ids \o classes \o pcs
CombinatorText(c) == IF \E s \in DOMAIN Combinators : Combinators[s] = c
                     THEN <<Symbol(CHOOSE s \in DOMAIN Combinators : Combinators[s] = c, "", FALSE)>> ELSE << >>
SelectorText(sel) ==
    FlattenSeq([k \in DOMAIN sel.chain |-> CombinatorText(sel.chain[k][1]) \o SimpleText(sel.chain[k][2], k = 1)])
        \o [k \in 1..Cardinality(sel.pseudo) |-> Symbol("::", SetToSeq(sel.pseudo)[k], TRUE)]
Separated(texts, sep) == FlattenSeq([k \in DOMAIN texts |-> IF k = 1 THEN texts[1] ELSE <<sep>> \o texts[k]])
Plain(k) == Symbol(k, "", FALSE)
PropertyText(prop) ==
    <<Symbol("type", prop.name, FALSE), Plain(":")>> \o [k \in DOMAIN prop.values |-> Symbol(prop.values[k].type, prop.values[k].v, FALSE)]
RuleText(rule) ==
    Separated([k \in DOMAIN rule.group |-> SelectorText(rule.group[k])], Plain(","))
        \o <<Plain("{")>> \o Separated([k \in DOMAIN rule.block |-> PropertyText(rule.block[k])], Plain(";"))
        \o <<Plain("}")>>

RECURSIVE Steps(_, _, _)
Steps(s, text, k) == IF k > Len(text) THEN s ELSE Steps(Step(s, text[k]), text, k + 1)
Read(text) == Steps([doc |-> doc, p |-> cxt.p], text, 1)
ReadText(text) ==
    LET s == Read(text) IN
    /\ doc' = s.doc
    /\ cxt' = CASE s.p.where = "parse_error" -> [phase |-> "parse_error", p |-> Parser]
                 [] s.p.where = "rule" -> [cxt EXCEPT !.p = s.p]
                 [] OTHER -> [phase |-> "done", p |-> Parser]

ReadRule == \E g \in 1..MaxGroup, b \in 1..MaxBlock :
    \E group \in [1..g -> Selectors], block \in [1..b -> Properties] :
    LET rule == [group |-> group, block |-> block] IN
    /\ cxt.phase = "parse" /\ Len(file) < MaxRules
    /\ ReadText(RuleText(rule))
    /\ file' = Append(file, rule)

(* A rule of which one symbol is missing: it ends the parser or the file.  *)
ReadBrokenRule == \E sel \in Selectors, prop \in Properties :
    LET text == RuleText([group |-> <<sel>>, block |-> <<prop>>]) IN
    \E k \in DOMAIN text :
        /\ cxt.phase = "parse" /\ Len(file) < MaxRules /\ Read(RemoveAt(text, k)).p.where # "rule"
        /\ ReadText(RemoveAt(text, k))
        /\ UNCHANGED file

Next == ReadRule \/ ReadBrokenRule

Spec == Init /\ [][Next]_vars
-----------------------------------------------------------------------------
(* What the tree is asked for, and what it lists.                          *)
RECURSIVE NodeOf(_, _)
NodeOf(store, chain) ==            \* the node of a chain, as a set of one or none
    LET ss == Head(chain)[2]
        combs == store[ss].children
    IN CASE ss \notin DOMAIN store -> {}
         [] ss \in DOMAIN store /\ Len(chain) = 1 -> {store[ss]}
         [] OTHER -> IF chain[2][1] \in DOMAIN combs THEN NodeOf(combs[chain[2][1]], Tail(chain)) ELSE {}
GetPropertiesMap(sel) == {node.properties : node \in NodeOf(doc.root, sel.chain)}
GetProperties(sel) == {map[sel.pseudo] : map \in {m \in GetPropertiesMap(sel) : sel.pseudo \in DOMAIN m}}

DumpAllProperties(chain, map) ==
    {[chain |-> chain, pseudo |-> pseudo, props |-> map[pseudo]] : pseudo \in {q \in DOMAIN map : map[q] # << >>}}
RECURSIVE DumpChained(_, _, _)
DumpChained(chain, comb, store) ==        \* in no order: the maps have none
    IF Len(chain) > MaxChainDepth THEN {}
    ELSE UNION {LET at == Append(chain, <<comb, ss>>)
                    combs == store[ss].children
                IN DumpAllProperties(at, store[ss].properties) \cup UNION {DumpChained(at, c, combs[c]) : c \in DOMAIN combs} :
                    ss \in DOMAIN store}
DumpTree ==
    UNION {LET at == <<<<"first", ss>>>>
               combs == doc.root[ss].children
           IN DumpAllProperties(at, doc.root[ss].properties) \cup UNION {DumpChained(at, c, combs[c]) : c \in DOMAIN combs} :
                ss \in DOMAIN doc.root}

(* The tree holds, for each selector, the properties of all rules that     *)
(* name it: of two rules the later, and in one block the first; it is      *)
(* asked for them by the selector, and lists no others, up to the depth it *)
(* goes.  A rule that does not end well has left nothing in it, whatever   *)
(* came before the error; and of what it has no text is of the file.       *)
Names(rule, sel) == \E k \in DOMAIN rule.group : rule.group[k] = sel
NameIn(rule, name) == {k \in DOMAIN rule.block : rule.block[k].name = name}
OwnProperties(sel) ==
    LET rules == {k \in DOMAIN file : Names(file[k], sel)}
        names == {prop.name : prop \in UNION {ToSet(file[k].block) : k \in rules}}
    IN [name \in names |->
            LET rule == file[Max({k \in rules : NameIn(file[k], name) # {}})]
                own == rule.block[Min(NameIn(rule, name))].values
            IN [k \in DOMAIN own |-> Value(Clipped([kind |-> own[k].type, text |-> own[k].v]))]]
CssPropertiesAreOwn ==
    LET named == {sel \in Selectors : \E k \in DOMAIN file : Names(file[k], sel)}
        whole == DumpTree
    IN /\ \A sel \in Selectors : GetProperties(sel) = IF sel \in named THEN {OwnProperties(sel)} ELSE {}
       /\ whole = {[chain |-> sel.chain, pseudo |-> sel.pseudo, props |-> OwnProperties(sel)] :
                        sel \in {q \in named : Len(q.chain) <= MaxChainDepth + 1}}
       /\ \A entry \in whole : InternSelector(entry) \cup DOMAIN entry.props \subseteq doc.pool
       /\ \A entry \in whole, n \in {prop.name : prop \in Properties} :
            n \in DOMAIN entry.props => \A k \in DOMAIN entry.props[n] :
                entry.props[n][k].type \notin {"rgb", "rgba"} => entry.props[n][k].v \in doc.pool
=============================================================================
