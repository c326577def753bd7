-------------------------- MODULE NamespaceScoping --------------------------
(***************************************************************************)
(* What the namespace-aware parser promises its handler: elements are      *)
(* reported as a nesting, and an alias means what the innermost open       *)
(* element that declares it says.  Every open element holds its whole      *)
(* environment, so that ending it restores the one outside of it; there is *)
(* no stack per alias, no set of keys to pop and no tag half read.         *)
(***************************************************************************)
EXTENDS Sequences, Naturals

CONSTANTS Aliases, Ids, Unknown, BuiltinId, Names, NoTag

VARIABLES
    open,   \* the open elements, outermost first
    close   \* the closing tag to be looked at next, if any: an input

vars == <<open, close>>

Environment == [Aliases \cup {"xml"} -> Ids]

\* An open element: its name, the aliases it declares, what all aliases mean.
Element == [ns : Ids, name : Names, declares : SUBSET Aliases, env : Environment]

RootEnvironment ==
    [a \in Aliases \cup {"xml"} |-> IF a = "xml" THEN BuiltinId ELSE Unknown]

Current == IF open = <<>> THEN RootEnvironment ELSE open[Len(open)].env

Tag == [alias : Aliases \cup {"xml"}, name : Names]

Init == open = <<>> /\ close = NoTag

\* An element may start inside of another: it inherits what it does not
\* declare, and what it does declare holds for its own name too.
MayStart(elem) ==
    /\ elem \in Element
    /\ \A a \in Aliases \cup {"xml"} :
         a \notin elem.declares => elem.env[a] = Current[a]
    /\ \E a \in Aliases \cup {"xml"} : elem.ns = elem.env[a]

\* The new element is read off the state after the step: TLC need not search
\* the set of all elements for it.
Start ==
    /\ Len(open') = Len(open) + 1
    /\ \A i \in 1 .. Len(open) : open'[i] = open[i]
    /\ MayStart(open'[Len(open')])

\* The innermost element ends by a tag of its name, with an alias that means
\* the element's namespace.
End ==
    /\ open # <<>>
    /\ close \in Tag
    /\ close.name = open[Len(open)].name
    /\ Current[close.alias] = open[Len(open)].ns
    /\ open' = SubSeq(open, 1, Len(open) - 1)

Read == UNCHANGED open

Next == (Start \/ End \/ Read) /\ close' \in Tag \cup {NoTag}

Spec == Init /\ [][Next]_vars
=============================================================================
