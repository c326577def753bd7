-------------------------- MODULE XmlStreamHandler --------------------------
(***************************************************************************)
(* xml_stream_handler and the base class of its contexts                   *)
(* (src/liborcus/xml_stream_handler.cpp, xml_context_base.cpp): a stack of  *)
(* contexts, and in every context a stack of the elements it was given.    *)
(* The parser calls the handler with a nesting of elements, as             *)
(* SaxNsParser does.  What the contexts of the filters do with an element  *)
(* is theirs; they may throw.                                              *)
(***************************************************************************)
EXTENDS Sequences, Functions, Naturals

CONSTANTS
    Elements,       \* [ns, name] pairs of tokens
    NoElement,      \* {XMLNS_UNKNOWN_ID, XML_UNKNOWN_TOKEN}
    Contexts,       \* the contexts of a filter, mp_invalid_context excluded
    Root,           \* mp_root_context
    Invalid,        \* mp_invalid_context
    NoContext,      \* nullptr
    Rules,          \* the rules of each context: <<parent, child>>
    AlwaysAllowed,  \* m_always_allowed_elements of each context
    ChildOf,        \* create_child_context of each context, by element
    Level,          \* contexts are members of the one that returns them
    MaxNesting,     \* max_element_nesting
    MaxDepth        \* bound: the elements open at once

ASSUME HandlerAssumption ==
    /\ NoElement \notin Elements
    /\ Root \in Contexts /\ Invalid \notin Contexts
    /\ NoContext \notin Contexts \cup {Invalid}
    /\ Rules \in [Contexts -> SUBSET ((Elements \cup {NoElement}) \X Elements)]
    /\ AlwaysAllowed \in [Contexts -> SUBSET Elements]
    /\ ChildOf \in [Contexts -> [Elements -> Contexts \cup {NoContext}]]
    /\ Level \in [Contexts -> Nat]
    /\ \A c \in Contexts, e \in Elements :
         ChildOf[c][e] # NoContext => Level[ChildOf[c][e]] > Level[c]
    /\ MaxNesting \in Nat /\ MaxDepth \in Nat

VARIABLES
    phase,     \* "open" until the root element has ended, "closed", "done",
               \* or "failed"
    open,      \* the elements the parser has open, outermost first, with the
               \* context each was given to: [elem, context]
    contexts,  \* m_context_stack
    stack,     \* m_stack of every context
    error,     \* the exception the handler has thrown
    call       \* the last call of a context

vars == <<phase, open, contexts, stack, error, call>>

AllContexts == Contexts \cup {Invalid}

Call(op, to, elem, child) == [op |-> op, to |-> to, elem |-> elem, child |-> child]

Init ==
    /\ phase = "open" /\ open = <<>>
    /\ contexts = <<Root>>
    /\ stack = [c \in AllContexts |-> <<>>]
    /\ error = "none"
    /\ call = Call("none", Root, NoElement, NoContext)

----------------------------------------------------------------------------
(* What contexts answer.                                                   *)

\* get_current_context: a handler whose root context has ended is at its root.
CurrentContext == IF contexts = <<>> THEN Root ELSE contexts[Len(contexts)]

\* get_current_element of a context.
CurrentElement(c) == IF stack[c] = <<>> THEN NoElement ELSE stack[c][Len(stack[c])]

\* create_child_context; the empty context has no children.
Child(c, elem) == IF c = Invalid THEN NoContext ELSE ChildOf[c][elem]

\* evaluate_child_element and xml_element_validator::validate: what has no
\* rules allows everything.
Allowed(c, parent, elem) ==
    \/ c = Invalid
    \/ parent \in AlwaysAllowed[c]
    \/ Rules[c] = {}
    \/ parent \notin {rule[1] : rule \in Rules[c]}
    \/ <<parent, elem>> \in Rules[c]

----------------------------------------------------------------------------
(* The events of the parser.                                               *)

Throw(what) == phase' = "failed" /\ error' = what /\ UNCHANGED <<open, call>>

\* Mutant: no limit.
NeverTooDeep(s) == FALSE

\* The limit of either stack: it is checked before it grows.
TooDeep(s) == Len(s) > MaxNesting

\* Mutant: an element that is not allowed is skipped, its children are not.
SkipElementOnly(elem) ==
    LET c == CurrentContext IN
    IF Allowed(c, CurrentElement(c), elem) /\ Child(c, elem) # NoContext
    THEN Append(contexts, Child(c, elem)) ELSE contexts

\* Mutant: everything inside of what is not allowed is not allowed either.
PushInvalidAgain(elem) ==
    LET c == CurrentContext IN
    IF ~ Allowed(c, CurrentElement(c), elem) \/ c = Invalid THEN Append(contexts, Invalid)
    ELSE IF Child(c, elem) # NoContext THEN Append(contexts, Child(c, elem))
    ELSE contexts

\* The context an element goes to is on top of the stack before it gets it.
ContextsFor(elem) ==
    LET c == CurrentContext IN
    IF ~ Allowed(c, CurrentElement(c), elem) THEN Append(contexts, Invalid)
    ELSE IF Child(c, elem) # NoContext THEN Append(contexts, Child(c, elem))
    ELSE contexts

StartElement(elem) ==
    /\ phase = "open" /\ Len(open) < MaxDepth
    /\ IF TooDeep(contexts)
       THEN Throw("xml_structure_error") /\ UNCHANGED <<contexts, stack>>
       ELSE LET cs == ContextsFor(elem)
                c == cs[Len(cs)]
            IN
            /\ contexts' = cs
            /\ IF TooDeep(stack[c])
               THEN Throw("xml_structure_error") /\ UNCHANGED stack
               ELSE /\ stack' = [stack EXCEPT ![c] = Append(@, elem)]
                    /\ open' = Append(open, [elem |-> elem, context |-> c])
                    /\ call' = Call("start_element", c, elem, NoContext)
                    /\ UNCHANGED <<phase, error>>

\* end_child_context of the context below the one that ends, if there is one.
Report(c, elem) ==
    IF Len(contexts) > 1
    THEN Call("end_child_context", contexts[Len(contexts) - 1], elem, c)
    ELSE Call("end_element", c, elem, NoContext)

\* Mutant: the context that has ended stays on the stack.
KeepContext(s) == s

WithoutContext(s) == SubSeq(s, 1, Len(s) - 1)

\* pop_stack of the current context, and what follows if that was its last
\* element.  pop_stack of an empty stack would be undefined.
EndElement ==
    /\ phase = "open" /\ open # <<>>
    /\ LET c == CurrentContext
           elem == open[Len(open)].elem
           rest == SubSeq(stack[c], 1, Len(stack[c]) - 1)
       IN
       IF stack[c] = <<>> THEN Throw("undefined") /\ UNCHANGED <<contexts, stack>>
       ELSE IF CurrentElement(c) # elem
       THEN Throw("general_error") /\ UNCHANGED <<contexts, stack>>
       ELSE /\ stack' = [stack EXCEPT ![c] = rest]
            /\ IF rest = <<>>
               THEN call' = Report(c, elem) /\ contexts' = WithoutContext(contexts)
               ELSE /\ call' = Call("end_element", c, elem, NoContext)
                    /\ UNCHANGED contexts
            /\ open' = SubSeq(open, 1, Len(open) - 1)
            /\ phase' = IF Len(open) = 1 THEN "closed" ELSE phase
            /\ UNCHANGED error

\* Text, which a CDATA section may be before the root element too.
Characters ==
    /\ phase = "open"
    /\ call' = Call("characters", CurrentContext, NoElement, NoContext)
    /\ UNCHANGED <<phase, open, contexts, stack, error>>

\* The end of any <?xml ... ?> before the end of the root element.
Declaration ==
    /\ phase = "open"
    /\ call' = Call("declaration", CurrentContext, NoElement, NoContext)
    /\ UNCHANGED <<phase, open, contexts, stack, error>>

\* A context throws, or the parser does; the stream may end with elements open.
Abort ==
    /\ phase = "open"
    /\ Throw("other")
    /\ UNCHANGED <<contexts, stack>>

EndOfStream ==
    /\ phase \in {"open", "closed"}
    /\ phase' = "done"
    /\ UNCHANGED <<open, contexts, stack, error, call>>

Stopped == phase \in {"done", "failed"} /\ UNCHANGED vars

Next ==
    \/ \E elem \in Elements : StartElement(elem)
    \/ EndElement \/ Characters \/ Declaration
    \/ Abort \/ EndOfStream \/ Stopped

Spec == Init /\ [][Next]_vars

----------------------------------------------------------------------------
(* Properties.                                                             *)

\* The values the state may have; the limits hold for every stack.
TypeOK ==
    /\ phase \in {"open", "closed", "done", "failed"}
    /\ open \in Seq([elem : Elements, context : AllContexts])
    /\ contexts \in Seq(AllContexts)
    /\ stack \in [AllContexts -> Seq(Elements)]
    /\ Len(contexts) <= MaxNesting + 1
    /\ \A c \in AllContexts : Len(stack[c]) <= MaxNesting + 1
    /\ error \in {"none", "xml_structure_error", "general_error", "undefined", "other"}
    /\ call.to \in AllContexts /\ call.elem \in Elements \cup {NoElement}
    /\ call.child \in AllContexts \cup {NoContext}

\* pop_stack of xml_context_base neither finds an empty stack (m_stack.back()
\* would be undefined) nor another element than the one that ends: the stacks of
\* the contexts, one after the other, are the open elements.
PopsWhatWasPushed == error \notin {"general_error", "undefined"}

\* A context is on the stack once at most, and one that is not has no element
\* left: child contexts are members that are used again for the next sibling,
\* and reset() does not clear m_stack.
IdleContextsAreFresh ==
    /\ \A i, j \in 1 .. Len(contexts) : contexts[i] = contexts[j] => i = j
    /\ phase # "failed" =>
         \A c \in AllContexts : c \notin Range(contexts) => stack[c] = <<>>

\* The handler implements dispatch by the path of an element: the stack of
\* contexts, changed when a context's own stack runs empty, and the stacks of
\* the contexts give every element to the context its parents decide on.
Dispatch == INSTANCE ContextDispatch WITH
    open <- IF phase = "failed" THEN <<>> ELSE open, failed <- phase = "failed"

ImplementsDispatch == Dispatch!Spec

----------------------------------------------------------------------------
(* What asserts say and the code does not do.                              *)

\* assert(child == &m_cxt_names) of gnumeric_sheet_context::end_child_context,
\* and the casts of the other filters: the child whose end a context is told of
\* is the one it makes for that element.
EndedChildIsOwn ==
    /\ call.op = "end_child_context"
    /\ Child(call.to, call.elem) # NoContext
    => call.child = Child(call.to, call.elem)

----------------------------------------------------------------------------
(* For the runs: a filter with a root context, a child and a child's child. *)
SmallRules ==
    [sheet |-> {<<NoElement, "Sheet">>, <<"Sheet", "Names">>, <<"Sheet", "Cols">>,
                <<"Cols", "Col">>, <<"Choice", "Cols">>},
     names |-> {},
     name  |-> {<<"Name", "Col">>}]
SmallAlwaysAllowed == [sheet |-> {"Choice"}, names |-> {}, name |-> {}]
SmallChildOf ==
    [c \in Contexts |-> [e \in Elements |->
        IF c = "sheet" /\ e = "Names" THEN "names"
        ELSE IF c = "names" /\ e = "Name" THEN "name" ELSE NoContext]]
SmallLevel == [sheet |-> 0, names |-> 1, name |-> 2]
=============================================================================
