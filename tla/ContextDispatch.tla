--------------------------- MODULE ContextDispatch ---------------------------
(***************************************************************************)
(* What xml_stream_handler promises the contexts of a filter: which context *)
(* an element belongs to is decided where the element starts, by its        *)
(* parent element and its parent's context, and never changes; a context    *)
(* hears of the end of a child it has made when it is itself at the element *)
(* it made it for; and nothing below an element that is not allowed is seen *)
(* by a context of the filter.                                              *)
(***************************************************************************)
EXTENDS Sequences, Naturals

CONSTANTS
    Elements, Contexts, Root, Invalid, NoContext, NoElement,
    Allowed(_, _, _),   \* context, parent element, element
    Child(_, _)         \* context, element

VARIABLES
    open,    \* the open elements, outermost first: [elem, context]
    call,    \* the last call of a context
    failed   \* an exception was thrown

vars == <<open, call, failed>>

Call(op, to, elem, child) == [op |-> op, to |-> to, elem |-> elem, child |-> child]

Init ==
    /\ open = <<>> /\ failed = FALSE
    /\ call = Call("none", Root, NoElement, NoContext)

\* The context and the element of the innermost of the elements s.
ContextOf(s) == IF s = <<>> THEN Root ELSE s[Len(s)].context
ElementOf(s) == IF s = <<>> THEN NoElement ELSE s[Len(s)].elem

\* The context of an element that starts now.
ContextFor(elem) ==
    LET parent == ContextOf(open) IN
    IF ~ Allowed(parent, ElementOf(open), elem) THEN Invalid
    ELSE IF Child(parent, elem) # NoContext THEN Child(parent, elem)
    ELSE parent

Start(elem) ==
    /\ open' = Append(open, [elem |-> elem, context |-> ContextFor(elem)])
    /\ call' = Call("start_element", ContextFor(elem), elem, NoContext)

End ==
    LET outer == SubSeq(open, 1, Len(open) - 1)
        elem == ElementOf(open)
        context == ContextOf(open)
    IN
    /\ open # <<>>
    /\ open' = outer
    /\ call' = IF context # ContextOf(outer)
               THEN Call("end_child_context", ContextOf(outer), elem, context)
               ELSE Call("end_element", context, elem, NoContext)

Tell(op) ==
    /\ call' = Call(op, ContextOf(open), NoElement, NoContext)
    /\ UNCHANGED open

\* After an exception nothing is open and no context is called.
Fail == failed' = TRUE /\ open' = <<>> /\ UNCHANGED call

Next ==
    /\ ~ failed
    /\ \/ /\ UNCHANGED failed
          /\ \/ \E elem \in Elements : Start(elem)
             \/ End \/ Tell("characters") \/ Tell("declaration")
       \/ Fail

Spec == Init /\ [][Next]_vars
=============================================================================
