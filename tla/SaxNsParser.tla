---------------------------- MODULE SaxNsParser ----------------------------
(***************************************************************************)
(* The XML parsers stacked on each other: sax_parser reads the stream,     *)
(* sax_ns_parser::handler_wrapper keeps the scopes of the open elements    *)
(* and drives an xmlns_context, the handler_wrapper of sax_token_parser    *)
(* keeps an element's attributes until its start is reported.  The stream  *)
(* is an input: at each point any piece of markup may come next, or the    *)
(* end.  An exception ends the parse where it is thrown.                   *)
(***************************************************************************)
EXTENDS Sequences, Functions, Naturals, FiniteSets

(* The data of xmlns_repository and xmlns_context                          *)
(* (src/parser/xml_namespace.cpp): the repository gives every namespace    *)
(* URI one identifier and one index, the context maps an alias to a stack  *)
(* of identifiers.  An identifier is the address of the URI's text, so the *)
(* repository's identifier of a URI is written as the URI itself, while    *)
(* XML_BUILTIN_NS_URI is an address of its own, BuiltinId.                 *)

CONSTANTS
    Uris,        \* the namespace URIs a stream may declare
    BuiltinUri,  \* the text of XML_BUILTIN_NS_URI; a stream may declare it
    BuiltinId,   \* the identifier XML_BUILTIN_NS_URI
    Unknown,     \* XMLNS_UNKNOWN_ID, the null identifier
    NoUri,       \* the empty URI, as in xmlns=""
    Prefixes     \* the aliases a stream may declare besides the default one

ASSUME NamespaceAssumption ==
    /\ NoUri \notin Uris
    /\ Unknown \notin Uris \cup {BuiltinId}
    /\ BuiltinId \notin Uris
    /\ Prefixes \cap {"", "xml", "xmlns"} = {}

Ids == Uris \cup {BuiltinId, Unknown}

\* The aliases that own a stack: the default namespace and the prefixes.  The
\* alias "xml" is looked up but never pushed.
Aliases == Prefixes \cup {""}
AllAliases == Aliases \cup {"xml"}

----------------------------------------------------------------------------
(* The repository: the sequence of its identifiers; an index is a position. *)

\* Mutant: every declaration is given an index of its own.
AlwaysNew(repo, uri) == IF uri = NoUri THEN repo ELSE Append(repo, uri)

\* xmlns_repository::intern, the repository after it and what it returns.
Interned(repo, uri) ==
    IF uri = NoUri \/ uri \in Range(repo) THEN repo ELSE Append(repo, uri)

\* Mutant: the empty URI is given an identifier.
NeverUnknown(uri) == uri

IdOf(uri) == IF uri = NoUri THEN Unknown ELSE uri

----------------------------------------------------------------------------
(* The context: a function from aliases to stacks of identifiers.          *)

PushNs(stacks, alias, id) == [stacks EXCEPT ![alias] = Append(@, id)]

\* xmlns_context::pop of every alias in keys: they are different stacks, so
\* the order is of no consequence.
PopNs(stacks, keys) ==
    [a \in Aliases |->
        IF a \in keys THEN SubSeq(stacks[a], 1, Len(stacks[a]) - 1) ELSE stacks[a]]

\* xmlns_context::pop throws on an empty stack.
CanPop(stacks, keys) == \A a \in keys : stacks[a] # <<>>

\* Mutant: the outermost declaration wins.
GetOutermost(stacks, alias) ==
    IF alias = "xml" THEN BuiltinId
    ELSE IF stacks[alias] = <<>> THEN Unknown
    ELSE stacks[alias][1]

\* xmlns_context::get.
GetNs(stacks, alias) ==
    IF alias = "xml" THEN BuiltinId
    ELSE IF stacks[alias] = <<>> THEN Unknown
    ELSE stacks[alias][Len(stacks[alias])]

UriOf(id) == IF id = BuiltinId THEN BuiltinUri ELSE id
-----------------------------------------------------------------------------

CONSTANTS
    Predefined,   \* add_predefined_values: the URIs the repository starts with
    Names,        \* local names of elements
    AttrNames,    \* local names of attributes that declare nothing
    MaxDepth,     \* bound: the elements open at once
    MaxAttrs      \* bound: the attributes of one tag

ASSUME ParserAssumption ==
    /\ Predefined \in Seq(Uris)
    /\ \A i, j \in 1 .. Len(Predefined) : Predefined[i] = Predefined[j] => i = j
    /\ MaxDepth \in Nat /\ MaxAttrs \in Nat
    /\ "xmlns" \notin AttrNames

VARIABLES
    pc,        \* where the parser is in the stream
    error,     \* the exception that ended the parse
    nest,      \* m_nest_level
    bufPos,    \* cell_buffer_pos; cell_buffers is a deque that grows on demand
    tag,       \* the name of the tag being read
    scopes,    \* m_scopes: [ns, name, keys] of the open elements
    nsKeys,    \* m_ns_keys: the aliases the tag being read has declared
    seenAttrs, \* m_attrs of the namespace wrapper
    attrs,     \* m_elem.attrs of the token wrapper: [alias, ns, buf]
    repo,      \* the repository's identifiers
    stacks     \* the context's stacks of identifiers

wrapper == <<scopes, nsKeys, seenAttrs, attrs>>
names == <<repo, stacks>>
vars == <<pc, error, nest, bufPos, tag, scopes, nsKeys, seenAttrs, attrs,
          repo, stacks>>

NoTag == [alias |-> "", name |-> ""]

\* The names an attribute may have, as pairs of an alias and a local name: those
\* that declare an alias, xmlns and xmlns:p, and those that do not.
Xmlns == "xmlns"
KeyOf(alias) == IF alias = "" THEN <<"", Xmlns>> ELSE <<Xmlns, alias>>
XmlKey == <<Xmlns, "xml">>
Declarations == {KeyOf(a) : a \in Aliases} \cup {XmlKey}
Attributes == Declarations \cup (AllAliases \X AttrNames)

Init ==
    /\ pc = "header" /\ error = "none"
    /\ nest = 0 /\ bufPos = 0 /\ tag = NoTag
    /\ scopes = <<>> /\ nsKeys = {} /\ seenAttrs = {} /\ attrs = <<>>
    /\ repo = Predefined /\ stacks = [a \in Aliases |-> <<>>]

----------------------------------------------------------------------------
(* Exceptions.                                                             *)

Throw(what) == pc' = "failed" /\ error' = what

\* Text that is not XML, at any point of the stream; a header or a trailer
\* with something else than what may stand there; the end inside a tag.
Malformed ==
    /\ pc \in {"header", "body", "tag", "decl", "trailer"}
    /\ Throw("malformed_xml_error")
    /\ UNCHANGED <<nest, bufPos, tag, wrapper, names>>

----------------------------------------------------------------------------
(* sax_parser: the parts of a document.                                    *)

Header ==
    /\ pc = "header"
    /\ pc' = "body"
    /\ UNCHANGED <<error, nest, bufPos, tag, wrapper, names>>

\* The end of the stream: body() stops there whatever is open, and trailer()
\* finds nothing.
EndOfStream ==
    /\ pc \in {"body", "trailer"}
    /\ pc' = "done"
    /\ UNCHANGED <<error, nest, bufPos, tag, wrapper, names>>

\* What is only reported: a comment, a <!DOCTYPE ...> before the trailer, text
\* inside of an element (its buffer, if it needs one, is the one of the current
\* position, which the handler may use until it returns), and a CDATA section
\* wherever markup may stand.
Comment == pc \in {"body", "trailer"} /\ UNCHANGED vars
Characters == pc = "body" /\ nest > 0 /\ UNCHANGED vars
Cdata == pc = "body" /\ UNCHANGED vars

----------------------------------------------------------------------------
(* Temporary buffers of the attribute values.                              *)

\* Mutant: every value is written to the same buffer.
StoreInPlace(transient) == UNCHANGED bufPos

\* A value with encoded characters takes the buffer at the position and moves
\* on to the next (inc_buffer_pos); other values are slices of the stream.
StoreValue(transient) ==
    IF transient
    THEN bufPos' = bufPos + 1
    ELSE UNCHANGED bufPos

\* Mutant: no reset.
KeepBuffers == UNCHANGED bufPos

ReleaseBuffers == bufPos' = 0   \* reset_buffer_pos

----------------------------------------------------------------------------
(* <?xml ... ?> and processing instructions: m_in_pi_block is true.        *)

StartDeclaration ==
    /\ pc = "body"
    /\ pc' = "decl"
    /\ UNCHANGED <<error, nest, bufPos, tag, wrapper, names>>

\* An attribute goes to the handler at once, without a namespace.
DeclarationAttribute ==
    /\ pc = "decl" /\ bufPos < MaxAttrs
    /\ \E transient \in BOOLEAN : StoreValue(transient)
    /\ UNCHANGED <<pc, error, nest, tag, wrapper, names>>

EndDeclaration ==
    /\ pc = "decl"
    /\ pc' = "body"
    /\ attrs' = <<>>
    /\ ReleaseBuffers
    /\ UNCHANGED <<error, nest, tag, scopes, nsKeys, seenAttrs, names>>

----------------------------------------------------------------------------
(* Opening tags.                                                           *)

BeginTag(alias, name) ==
    /\ pc = "body" /\ Len(scopes) < MaxDepth
    /\ pc' = "tag"
    /\ tag' = [alias |-> alias, name |-> name]
    /\ UNCHANGED <<error, nest, bufPos, wrapper, names>>

\* Mutant: an attribute may be repeated.
NeverDuplicate(key) == FALSE

\* The attributes of a tag are told apart by their alias and local name.
Duplicate(key) == key \in seenAttrs

\* xmlns_context::push of an alias that is not "xml".
Push(alias, uri) ==
    /\ repo' = Interned(repo, uri)
    /\ stacks' = PushNs(stacks, alias, IdOf(uri))

Declare(alias, uri) ==
    /\ Push(alias, uri)
    /\ nsKeys' = nsKeys \cup {alias}
    /\ UNCHANGED <<pc, error, attrs>>

\* "xml" may be declared to be what it is; push() throws otherwise.
DeclareXml(uri) ==
    /\ IF uri = BuiltinUri
       THEN UNCHANGED <<pc, error>>
       ELSE Throw("invalid_argument")
    /\ UNCHANGED <<nsKeys, attrs, names>>

\* An attribute that declares nothing is resolved at once and kept.
Keep(alias, transient) ==
    /\ attrs' = Append(attrs,
         [alias |-> alias,
          ns |-> IF alias = "" THEN Unknown ELSE GetNs(stacks, alias),
          buf |-> IF transient THEN bufPos + 1 ELSE 0])
    /\ UNCHANGED <<pc, error, nsKeys, names>>

Attribute(key, uri, transient) ==
    /\ pc = "tag" /\ Cardinality(seenAttrs) < MaxAttrs
    /\ StoreValue(transient)
    /\ IF Duplicate(key)
       THEN /\ Throw("malformed_xml_error")
            /\ UNCHANGED <<nsKeys, seenAttrs, attrs, names>>
       ELSE /\ seenAttrs' = seenAttrs \cup {key}
            /\ \/ \E alias \in Aliases : key = KeyOf(alias) /\ Declare(alias, uri)
               \/ key = XmlKey /\ DeclareXml(uri)
               \/ key \notin Declarations /\ Keep(key[1], transient)
    /\ UNCHANGED <<nest, tag, scopes>>

\* Mutant: the keys are copied to the scope, not swapped into it.
StartElementCopyingKeys ==
    LET ns == GetNs(stacks, tag.alias) IN
    /\ scopes' = Append(scopes, [ns |-> ns, name |-> tag.name, keys |-> nsKeys])
    /\ UNCHANGED nsKeys
    /\ seenAttrs' = {} /\ attrs' = <<>>
    /\ ReleaseBuffers

\* handler_wrapper::start_element of the two wrappers, and the buffers' reset
\* that follows it: the element's own declarations hold for its name.
StartElement ==
    LET ns == GetNs(stacks, tag.alias) IN
    /\ scopes' = Append(scopes, [ns |-> ns, name |-> tag.name, keys |-> nsKeys])
    /\ nsKeys' = {}
    /\ seenAttrs' = {} /\ attrs' = <<>>
    /\ ReleaseBuffers

OpenElement ==
    /\ pc = "tag"
    /\ StartElement
    /\ pc' = "body" /\ nest' = nest + 1 /\ tag' = NoTag
    /\ UNCHANGED <<error, names>>

\* Mutant: the nest level counts the element that is closed at once.
OpenEmptyElementNesting ==
    /\ pc = "tag"
    /\ StartElement
    /\ pc' = "closing" /\ nest' = nest + 1
    /\ UNCHANGED <<error, tag, names>>

\* The first callback of <element/>; the nest level stays.
OpenEmptyElement ==
    /\ pc = "tag"
    /\ StartElement
    /\ pc' = "closing"
    /\ UNCHANGED <<error, nest, tag, names>>

----------------------------------------------------------------------------
(* Closing tags.                                                           *)

\* The closing tag is read; the nest level goes down first.
EndTag(alias, name) ==
    /\ pc = "body" /\ nest > 0
    /\ nest' = nest - 1
    /\ pc' = "closing"
    /\ tag' = [alias |-> alias, name |-> name]
    /\ UNCHANGED <<error, bufPos, wrapper, names>>

Matches(scope) == scope.ns = GetNs(stacks, tag.alias) /\ scope.name = tag.name

\* handler_wrapper::end_element, of a closing tag or of <element/>, and body()'s
\* return once the root is closed.
EndElement ==
    /\ pc = "closing"
    /\ LET scope == scopes[Len(scopes)] IN
       IF ~ Matches(scope)
       THEN /\ Throw("malformed_xml_error")
            /\ UNCHANGED <<scopes, stacks>>
       ELSE IF CanPop(stacks, scope.keys)
       THEN /\ stacks' = PopNs(stacks, scope.keys)
            /\ scopes' = SubSeq(scopes, 1, Len(scopes) - 1)
            /\ pc' = IF nest = 0 THEN "trailer" ELSE "body"
            /\ UNCHANGED error
       ELSE /\ Throw("general_error")
            /\ UNCHANGED <<scopes, stacks>>
    /\ tag' = NoTag
    /\ UNCHANGED <<nest, bufPos, nsKeys, seenAttrs, attrs, repo>>

\* nest_down() throws before anything is looked at.
CloseNothing ==
    /\ pc = "body" /\ nest = 0
    /\ Throw("malformed_xml_error")
    /\ UNCHANGED <<nest, bufPos, tag, wrapper, names>>

Stopped == pc \in {"done", "failed"} /\ UNCHANGED vars

Next ==
    \/ Header \/ EndOfStream \/ Comment \/ Characters \/ Cdata \/ Malformed
    \/ StartDeclaration \/ DeclarationAttribute \/ EndDeclaration
    \/ \E alias \in AllAliases, name \in Names : BeginTag(alias, name)
    \/ \E key \in Attributes, transient \in BOOLEAN :
         \E uri \in IF key \in Declarations THEN Uris \cup {NoUri} ELSE {NoUri} :
            Attribute(key, uri, transient)
    \/ OpenElement \/ OpenEmptyElement
    \/ \E alias \in AllAliases, name \in Names : EndTag(alias, name)
    \/ EndElement
    \/ CloseNothing \/ Stopped

Spec == Init /\ [][Next]_vars

----------------------------------------------------------------------------
(* Properties.                                                             *)

Scope == [ns : Ids, name : Names, keys : SUBSET Aliases]
TagRead == [alias : AllAliases, name : Names \cup {""}]

\* The values the state may have.
TypeOK ==
    /\ pc \in {"header", "body", "tag", "decl", "closing", "trailer", "done", "failed"}
    /\ error \in {"none", "malformed_xml_error", "invalid_argument", "general_error"}
    /\ nest \in Nat /\ bufPos \in Nat
    /\ tag \in TagRead
    /\ scopes \in Seq(Scope)
    /\ nsKeys \in SUBSET Aliases
    /\ seenAttrs \in SUBSET Attributes
    /\ attrs \in Seq([alias : AllAliases, ns : Ids, buf : Nat])
    /\ repo \in Seq(Uris)
    /\ stacks \in [Aliases -> Seq(Ids \ {BuiltinId})]

\* The open elements, outermost first up to the i-th, that declare the alias.
Declaring(s, alias, i) == {j \in 1 .. i : alias \in s[j].keys}

\* An alias is on its stack once for every open element that declares it, and
\* once for the tag being read if that declares it: what end_element pops is
\* what the attributes of that same element have pushed, no more and no less
\* (sax_ns_parser.hpp, attribute, start_element and end_element).
StacksMatchScopes ==
    \A a \in Aliases :
        Len(stacks[a]) = Cardinality(Declaring(scopes, a, Len(scopes)))
                         + (IF a \in nsKeys THEN 1 ELSE 0)

\* end_element never asks the context to pop an empty stack: the general_error
\* of xmlns_context::pop is never thrown.
PopsWhatWasPushed == error # "general_error"

\* The level sax_parser counts and the scopes sax_ns_parser stacks agree, so
\* that m_scopes.back() of end_element is there: nest_down throws first.
NestIsDepth ==
    pc # "failed" => Len(scopes) = nest + (IF pc = "closing" THEN 1 ELSE 0)

\* The levels sax_parser counts are the scopes that sax_ns_parser stacks, and
\* their keys are what the context's stacks hold.
LevelsInStep == PopsWhatWasPushed /\ NestIsDepth

\* A repository never gives a URI two indices, and every identifier bound to an
\* alias, or kept in a scope, has one, as the asserts of intern() require:
\* get_index and get_short_name work for all of them.
EveryIdHasOneIndex ==
    /\ \A i, j \in 1 .. Len(repo) : repo[i] = repo[j] => i = j
    /\ \A a \in Aliases : Range(stacks[a]) \subseteq Range(repo) \cup {Unknown}
    /\ \A i \in 1 .. Len(scopes) : scopes[i].ns \in Range(repo) \cup {Unknown, BuiltinId}

\* The attributes that sax_token_parser keeps until start_element hold views of
\* temporary buffers past the callback that gave them: no two of them share a
\* buffer, and the one that the next value is written to is not theirs
\* (inc_buffer_pos and reset_buffer_pos).
HeldValuesKeepTheirBuffers ==
    /\ \A i, j \in 1 .. Len(attrs) :
         i # j /\ attrs[i].buf # 0 => attrs[i].buf # attrs[j].buf
    /\ \A i \in 1 .. Len(attrs) : attrs[i].buf \in 0 .. bufPos

\* The assertion at the end of sax_parser::parse: every buffer is given back.
\* No attribute waits for its element either.
NothingIsLeftOver == pc \in {"trailer", "done"} => bufPos = 0 /\ attrs = <<>> /\ nsKeys = {}

\* Nothing of one tag is there when the next one is read, and an alias a tag has
\* declared is among its attributes, so that it cannot declare it again.
TagsAreApart ==
    /\ pc \notin {"tag", "failed"} => nsKeys = {} /\ seenAttrs = {} /\ attrs = <<>>
    /\ pc \notin {"tag", "decl", "failed"} => bufPos = 0
    /\ pc \in {"tag", "closing"} => tag.name \in Names
    /\ \A a \in nsKeys : KeyOf(a) \in seenAttrs

\* The inductive invariant.
IInv ==
    /\ TypeOK /\ TagsAreApart /\ StacksMatchScopes /\ NestIsDepth /\ PopsWhatWasPushed
    /\ EveryIdHasOneIndex /\ HeldValuesKeepTheirBuffers

\* Elements nest and an alias means what the innermost open element that
\* declares it says: the stacks of aliases, the sets of keys and the tags read
\* attribute by attribute implement lexical scoping.
EnvAt(i) ==
    [a \in AllAliases |->
        IF a = "xml" THEN BuiltinId
        ELSE LET n == Cardinality(Declaring(scopes, a, i)) IN
             IF n = 0 THEN Unknown ELSE stacks[a][n]]

OpenElements ==
    [i \in 1 .. Len(scopes) |->
        [ns |-> scopes[i].ns, name |-> scopes[i].name,
         declares |-> scopes[i].keys, env |-> EnvAt(i)]]

Scoping == INSTANCE NamespaceScoping WITH
    open <- OpenElements, close <- IF pc = "closing" THEN tag ELSE NoTag

ImplementsScoping == Scoping!Spec

----------------------------------------------------------------------------
(* What the docs say and the code does not do.                             *)

\* "Both the source prefix and the resolved namespace identifier" (parsers.rst):
\* the namespace of an attribute is the one its prefix means in its element.
PrefixesAreResolved ==
    [][pc = "tag" /\ pc' = "body" =>
         \A i \in 1 .. Len(attrs) :
            attrs[i].alias # "" => attrs[i].ns = GetNs(stacks, attrs[i].alias)]_vars

----------------------------------------------------------------------------
(* For the runs: a repository that starts with one URI, not the built-in. *)
OneUri == <<CHOOSE u \in Uris : u # BuiltinUri>>
=============================================================================
