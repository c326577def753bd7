----------------------------- MODULE MarkupText -----------------------------
(***************************************************************************)
(* How css_parser and sax_parser read the characters of a style sheet and  *)
(* of an XML document, which the other modules take as rules and elements  *)
(* already, and how xml_writer writes an XML document.  A text is a        *)
(* sequence of characters; a word of which the parser only asks which word *)
(* it is stands for one character.  A state of either parser is the        *)
(* position p, the calls it has made of its handler, out, and its flags.   *)
(***************************************************************************)
EXTENDS Integers, SequencesExt, TLC

CONSTANTS Markup,      \* the kinds of text: "css", "xml"
          Words,       \* the characters that are letters
          Rules,       \* the sets of the first, second ... rule of a style sheet, see RuleText
          CutRules,    \* those of the first whose text is also cut at any place
          Behind,      \* what the memory may have behind such a text, "" for nothing of use
          Fillers,     \* what a style sheet has between its symbols
          Calls,       \* of xml_writer, and what other writers put between
          MaxWriterCalls

VARIABLES builder,
          doc,         \* the namespaces that are declared and not closed
          cxt,         \* [kind, depth, pending, filler]
          file         \* the rules, or the calls

vars == <<builder, doc, cxt, file>>

Blanks == {" ", "nl", "tab"}
Digits == "0" :> 0 @@ "1" :> 1 @@ "2" :> 2 @@ "3" :> 3 @@ "4" :> 4 @@
          "5" :> 5 @@ "6" :> 6 @@ "7" :> 7 @@ "8" :> 8 @@ "9" :> 9
At(s, p) == IF p \in DOMAIN s THEN s[p] ELSE ""      \* where the code asks for the end first
RECURSIVE Past(_, _, _)
Past(s, p, set) == IF At(s, p) \in set THEN Past(s, p + 1, set) ELSE p
RECURSIVE UpTo(_, _, _)
UpTo(s, p, set) == IF p > Len(s) \/ At(s, p) \in set THEN p ELSE UpTo(s, p + 1, set)
Piece(s, p, end) == SubSeq(s, p, end - 1)
Fail(st) == [st EXCEPT !.err = TRUE]
-----------------------------------------------------------------------------
(* css::parser_base.                                                       *)
Identifier(s, p, extra) == Past(s, p + 1, Words \cup DOMAIN Digits \cup {"-", "_"} \cup extra)
ValueEnd(s, p) ==      \* 0 when its first character is not one of a value
    IF At(s, p) \in Words \cup DOMAIN Digits \cup {"-", "+", ".", "#"}
    THEN Past(s, p + 1, Words \cup DOMAIN Digits \cup {"-", "_", ".", "%"}) ELSE 0

Number(digits) == FoldLeft(LAMBDA n, c : 10 * n + Digits[c], 0, digits)
NumberRead(s, p, end, limit) == [end |-> IF end = p THEN 0 ELSE end, value |-> Min({Number(Piece(s, p, end)), limit})]
ParseUint8(s, p) == NumberRead(s, p, Min({Past(s, p, DOMAIN Digits), p + 4}), 255)
(* parse_double of a whole number, held within limits by std::clamp.       *)
ParseClamped(s, p, limit) ==
    IF At(s, p) = "-" THEN [NumberRead(s, p + 1, Past(s, p + 1, DOMAIN Digits), limit) EXCEPT !.value = 0]
    ELSE NumberRead(s, p, Past(s, p, DOMAIN Digits), limit)
PercentRead(s, n) == [n EXCEPT !.end = IF @ = 0 \/ At(s, @) # "%" THEN 0 ELSE @ + 1]
ParsePercent(s, p) == PercentRead(s, ParseClamped(s, p, 100))

RECURSIVE CommentEnd(_, _, _)
CommentEnd(s, p, star) ==
    IF p > Len(s) THEN p ELSE IF star /\ s[p] = "/" THEN p + 1 ELSE CommentEnd(s, p + 1, s[p] = "*")
SkipComment(s, p) ==
    IF At(s, p) = "/" /\ Len(s) - p > 2 /\ At(s, p + 1) = "*" THEN Past(s, CommentEnd(s, p + 2, FALSE), Blanks) ELSE p
RECURSIVE SkipComments(_, _)
SkipComments(s, p) == LET q == SkipComment(s, p) IN IF q = p THEN p ELSE SkipComments(s, q)
Skip(s, p) == SkipComments(s, Past(s, p, Blanks))      \* skip_comments_and_blanks

RECURSIVE Trimmed(_, _)
Trimmed(s, p) == IF Len(s) > p /\ Last(s) \in Blanks THEN Trimmed(Front(s), p) ELSE s
(* shrink_stream: what is left of a text in an HTML comment, which ends at *)
(* its last character but for the blanks.                                  *)
Matching(t, open) == Max({i \in 0..Len(open) : SubSeq(t, 1, i) = SubSeq(open, 1, i)})
ShrinkEnd(t) ==
    IF Len(t) < 4 \/ SubSeq(t, Len(t) - 2, Len(t)) # <<"-", "-", ">">> THEN t
    ELSE Trimmed(SubSeq(t, 1, Len(t) - 3), 1)
ShrinkOpen(t, same) ==
    IF Len(t) < 5 THEN t
    ELSE IF same < 4 THEN SubSeq(t, same + 1, Len(t)) ELSE ShrinkEnd(SubSeq(t, Past(t, 5, Blanks), Len(t)))
ShrinkFrom(t) == ShrinkOpen(t, Matching(t, <<"<", "!", "-", "-">>))
ShrinkStream(s) == ShrinkFrom(Trimmed(SubSeq(s, Past(s, 1, Blanks), Len(s)), 1))
-----------------------------------------------------------------------------
(* css_parser.  Nothing follows an error.  At its end the parser often     *)
(* reads a character without asking (cur_char): the one in the memory      *)
(* behind the text, st.behind.  When that is the one it waits for, it goes *)
(* on beyond the end, where has_char() is true for ever: st.beyond.        *)
Move(st, p) == IF st.err THEN st ELSE [st EXCEPT !.p = p]
CurChar(s, st) == IF st.p = st.end THEN st.behind ELSE At(s, st.p)
GoTo(st, p) == IF st.err THEN st ELSE IF p > st.end THEN [st EXCEPT !.err = TRUE, !.beyond = TRUE] ELSE [st EXCEPT !.p = p]
Tell(st, type, vals, p) ==
    IF st.err THEN st ELSE GoTo([st EXCEPT !.out = Append(@, [type |-> type, vals |-> vals])], p)
Expect(s, st, c) == IF CurChar(s, st) # c THEN Fail(st) ELSE GoTo(st, Skip(s, st.p + 1))

PseudoClasses  == {"hover", "link"}       \* of css::to_pseudo_class
PseudoElements == {"before", "after"}     \* and css::to_pseudo_element
PartType(s, p) == CASE At(s, p) = "." -> "class"
                    [] At(s, p) = "#" -> "id"
                    [] At(s, p) = ":" -> IF At(s, p + 1) = ":" THEN "pseudo element" ELSE "pseudo class"
                    [] OTHER -> ""
Part(st, type, name, end) ==
    IF \/ type = "pseudo element" /\ Head(name) \notin PseudoElements
       \/ type = "pseudo class" /\ Head(name) \notin PseudoClasses
    THEN Fail(st) ELSE Tell(st, type, name, end)
PartFrom(s, st, type, from) ==      \* identifier() takes its first character as it is
    IF from >= st.end THEN GoTo(st, from + 1) ELSE Part(st, type, Piece(s, from, Identifier(s, from, {})), Identifier(s, from, {}))
RECURSIVE SimpleSelectorParts(_, _)
SimpleSelectorParts(s, st) ==
    IF st.err THEN st
    ELSE IF PartType(s, st.p) = "" THEN Tell(st, "end simple", <<>>, Skip(s, st.p))
    ELSE SimpleSelectorParts(s, PartFrom(s, st, PartType(s, st.p),
                                         IF PartType(s, st.p) = "pseudo element" THEN st.p + 2 ELSE st.p + 1))
TypeName(s, st) == IF At(s, st.p) \in {".", "#"} THEN st
                   ELSE Tell(st, "type", Piece(s, st.p, Identifier(s, st.p, {})), Identifier(s, st.p, {}))
SimpleSelectorName(s, st) ==
    [SimpleSelectorParts(s, TypeName(s, IF st.count = 0 THEN st ELSE [Tell(st, "combinator", <<st.comb>>, st.p)
                                                                       EXCEPT !.comb = "descendant"]))
     EXCEPT !.count = @ + 1]
AtRuleFrom(s, st, end) ==
    IF CurChar(s, st) \notin Words THEN Fail(st)
    ELSE IF st.p = st.end THEN GoTo(st, end) ELSE Tell(st, "at rule", Piece(s, st.p, end), Past(s, end, Blanks))
AtRuleName(s, st) == AtRuleFrom(s, GoTo(st, st.p + 1), Identifier(s, st.p + 1, {}))
SetCombinator(s, st, comb) ==
    IF st.count = 0 THEN Fail(st) ELSE [GoTo(st, Skip(s, st.p + 1)) EXCEPT !.comb = comb]
NameSep(s, st) == Tell(st, "end selector", <<>>, Past(s, st.p + 1, Blanks))

IsQuote(c) == c \in {"\"", "'"}
Literal(s, p) == UpTo(s, p + 1, {s[p]})      \* the closing quote, or behind the end
Quoted(s, st, type, end, next) ==
    IF end < st.end THEN Tell(st, type, Piece(s, st.p + 1, end), next)
    ELSE IF st.behind = s[st.p] THEN GoTo(st, end + 1) ELSE Fail(st)
QuotedValue(s, st) == Quoted(s, st, "value", Literal(s, st.p), Past(s, Literal(s, st.p) + 1, Blanks))

(* The arguments of a function, each by one of the readers above.          *)
Argument(s, p, how) == CASE how = "uint8" -> ParseUint8(s, p)
                         [] how = "hue" -> ParseClamped(s, p, 360)
                         [] how = "percent" -> ParsePercent(s, p)
                         [] how \in {"alpha", "bare alpha"} -> ParseClamped(s, p, 1)
Take(st, a) == IF a.end = 0 THEN Fail(st) ELSE [GoTo(st, a.end) EXCEPT !.vals = Append(@, ToString(a.value))]
SkipAfter(s, st, how) == IF how = "bare alpha" THEN st ELSE GoTo(st, Skip(s, st.p))
NextArgument(s, st, how) == SkipAfter(s, Take(st, Argument(s, st.p, how)), how)
Arguments(s, st, hows) ==
    FoldLeft(LAMBDA q, how : NextArgument(s, Expect(s, q, ","), how), NextArgument(s, st, Head(hows)), Tail(hows))
Answer(st, type) == [Tell(st, type, st.vals, st.p) EXCEPT !.vals = <<>>]
FunctionRgb(s, st, alpha) ==
    LET uint8s == <<"uint8", "uint8", "uint8">> IN
    Answer(Arguments(s, st, IF alpha THEN Append(uint8s, "bare alpha") ELSE uint8s), IF alpha THEN "rgba" ELSE "rgb")
FunctionHsl(s, st, alpha) ==
    LET hsl == <<"hue", "percent", "percent">> IN
    Answer(Arguments(s, st, IF alpha THEN Append(hsl, "alpha") ELSE hsl), IF alpha THEN "hsla" ELSE "hsl")
FunctionUrl(s, st) ==
    LET stop == UpTo(s, st.p, Blanks \cup {")"}) IN
    IF ~IsQuote(CurChar(s, st)) THEN Tell(st, "url", Piece(s, st.p, stop), Skip(s, stop))
    ELSE IF st.p = st.end THEN GoTo(st, st.p + 1)
    ELSE Quoted(s, st, "url", Literal(s, st.p), Skip(s, Literal(s, st.p) + 1))
Functions == {<<"rgb">>, <<"rgba">>, <<"hsl">>, <<"hsla">>, <<"url">>}
CalledFunction(s, st, name) == CASE name \in {<<"rgb">>, <<"rgba">>} -> FunctionRgb(s, st, name = <<"rgba">>)
                                 [] name \in {<<"hsl">>, <<"hsla">>} -> FunctionHsl(s, st, name = <<"hsla">>)
                                 [] name = <<"url">> -> FunctionUrl(s, st)
CallIn(s, st, name) == IF st.err THEN st ELSE Expect(s, CalledFunction(s, st, name), ")")
FunctionValue(s, st, name) ==
    IF name \notin Functions THEN Fail(st) ELSE CallIn(s, GoTo(st, Skip(s, st.p + 1)), name)
ValueFrom(s, st, name) ==
    IF CurChar(s, st) = "(" THEN FunctionValue(s, st, name) ELSE Tell(st, "value", name, Skip(s, st.p))
PlainValue(s, st, end) == IF end = 0 THEN Fail(st) ELSE ValueFrom(s, GoTo(st, end), Piece(s, st.p, end))
Value(s, st) == IF IsQuote(At(s, st.p)) THEN QuotedValue(s, st) ELSE PlainValue(s, st, ValueEnd(s, st.p))

RECURSIVE Values(_, _)
AfterValue(s, st) == CASE st.err \/ CurChar(s, st) \in {";", "}"} -> Tell(st, "end property", <<>>, Skip(s, st.p))
                       [] ~st.err /\ CurChar(s, st) = "," -> Values(s, GoTo(st, Skip(s, st.p + 1)))
                       [] OTHER -> Values(s, st)
Values(s, st) == IF st.err \/ st.p = st.end THEN Tell(st, "end property", <<>>, st.p) ELSE AfterValue(s, Value(s, st))
PropertyName(s, st) ==
    IF At(s, st.p) \notin Words \cup {"."} THEN Fail(st)
    ELSE Tell(st, "property", Piece(s, st.p, Identifier(s, st.p, {})), Skip(s, Identifier(s, st.p, {})))
Property(s, st) == Values(s, Expect(s, PropertyName(s, st), ":"))
PropertySep(s, st) == GoTo(st, Skip(s, st.p + 1))
EndBlock(s, st) == IF CurChar(s, st) # "}" THEN Fail(st) ELSE Tell(st, "end block", <<>>, Skip(s, st.p + 1))
RECURSIVE Declarations(_, _)
AfterSep(s, st) == IF CurChar(s, st) = "}" THEN EndBlock(s, st) ELSE Declarations(s, st)
AfterProperty(s, st) == IF st.err \/ CurChar(s, st) # ";" THEN EndBlock(s, st) ELSE AfterSep(s, PropertySep(s, st))
Declarations(s, st) == IF st.err \/ st.p = st.end THEN EndBlock(s, st) ELSE AfterProperty(s, Property(s, st))
Block(s, st) ==
    Declarations(s, Tell(Tell([st EXCEPT !.count = 0, !.comb = "descendant"], "end selector", <<>>, st.p),
                       "block", <<>>, Skip(s, st.p + 1)))

RuleStep(s, st, c) ==
    CASE SkipComment(s, st.p) > st.p -> GoTo(st, SkipComment(s, st.p))
      [] SkipComment(s, st.p) = st.p /\ c \in Words \cup {".", "#"} -> SimpleSelectorName(s, st)
      [] c = "@" -> AtRuleName(s, st)
      [] c = ">" -> SetCombinator(s, st, ">")
      [] c = "+" -> SetCombinator(s, st, "+")
      [] c = "," -> NameSep(s, st)
      [] c = "{" -> Block(s, st)
      [] OTHER -> Fail(st)
RECURSIVE Rule(_, _)
Rule(s, st) == IF st.err \/ st.p = st.end THEN st ELSE Rule(s, RuleStep(s, st, At(s, st.p)))
NewParser(s, behind) == [p |-> 1, out |-> <<>>, err |-> FALSE, count |-> 0, comb |-> "descendant", vals |-> <<>>,
                         end |-> Len(s) + 1, behind |-> behind, beyond |-> FALSE]
Parse(s, behind) == Rule(s, NewParser(s, behind))
(* Behind a text that shrinks at its end is what was cut off there.        *)
ParseShrunk(s, t, behind) == Parse(t, IF IsSuffix(t, s) THEN behind ELSE "-")
ParseCss(s, behind) == ParseShrunk(s, ShrinkStream(s), behind)
-----------------------------------------------------------------------------
(* sax::parser_base.  A position of 0 is an error.                         *)
IsAt(s, p, chars) == \A i \in DOMAIN chars : At(s, p + i - 1) = chars[i]
NameStart == Words \cup {"_"}
NameAt(s, p, end) == IF At(s, p) \notin NameStart \/ end > Len(s) THEN 0 ELSE end
Name(s, p) == NameAt(s, p, Past(s, p + 1, NameStart \cup DOMAIN Digits \cup {"-", "."}))
LocalName(s, ns, p, end) == [end |-> end, ns |-> ns, name |-> IF end = 0 THEN <<>> ELSE Piece(s, p, end)]
QNameFrom(s, p, end) == IF end > 0 /\ At(s, end) = ":" THEN LocalName(s, Piece(s, p, end), end + 1, Name(s, end + 1))
                        ELSE LocalName(s, <<>>, p, end)
QName(s, p) == QNameFrom(s, p, Name(s, p))      \* element_name, attribute_name

EncodedChars == "lt" :> "<" @@ "gt" :> ">" @@ "amp" :> "&" @@ "apos" :> "'" @@ "quot" :> "\""
UnicodeChars == "#65" :> "A" @@ "#x41" :> "A"      \* of decode_xml_unicode_char
(* What a reference stands for; the name itself when there is none.        *)
CharNamed(s, p, end, name) ==
    IF end > Len(s) \/ end = p + 1 THEN [end |-> 0, text |-> <<>>]
    ELSE [end |-> end + 1, text |-> CASE end = p + 2 /\ name \in DOMAIN EncodedChars -> <<EncodedChars[name]>>
                                      [] end = p + 2 /\ name \in DOMAIN UnicodeChars -> <<UnicodeChars[name]>>
                                      [] OTHER -> Piece(s, p + 1, end + 1)]
ParseEncodedChar(s, p) == CharNamed(s, p, UpTo(s, p, {";"}), At(s, p + 1))
(* value_with_encoded_char and characters_with_encoded_char.               *)
RECURSIVE Decoded(_, _, _, _)
DecodedAfter(s, c, stop, buf) ==
    IF c.end = 0 THEN [end |-> 0, text |-> buf] ELSE Decoded(s, c.end, stop, buf \o c.text)
Decoded(s, p, stop, buf) ==
    CASE At(s, p) \in {"", stop} -> [end |-> p, text |-> buf]
      [] At(s, p) = "&" -> DecodedAfter(s, ParseEncodedChar(s, p), stop, buf)
      [] OTHER -> Decoded(s, p + 1, stop, Append(buf, s[p]))
ClosingQuote(s, value) == [value EXCEPT !.end = IF @ \in 1..Len(s) THEN @ + 1 ELSE @]
QuotedFrom(s, p, quote, end) ==
    CASE ~IsQuote(quote) \/ end > Len(s) -> [end |-> 0, text |-> <<>>]
      [] IsQuote(quote) /\ At(s, end) = quote -> [end |-> end + 1, text |-> Piece(s, p + 1, end)]
      [] OTHER -> ClosingQuote(s, Decoded(s, end, quote, Piece(s, p + 1, end)))
ParseQuoted(s, p, decode) ==
    QuotedFrom(s, p, At(s, p), UpTo(s, p + 1, {At(s, p)} \cup IF decode THEN {"&"} ELSE {}))
(* Of a comment, up to two hyphens, which only its end may have.           *)
RECURSIVE Hyphens(_, _)
Hyphens(s, p) == IF p > Len(s) \/ (s[p] = "-" /\ s[p - 1] = "-") THEN p ELSE Hyphens(s, p + 1)
-----------------------------------------------------------------------------
(* sax_parser.                                                             *)
Event(type, ns, name, text) == [type |-> type, ns |-> ns, name |-> name, text |-> text]
Report(st, event, p) == [st EXCEPT !.out = Append(@, event), !.p = p]

AttributeIs(st, name, value) ==
    IF value.end = 0 THEN Fail(st) ELSE Report(st, Event("attribute", name.ns, name.name, value.text), value.end)
AttributeNamed(s, st, name, eq) ==
    IF name.end = 0 \/ At(s, eq) # "=" THEN Fail(st)
    ELSE AttributeIs(st, name, ParseQuoted(s, Past(s, eq + 1, Blanks), TRUE))
AttributeFrom(s, st, name) == AttributeNamed(s, st, name, Past(s, name.end, Blanks))
Attribute(s, st) == AttributeFrom(s, st, QName(s, st.p))

SkipBlanks(s, st) == Move(st, Past(s, st.p, Blanks))
ElementEvent(type, elem) == Event(type, elem.ns, elem.name, <<>>)
RECURSIVE Opened(_, _, _)
Opened(s, st, elem) ==
    CASE st.err \/ At(s, st.p) = "" -> Fail(st)
      [] IsAt(s, st.p, <<"/", ">">>) ->
            [Report(Report(st, ElementEvent("start", elem), st.p), ElementEvent("end", elem), st.p + 2)
             EXCEPT !.root = @ /\ st.nest > 0]
      [] At(s, st.p) = ">" -> [Report(st, ElementEvent("start", elem), st.p + 1) EXCEPT !.nest = @ + 1]
      [] OTHER -> Opened(s, SkipBlanks(s, Attribute(s, st)), elem)      \* no name starts with "/"
OpenedFrom(s, st, elem) == IF elem.end = 0 THEN Fail(st) ELSE Opened(s, SkipBlanks(s, Move(st, elem.end)), elem)
ElementOpen(s, st) == OpenedFrom(s, st, QName(s, st.p))
Closed(s, st, elem) ==
    IF st.nest = 0 \/ elem.end = 0 \/ At(s, elem.end) # ">" THEN Fail(st)
    ELSE [Report(st, ElementEvent("end", elem), elem.end + 1) EXCEPT !.nest = @ - 1, !.root = st.nest > 1]
ElementClose(s, st) == Closed(s, st, QName(s, st.p + 1))

CommentTo(s, st, end) ==
    IF At(s, end + 1) # ">" THEN Fail(st)
    ELSE Report(st, Event("comment", <<>>, <<>>, Piece(s, st.p, end - 1)), end + 2)
Comment(s, st) == CommentTo(s, st, Hyphens(s, st.p + 1))
RECURSIVE CdataEnd(_, _, _)
CdataEnd(s, p, match) ==
    CASE p > Len(s) -> p
      [] p <= Len(s) /\ s[p] = "]" -> CdataEnd(s, p + 1, Min({match + 1, 2}))
      [] p <= Len(s) /\ s[p] = ">" /\ match = 2 -> p
      [] OTHER -> CdataEnd(s, p + 1, 0)
CdataTo(s, st, end) ==
    IF end > Len(s) THEN Fail(st) ELSE Report(st, Event("text", <<>>, <<>>, Piece(s, st.p, end - 2)), end + 1)
Cdata(s, st) == IF st.p > Len(s) THEN st ELSE CdataTo(s, st, CdataEnd(s, st.p, 0))

(* The identifiers of a document type, the second one or none.             *)
DoctypeEnd(s, st, event, p) == IF At(s, p) # ">" THEN Fail(st) ELSE Report(st, event, p + 1)
DoctypeUri(s, st, event, uri) ==
    IF uri.end = 0 THEN Fail(st)
    ELSE DoctypeEnd(s, st, [event EXCEPT !.text = @ \o uri.text], Past(s, uri.end, Blanks))
DoctypeNext(s, st, event, p) == IF At(s, p) = ">" THEN DoctypeEnd(s, st, event, p)
                                ELSE DoctypeUri(s, st, event, ParseQuoted(s, p, FALSE))
DoctypeFpi(s, st, event, fpi) ==
    IF fpi.end = 0 THEN Fail(st) ELSE DoctypeNext(s, st, [event EXCEPT !.text = fpi.text], Past(s, fpi.end, Blanks))
DoctypeKey(s, st, root, key) ==
    DoctypeFpi(s, st, Event("doctype", <<At(s, key)>>, Piece(s, st.p, root), <<>>),
               ParseQuoted(s, Past(s, key + 1, Blanks), FALSE))
DoctypeRoot(s, st, root) == IF root = 0 THEN Fail(st) ELSE DoctypeKey(s, st, root, Past(s, root, Blanks))
Doctype(s, st) == IF st.p > Len(s) THEN st ELSE DoctypeRoot(s, st, Name(s, st.p))
SpecialTag(s, st) ==
    CASE IsAt(s, st.p + 1, <<"-", "-">>) /\ Len(s) - st.p >= 4 -> Comment(s, Move(st, st.p + 3))
      [] IsAt(s, st.p + 1, <<"[", "CDATA", "[">>) -> Cdata(s, Move(st, st.p + 4))
      [] At(s, st.p + 1) = "DOCTYPE" -> Doctype(s, Move(st, Past(s, st.p + 2, Blanks)))
      [] OTHER -> Fail(st)

RECURSIVE Instruction(_, _, _)
Instruction(s, st, name) ==
    CASE IsAt(s, st.p, <<"?", ">">>) -> Report(st, Event("end instruction", <<>>, name, <<>>), st.p + 2)
      [] st.err \/ At(s, st.p) = "" -> Fail(st)
      [] OTHER -> Instruction(s, SkipBlanks(s, Attribute(s, st)), name)      \* no name starts with "?"
InstructionFrom(s, st, name, end) ==
    IF end = 0 THEN Fail(st)
    ELSE Instruction(s, SkipBlanks(s, Report(st, Event("instruction", <<>>, name, <<>>), end)), name)
DeclarationTo(s, st, end) == InstructionFrom(s, st, Piece(s, st.p + 1, end), end)
Declaration(s, st) == DeclarationTo(s, st, Name(s, st.p + 1))
CharactersAre(st, text) ==
    IF text.end = 0 THEN Fail(st) ELSE Report(st, Event("text", <<>>, <<>>, text.text), text.end)
CharactersTo(s, st, end) == CharactersAre(st, Decoded(s, end, "<", Piece(s, st.p, end)))
Characters(s, st) == CharactersTo(s, st, UpTo(s, st.p, {"<", "&"}))

MarkupAt(s, st, c) == CASE c = "" -> Fail(st)
                        [] c = "/" -> ElementClose(s, st)
                        [] c = "!" -> SpecialTag(s, st)
                        [] c = "?" -> Declaration(s, st)
                        [] OTHER -> ElementOpen(s, st)
Element(s, st) == MarkupAt(s, Move(st, st.p + 1), At(s, st.p + 1))
RECURSIVE Body(_, _)
Body(s, st) ==
    IF st.err \/ ~st.root \/ st.p > Len(s) THEN st
    ELSE Body(s, CASE At(s, st.p) = "<" -> Element(s, st)
                   [] At(s, st.p) # "<" /\ st.nest > 0 -> Characters(s, st)
                   [] OTHER -> Move(st, st.p + 1))
RECURSIVE Trailer(_, _)
Trailer(s, st) ==
    CASE st.err \/ st.p > Len(s) -> st
      [] ~st.err /\ IsAt(s, st.p, <<"<", "!", "-", "-">>) -> Trailer(s, SkipBlanks(s, Comment(s, Move(st, st.p + 4))))
      [] OTHER -> Fail(st)
ParseXmlFrom(s, st) == IF At(s, st.p) # "<" THEN Fail(st) ELSE Trailer(s, SkipBlanks(s, Body(s, st)))
ParseXml(s) == ParseXmlFrom(s, [p |-> Past(s, 1, Blanks), out |-> <<>>, err |-> FALSE, nest |-> 0, root |-> TRUE])
-----------------------------------------------------------------------------
(* xml_writer: what is written, the open elements, and the namespaces and  *)
(* attributes of the next one.  A namespace is never closed: the aliases   *)
(* of an element (_elem::ns_aliases) are not filled.                       *)
Encoding == "&" :> "amp" @@ "<" :> "lt" @@ ">" :> "gt"
Encoded(text, more) ==      \* write_content_encoded
    FlattenSeq([i \in DOMAIN text |-> IF text[i] \in DOMAIN Encoding THEN <<"&", Encoding[text[i]], ";">>
                                      ELSE IF text[i] \in DOMAIN more THEN <<"&", more[text[i]], ";">> ELSE <<text[i]>>])
GetAlias(context, ns) ==
    IF \E a \in DOMAIN context : context[a] # <<>> /\ Last(context[a]) = ns
    THEN CHOOSE a \in DOMAIN context : context[a] # <<>> /\ Last(context[a]) = ns ELSE <<>>
Prefixed(alias, name) == IF alias = <<>> THEN name ELSE alias \o <<":">> \o name
PrintName(context, name) == Prefixed(GetAlias(context, name.ns), name.name)
CloseCurrentElement(w) ==
    IF w.stack # <<>> /\ Last(w.stack).open
    THEN [w EXCEPT !.os = Append(@, ">"), !.stack[Len(w.stack)].open = FALSE] ELSE w
AddNamespace(w, c) ==
    [w EXCEPT !.context = (c.alias :> (IF c.alias \in DOMAIN @ THEN Append(@[c.alias], c.ns) ELSE <<c.ns>>)) @@ @,
              !.decls = Append(@, c.alias)]
DeclarationText(context, alias) ==
    <<" ", "xmlns">> \o (IF alias = <<>> THEN <<>> ELSE <<":">> \o alias) \o <<"=", "\"", Last(context[alias]), "\"">>
AttributeText(context, a) ==
    <<" ">> \o PrintName(context, a) \o <<"=", "\"">> \o Encoded(a.text, "\"" :> "quot") \o <<"\"">>
PushElement(w, c) ==
    [CloseCurrentElement(w) EXCEPT
        !.os = @ \o <<"<">> \o PrintName(w.context, c)
               \o FlattenSeq([i \in DOMAIN w.decls |-> DeclarationText(w.context, w.decls[i])])
               \o FlattenSeq([i \in DOMAIN w.attrs |-> AttributeText(w.context, w.attrs[i])]),
        !.stack = Append(@, [ns |-> c.ns, name |-> c.name, open |-> TRUE]),
        !.decls = <<>>, !.attrs = <<>>]
AddContent(w, chars) == [CloseCurrentElement(w) EXCEPT !.os = @ \o chars]
Popped(w, elem) ==
    [w EXCEPT !.os = @ \o (IF elem.open THEN <<"/", ">">> ELSE <<"<", "/">> \o PrintName(w.context, elem) \o <<">">>),
              !.stack = Front(@)]
PopElement(w) == Popped(w, Last(w.stack))
Write(w, c) == CASE c.op = "namespace" -> AddNamespace(w, c)
                 [] c.op = "attribute" -> [w EXCEPT !.attrs = Append(@, c)]
                 [] c.op = "push" -> PushElement(w, c)
                 [] c.op = "content" -> AddContent(w, Encoded(c.text, <<>>))
                 [] c.op = "pop" -> PopElement(w)
                 [] c.op = "raw" -> AddContent(w, c.chars)
RECURSIVE PopElements(_)
PopElements(w) == IF w.stack = <<>> THEN w ELSE PopElements(PopElement(w))
NewWriter == [os |-> <<"<", "?", "xml", " ", "version", "=", "\"", "1", "\"", "?", ">">>, stack |-> <<>>,
              context |-> <<>>, decls |-> <<>>, attrs |-> <<>>]
WrittenXml(calls) == PopElements(FoldLeft(Write, NewWriter, calls)).os
-----------------------------------------------------------------------------
(* How a style sheet is written: a rule has an at-rule's name or none, a   *)
(* group of selectors and a block of properties, with a filler wherever    *)
(* the parser skips comments and blanks.  A simple selector is glued.      *)
Mark == "class" :> <<".">> @@ "id" :> <<"#">> @@ "pseudo class" :> <<":">> @@ "pseudo element" :> <<":", ":">>
Over(seq, F(_, _)) == FlattenSeq([i \in DOMAIN seq |-> F(seq[i], i)])
Fill == cxt.filler.fill
SelectorText(sel) ==
    Over(sel, LAMBDA simple, j :
        (IF j = 1 THEN <<>> ELSE IF simple.comb = "descendant" THEN <<" ">> ELSE <<simple.comb>> \o Fill)
        \o simple.type \o Over(simple.parts, LAMBDA part, k : Append(Mark[part.kind], part.name)) \o Fill)
RECURSIVE Decimal(_)
Decimal(n) == IF n < 0 THEN <<"-">> \o Decimal(-n)
              ELSE (IF n < 10 THEN <<>> ELSE Decimal(n \div 10)) \o <<CHOOSE d \in DOMAIN Digits : Digits[d] = n % 10>>
Percents == {"hsl", "hsla"}
Limits == "rgb" :> <<255, 255, 255>> @@ "rgba" :> <<255, 255, 255, 1>> @@
          "hsl" :> <<360, 100, 100>> @@ "hsla" :> <<360, 100, 100, 1>>
ValueText(v) ==
    CASE v.type = "value" -> v.text \o Fill
      [] v.type = "quoted" -> <<"\"">> \o v.text \o <<"\"", " ">>
      [] v.type = "url" -> <<"url", "(">> \o Fill \o v.text \o Fill \o <<")">> \o Fill
      [] OTHER -> <<v.type, "(">> \o Fill
            \o Over(v.nums, LAMBDA n, i : (IF i = 1 THEN <<>> ELSE <<",">> \o Fill) \o Decimal(n)
                    \o (IF v.type \in Percents /\ i \in {2, 3} THEN <<"%">> ELSE <<>>)
                    \o (IF v.type = "rgba" /\ i = 4 THEN <<>> ELSE Fill)) \o <<")">> \o Fill
PropertyText(prop) ==
    prop.name \o Fill \o <<":">> \o Fill
    \o Over(prop.values, LAMBDA v, i : (IF i = 1 THEN <<>> ELSE IF prop.comma THEN <<",">> \o Fill ELSE <<" ">>) \o ValueText(v))
RuleText(rule) ==
    (IF rule.at = <<>> THEN <<>> ELSE <<"@">> \o rule.at \o <<" ">>)
    \o Over(rule.group, LAMBDA sel, i : (IF i = 1 THEN <<>> ELSE <<",">> \o Fill) \o SelectorText(sel))
    \o <<"{">> \o Fill \o Over(rule.block, LAMBDA prop, i : (IF i = 1 THEN <<>> ELSE <<";">> \o Fill) \o PropertyText(prop))
    \o (IF rule.last THEN <<";">> \o Fill ELSE <<>>) \o <<"}">> \o Fill
SheetText == cxt.filler.open \o Fill \o Over(file, LAMBDA rule, i : RuleText(rule)) \o cxt.filler.close

(* And the calls of the handler it stands for.                             *)
Say(type, vals) == <<[type |-> type, vals |-> vals]>>
SimpleEvents(simple, first) ==
    (IF first THEN <<>> ELSE Say("combinator", <<simple.comb>>))
    \o (IF simple.type = <<>> THEN <<>> ELSE Say("type", simple.type))
    \o Over(simple.parts, LAMBDA part, k : Say(part.kind, <<part.name>>)) \o Say("end simple", <<>>)
ValueEvent(v) ==
    CASE v.type \in {"value", "quoted"} -> Say("value", v.text)
      [] v.type = "url" -> Say("url", IF Head(v.text) = "\"" THEN Piece(v.text, 2, Len(v.text)) ELSE v.text)
      [] OTHER -> Say(v.type, [i \in DOMAIN v.nums |-> ToString(Max({0, Min({v.nums[i], Limits[v.type][i]})}))])
PropertyEvents(prop) ==
    Say("property", prop.name) \o Over(prop.values, LAMBDA v, i : ValueEvent(v)) \o Say("end property", <<>>)
RuleEvents(rule) ==
    (IF rule.at = <<>> THEN <<>> ELSE Say("at rule", rule.at))
    \o Over(rule.group, LAMBDA sel, i :
            (IF i = 1 THEN <<>> ELSE Say("end selector", <<>>))
            \o Over(sel, LAMBDA simple, j : SimpleEvents(simple, i = 1 /\ j = 1)))
    \o Say("end selector", <<>>) \o Say("block", <<>>)
    \o Over(rule.block, LAMBDA prop, i : PropertyEvents(prop)) \o Say("end block", <<>>)
SheetEvents == Over(file, LAMBDA rule, i : RuleEvents(rule))
-----------------------------------------------------------------------------
(* What the calls of xml_writer stand for: an element starts with its      *)
(* attributes, and its names have namespaces, not their aliases.           *)
Node(type, ns, name, text, attrs) == [type |-> type, ns |-> ns, name |-> name, text |-> text, attrs |-> attrs]
Named(a) == [ns |-> a.ns, name |-> a.name, text |-> a.text]
Mean(m, c) ==
    CASE c.op = "namespace" -> m
      [] c.op = "attribute" -> [m EXCEPT !.attrs = Append(@, Named(c))]
      [] c.op = "push" -> [out |-> Append(m.out, Node("start", c.ns, c.name, <<>>, m.attrs)), attrs |-> <<>>,
                           open |-> Append(m.open, Node("end", c.ns, c.name, <<>>, <<>>))]
      [] c.op = "pop" -> [m EXCEPT !.out = Append(@, Last(m.open)), !.open = Front(@)]
      [] c.op = "content" /\ c.text = <<>> -> m
      [] c.op = "content" /\ c.text # <<>> -> [m EXCEPT !.out = Append(@, Node("text", "", <<>>, c.text, <<>>))]
      [] c.op = "raw" -> [m EXCEPT !.out = @ \o c.nodes]
WithEnds(m) == m.out \o Reverse(m.open)
Meaning(calls) == WithEnds(FoldLeft(Mean, [out |-> <<>>, attrs |-> <<>>, open |-> <<>>], calls))

(* The same of the events of the parser, whose aliases are those the open  *)
(* elements declare.                                                       *)
IsDeclaration(e) == e.type = "attribute" /\ (e.ns = <<"xmlns">> \/ (e.ns = <<>> /\ e.name = <<"xmlns">>))
AliasOf(e) == IF e.ns = <<>> THEN <<>> ELSE e.name
Of(scope, alias) == IF alias \in DOMAIN scope THEN scope[alias] ELSE ""
Inner(scope, decls) == FoldLeft(LAMBDA inner, e : (AliasOf(e) :> Head(e.text)) @@ inner, scope, decls)
ResolvedAttrs(attrs, scope) ==
    [i \in DOMAIN attrs |-> [ns |-> IF attrs[i].ns = <<>> THEN "" ELSE Of(scope, attrs[i].ns),
                             name |-> attrs[i].name, text |-> attrs[i].text]]
Started(r, e, scope) ==
    [out |-> Append(r.out, Node("start", Of(scope, e.ns), e.name, <<>>, ResolvedAttrs(r.attrs, scope))),
     attrs |-> <<>>, decls |-> <<>>, scopes |-> Append(r.scopes, scope)]
Resolve(r, e) ==
    CASE IsDeclaration(e) -> [r EXCEPT !.decls = Append(@, e)]
      [] e.type = "attribute" /\ ~IsDeclaration(e) -> [r EXCEPT !.attrs = Append(@, e)]
      [] e.type = "start" -> Started(r, e, Inner(Last(r.scopes), r.decls))
      [] e.type = "end" -> [r EXCEPT !.out = Append(@, Node("end", Of(Last(r.scopes), e.ns), e.name, <<>>, <<>>)),
                                     !.scopes = Front(@)]
      [] e.type = "end instruction" -> [r EXCEPT !.out = Append(@, Node("instruction", "", e.name, <<>>, ResolvedAttrs(r.attrs, <<>>))),
                                                 !.attrs = <<>>]
      [] e.type = "instruction" -> r
      [] OTHER -> [r EXCEPT !.out = Append(@, Node(e.type, "", e.name, e.text, <<>>))]
Resolved(events) == FoldLeft(Resolve, [out |-> <<>>, attrs |-> <<>>, decls |-> <<>>, scopes |-> << <<>> >>], events).out

(* The namespaces of an element are its own and those around it; an alias  *)
(* is not given another one below the element that declares it, which the  *)
(* writer does not undo, and has one of its own per namespace; a name      *)
(* without one is written where there is no default; an attribute needs an *)
(* alias that is not the default.                                          *)
Scope == IF doc.scopes = <<>> THEN <<>> ELSE Last(doc.scopes)
Visible == doc.decls @@ Scope
Writable(c) ==
    LET aliases == {a \in DOMAIN Visible : Visible[a] = c.ns}
        qualified == IF c.op = "push" THEN aliases # {} ELSE aliases \ {<<>>} # {}
    IN CASE c.op = "namespace" -> ~doc.ended /\ c.alias \notin DOMAIN Visible /\ c.ns \notin {Visible[a] : a \in DOMAIN Visible}
         [] c.op = "attribute" -> /\ ~doc.ended /\ \A i \in DOMAIN doc.attrs : doc.attrs[i].name # c.name
                                  /\ c.ns = "" \/ qualified
         [] c.op = "push" -> ~doc.ended /\ IF c.ns = "" THEN <<>> \notin DOMAIN Visible ELSE qualified
         [] c.op = "pop" -> doc.scopes # <<>> /\ ~doc.pending
         [] c.op = "content" -> doc.scopes # <<>> /\ ~doc.pending /\ ~doc.content
         [] c.op = "raw" -> ~doc.pending /\ CASE doc.ended -> "trailer" \in c.where
                                              [] ~doc.ended /\ doc.scopes = <<>> -> "header" \in c.where
                                              [] OTHER -> "body" \in c.where
Written(c) ==
    CASE c.op = "namespace" -> [doc EXCEPT !.decls = (c.alias :> c.ns) @@ @, !.pending = TRUE]
      [] c.op = "attribute" -> [doc EXCEPT !.attrs = Append(@, c), !.pending = TRUE]
      [] c.op = "push" -> [doc EXCEPT !.scopes = Append(@, Visible), !.decls = <<>>, !.attrs = <<>>, !.pending = FALSE,
                                      !.content = FALSE]
      [] c.op = "pop" -> [doc EXCEPT !.scopes = Front(@), !.ended = Len(doc.scopes) = 1, !.content = FALSE]
      [] OTHER -> [doc EXCEPT !.content = c.op = "content"]

Init == /\ builder = "markup" /\ file = <<>>
        /\ doc = [scopes |-> <<>>, decls |-> <<>>, attrs |-> <<>>, pending |-> FALSE, content |-> FALSE, ended |-> FALSE]
        /\ \E k \in Markup, f \in Fillers : /\ k = "xml" => f.fill = <<>> /\ f.open = <<>>
                                            /\ cxt = [kind |-> k, filler |-> f]
AddRule(rule) == /\ cxt.kind = "css" /\ Len(file) < Len(Rules) /\ rule \in Rules[Len(file) + 1]
                 /\ file' = Append(file, rule) /\ UNCHANGED <<builder, doc, cxt>>
AddCall(c) == /\ cxt.kind = "xml" /\ Len(file) < MaxWriterCalls /\ Writable(c)
              /\ file' = Append(file, c) /\ doc' = Written(c) /\ UNCHANGED <<builder, cxt>>
Next == (\E rule \in UNION Range(Rules) : AddRule(rule)) \/ (\E c \in Calls : AddCall(c))
Spec == Init /\ [][Next]_vars
-----------------------------------------------------------------------------
(* The handler of a style sheet is told each selector, property and value  *)
(* once and in order, wherever the sheet has comments and blanks.          *)
SheetIsReadAs(read) == ~read.err /\ read.out = SheetEvents
SheetIsRead ==
    cxt.kind = "css" /\ file # <<>> => SheetIsReadAs(ParseCss(SheetText, ""))

(* Of a sheet that was cut the handler is told what is there, the last     *)
(* piece maybe in part, and, for what the cut leaves open, no more than    *)
(* its end.  The parser goes beyond the end in two cases alone: a text     *)
(* that ends in the sign of a class, an identifier or a pseudo class, of   *)
(* which identifier() takes the next character unseen; and the character   *)
(* in the memory behind the text being one that the parser waits for.      *)
EndEvents == {"end simple", "end property", "end block"}
RECURSIVE Told(_)
Told(out) == IF out # <<>> /\ Last(out).type \in EndEvents THEN Told(Front(out)) ELSE out
IsPartOf(piece, whole) ==
    \/ piece.type = "value" /\ piece.vals = <<whole.type>>      \* a function without its bracket
    \/ piece.type = "url" /\ IsPrefix(<<"/">>, piece.vals)       \* a comment without its end
    \/ /\ piece.type = whole.type
       /\ piece.type \in {"type", "class", "id", "property", "value", "url"} => IsPrefix(piece.vals, whole.vals)
IsToldOf(told, whole) ==
    /\ Len(told) <= Len(whole)
    /\ \A i \in DOMAIN told : told[i] = whole[i] \/ (i = Len(told) /\ IsPartOf(told[i], whole[i]))
LooksBeyond(text, behind) ==
    \/ Last(text) \in {".", "#", ":"}
    \/ behind \in {":", ",", ";", "}", "(", ")", "\"", "'"}
    \/ Last(text) = "@" /\ behind \in Words
CutIsRead(text, read, whole) ==
    IsToldOf(Told(read.out), whole) /\ (read.beyond => LooksBeyond(text, read.behind))
CutsOfSheetAreRead(sheet, whole) ==
    \A n \in 1..Len(sheet) - 1, b \in Behind :
        CutIsRead(SubSeq(sheet, 1, n), ParseCss(SubSeq(sheet, 1, n), b), whole)
CutSheetIsRead ==
    cxt.kind = "css" /\ Len(file) = 1 /\ file[1] \in CutRules => CutsOfSheetAreRead(SheetText, SheetEvents)

(* What xml_writer writes is read as what it was told, with the namespaces *)
(* of its names; and a file that was cut is read as far as it goes.        *)
HasRoot == \E i \in DOMAIN file : file[i].op = "push"
XmlHeader == Node("instruction", "", <<"xml">>, <<>>, <<[ns |-> "", name |-> <<"version">>, text |-> <<"1">>]>>)
IsReadAs(read, nodes) == ~read.err /\ Resolved(read.out) = nodes
IsCutOf(part, whole) ==
    /\ Len(part) <= Len(whole)
    /\ \A i \in DOMAIN part :
          \/ part[i] = whole[i]
          \/ i = Len(part) /\ IsPrefix(part[i].text, whole[i].text) /\ [part[i] EXCEPT !.text = whole[i].text] = whole[i]
CutsAreRead(text, read) ==
    \A n \in (Len(text) \div 2)..Len(text) : IsCutOf(ParseXml(SubSeq(text, 1, n)).out, read.out)
TextIsRead(text, read) == IsReadAs(read, <<XmlHeader>> \o Meaning(file)) /\ CutsAreRead(text, read)
XmlTextIsRead(text) == TextIsRead(text, ParseXml(text))
XmlIsRead == cxt.kind = "xml" /\ HasRoot /\ ~doc.pending => XmlTextIsRead(WrittenXml(file))
MarkupIsReadAgain == SheetIsRead /\ CutSheetIsRead /\ XmlIsRead
=============================================================================
