--------------------------- MODULE TextConversions ---------------------------
(***************************************************************************)
(* The conversions all parsers and dumps of orcus rest on: quoted strings, *)
(* numbers, dates, lengths, colors, paths, the characters of XML names,    *)
(* encoded texts, the names enumerators are dumped under, the ranges of a  *)
(* sheet and the report of a parse error.  Each is a function of its input,*)
(* written by moving pointers over characters; each is compared with what  *)
(* the text means.  A text grows piece by piece, as a file does; of inputs *)
(* that are no texts a single piece is the whole input.                    *)
(*                                                                         *)
(* A position is that of the next character; the end is past the last.     *)
(***************************************************************************)
EXTENDS Integers, SequencesExt, FiniteSetsExt, TLC

CONSTANTS Kinds,       \* the conversions that are tried
          Pieces,      \* for each the pieces its texts are made of
          MaxPieces,   \* and how many
          MaxLong,     \* std::numeric_limits<long>::max()
          Block        \* the characters of a SIMD register

VARIABLES builder, doc, cxt, file

vars == <<builder, doc, cxt, file>>

Digits == "0" :> 0 @@ "1" :> 1 @@ "2" :> 2 @@ "3" :> 3 @@ "4" :> 4 @@
          "5" :> 5 @@ "6" :> 6 @@ "7" :> 7 @@ "8" :> 8 @@ "9" :> 9
HexDigits == Digits @@ "a" :> 10 @@ "b" :> 11 @@ "c" :> 12 @@ "d" :> 13 @@ "e" :> 14 @@ "f" :> 15 @@
             "A" :> 10 @@ "B" :> 11 @@ "C" :> 12 @@ "D" :> 13 @@ "E" :> 14 @@ "F" :> 15
DigitNames == [n \in 0..9 |-> CHOOSE c \in DOMAIN Digits : Digits[c] = n]

From(s, p) == SubSeq(s, p, Len(s))
Joined(s)  == FoldLeft(LAMBDA t, c : t \o c, "", s)      \* as one character
Number(s)  == FoldLeft(LAMBDA n, c : 10 * n + Digits[c], 0, s)
Span(s, p, set) ==      \* the first position from p on with no character of the set
    Min({q \in p..Len(s) + 1 : q > Len(s) \/ s[q] \notin set})
First(s, p, set) ==     \* and the first that is one of it
    Min({q \in p..Len(s) + 1 : q > Len(s) \/ s[q] \in set})

-----------------------------------------------------------------------------
(* Quoted strings.  The opening quote is read.  A raw control character is *)
(* "^"; what an escape stands for is one character of the result.          *)

Read(str, p, flag) == [str |-> str, end |-> p, control |-> flag, error |-> ""]
Refused(error, p)  == [str |-> <<>>, end |-> p, control |-> FALSE, error |-> error]

EscapeType(c) == CASE c \in {"\"", "\\", "/"} -> "regular"
                   [] c \in {"b", "f", "n", "r", "t"} -> "control"
                   [] c = "u" -> "unicode"
                   [] OTHER -> "invalid"
ToEscaped(c) == IF EscapeType(c) = "control" THEN "^" \o c ELSE c
HexToChar(s) == Joined(<<"U">> \o s)

(* st: the mode, the start of the segment not yet in the buffer (0: none), *)
(* the buffer and whether a control character came by.                     *)
RECURSIVE WithBuffer(_, _, _)
WithBuffer(s, p, st) ==
    IF p > Len(s) THEN Refused("no closing quote", p) ELSE
    LET c       == s[p]
        head    == IF st.head = 0 THEN p ELSE st.head
        segment == SubSeq(s, head, p - 1)
        Go(mode, from, buf) ==
            WithBuffer(s, p + 1, [st EXCEPT !.mode = mode, !.head = from, !.buf = buf])
    IN CASE st.mode = "escaped" ->
              CASE EscapeType(c) = "invalid" -> Refused("illegal escape", p)
                [] EscapeType(c) = "unicode" -> Go("hex", 0, st.buf)
                [] OTHER -> Go("plain", 0, st.buf \o SubSeq(s, head, p - 2) \o <<ToEscaped(c)>>)
         [] st.mode = "hex" /\ Len(segment) < 4 ->
              IF c \in DOMAIN HexDigits THEN Go("hex", head, st.buf) ELSE Refused("invalid hex", p)
         [] st.mode = "hex" /\ Len(segment) = 4 ->
              LET buf == st.buf \o <<HexToChar(segment)>>
              IN CASE c = "\"" -> Read(buf, p + 1, st.control)
                   [] c = "\\" -> Go("escaped", 0, buf)
                   [] OTHER -> Go("plain", p, buf)
         [] st.mode = "plain" ->
              CASE c = "\"" -> Read(st.buf \o segment, p + 1, st.control)
                [] c = "\\" -> Go("escaped", 0, st.buf \o segment)
                [] OTHER -> WithBuffer(s, p + 1, [st EXCEPT !.head = head, !.control = @ \/ c = "^"])

Buffered(s, p, str) == WithBuffer(s, p, [mode |-> "plain", head |-> 0, buf |-> str, control |-> FALSE])

(* The string is a view of the file until the first escape.                *)
RECURSIVE Unbuffered(_, _, _)
Unbuffered(s, p, st) ==
    IF p > Len(s) THEN Refused("no closing quote", p) ELSE
    LET c    == s[p]
        next(t) == Unbuffered(s, p + 1, [t EXCEPT !.length = @ + 1])
        head == IF st.head = 0 THEN p ELSE st.head
        n    == p - head
        Prefix(k) == SubSeq(s, 1, st.length - k)
    IN CASE st.mode = "escaped" ->
              CASE EscapeType(c) = "invalid" -> Refused("illegal escape", p)
                [] EscapeType(c) = "unicode" -> next([st EXCEPT !.mode = "hex"])
                [] OTHER -> Buffered(s, p + 1, Prefix(1) \o <<ToEscaped(c)>>)
         [] st.mode = "hex" /\ n < 4 ->
              IF c \in DOMAIN HexDigits THEN next([st EXCEPT !.head = head])
                                        ELSE Refused("invalid hex", p)
         [] st.mode = "hex" /\ n = 4 ->
              Buffered(s, p, Prefix(6) \o <<HexToChar(SubSeq(s, head, p - 1))>>)
         [] st.mode = "plain" ->
              CASE c = "\"" -> Read(SubSeq(s, 1, st.length), p + 1, st.control)
                [] c = "\\" -> next([st EXCEPT !.mode = "escaped"])
                [] OTHER -> next([st EXCEPT !.control = @ \/ c = "^"])

DoubleQuoted(s) ==
    Unbuffered(s, 1, [mode |-> "plain", head |-> 0, length |-> 0, control |-> FALSE])

(* parse_to_closing_double_quote: 0 when there is none.                    *)
RECURSIVE ToClosingDouble(_, _, _)
ToClosingDouble(s, p, escape) ==
    CASE p > Len(s) -> 0
      [] escape /\ EscapeType(s[p]) = "invalid" -> 0
      [] s[p] = "\"" -> p + 1
      [] OTHER -> ToClosingDouble(s, p + 1, s[p] = "\\")

(* What a quoted text means: its units from a position on.                 *)
RECURSIVE Meaning(_, _)
Meaning(s, p) ==
    LET Then(c, k) == LET rest == Meaning(s, p + k) IN [rest EXCEPT !.str = <<c>> \o @]
        hex == Span(s, p + 2, DOMAIN HexDigits)
    IN CASE p > Len(s) \/ (s[p] = "\\" /\ p = Len(s)) -> [str |-> <<>>, error |-> "no closing quote", end |-> 0]
         [] s[p] = "\"" -> [str |-> <<>>, error |-> "", end |-> p + 1]
         [] s[p] = "\\" /\ EscapeType(s[p + 1]) = "invalid" -> [str |-> <<>>, error |-> "illegal escape", end |-> 0]
         [] s[p] = "\\" /\ s[p + 1] = "u" ->
              CASE hex >= p + 6 -> Then(HexToChar(SubSeq(s, p + 2, p + 5)), 6)
                [] hex > Len(s) -> [str |-> <<>>, error |-> "no closing quote", end |-> 0]
                [] OTHER -> [str |-> <<>>, error |-> "invalid hex", end |-> 0]
         [] s[p] = "\\" -> Then(ToEscaped(s[p + 1]), 2)
         [] OTHER -> Then(s[p], 1)

(* A double-quoted text is read as what it means, up to its own closing    *)
(* quote, wherever the reading goes from the view of the file to the       *)
(* buffer; a text without an escape tells whether it has control           *)
(* characters.  The closing quote is found in advance as well, unless a    *)
(* quote or a backslash is escaped: those are taken for what they are not. *)
DoubleQuotedTextsAreRead ==
    LET read == DoubleQuoted(file)
        meant == Meaning(file, 1)
        text == SubSeq(file, 1, read.end - 1)
    IN /\ read.error = meant.error
       /\ read.error = "" =>
            /\ read.str = meant.str /\ read.end = meant.end
            /\ "\\" \notin ToSet(text) => read.control = ("^" \in ToSet(text))
            /\ read.control => "^" \in ToSet(text)
            /\ (\A i \in 2..Len(text) - 1 : text[i] \in {"\"", "\\"} => text[i - 1] # "\\") =>
                    ToClosingDouble(file, 1, FALSE) = read.end

RECURSIVE SingleBuffered(_, _, _)
SingleBuffered(s, p, st) ==
    LET head == IF st.head = 0 THEN p ELSE st.head
        Closed == Read(st.buf \o SubSeq(s, head, head + st.length - 2), p, FALSE)
    IN CASE p > Len(s) -> IF st.quote THEN Closed ELSE Refused("no closing quote", p)
         [] s[p] = "'" /\ st.quote ->
              SingleBuffered(s, p + 1, [head |-> 0, length |-> 0, quote |-> FALSE,
                                        buf |-> st.buf \o SubSeq(s, head, head + st.length - 1)])
         [] s[p] # "'" /\ st.quote -> Closed
         [] OTHER -> SingleBuffered(s, p + 1, [st EXCEPT !.head = head, !.length = @ + 1, !.quote = s[p] = "'"])

RECURSIVE SingleUnbuffered(_, _)
SingleUnbuffered(s, p) ==
    LET quote == p > 1 /\ s[p - 1] = "'"
    IN CASE p > Len(s) -> IF quote THEN Read(SubSeq(s, 1, p - 2), p, FALSE) ELSE Refused("no closing quote", p)
         [] s[p] = "'" /\ quote ->
              SingleBuffered(s, p + 1, [head |-> 0, length |-> 0, quote |-> FALSE, buf |-> SubSeq(s, 1, p - 1)])
         [] s[p] # "'" /\ quote -> Read(SubSeq(s, 1, p - 2), p, FALSE)
         [] OTHER -> SingleUnbuffered(s, p + 1)

RECURSIVE ToClosingSingle(_, _, _)
ToClosingSingle(s, p, quote) ==
    CASE p > Len(s) -> IF quote THEN p ELSE 0
      [] s[p] = "'" -> ToClosingSingle(s, p + 1, ~quote)
      [] quote -> p
      [] OTHER -> ToClosingSingle(s, p + 1, FALSE)

(* A single-quoted text is read up to its first quote that is not doubled, *)
(* with one quote for each doubled one, and that is also where its closing *)
(* quote is found in advance.                                              *)
SingleQuotedTextsAreRead ==
    LET Odd(q) == file[q] = "'" /\ (q = Len(file) \/ file[q + 1] # "'")
                  /\ LET first == Min({i \in 1..q : \A k \in i..q : file[k] = "'"})
                     IN (q - first) % 2 = 0
        ends == {q \in 1..Len(file) : Odd(q)}
        read == SingleUnbuffered(file, 1)
        RECURSIVE Halved(_)
        Halved(t) == CASE t = <<>> -> <<>>
                       [] Head(t) = "'" -> <<"'">> \o Halved(SubSeq(t, 3, Len(t)))
                       [] OTHER -> <<Head(t)>> \o Halved(Tail(t))
    IN IF ends = {} THEN read.error # "" /\ ToClosingSingle(file, 1, FALSE) = 0
       ELSE /\ read.error = "" /\ read.end = Min(ends) + 1
            /\ read.str = Halved(SubSeq(file, 1, Min(ends) - 1))
            /\ ToClosingSingle(file, 1, FALSE) = Min(ends) + 1
-----------------------------------------------------------------------------
(* Numbers: a value is digits by a power of ten; "nan" stands for NaN.     *)

CheckSign(s, p) == [negative |-> p <= Len(s) /\ s[p] = "-",
                    end |-> IF p <= Len(s) /\ s[p] \in {"+", "-"} THEN p + 1 ELSE p]

(* From behind the e; back to it when no digit follows.                    *)
ParseExponent(s, p) ==
    LET sign == CheckSign(s, p)
        end  == Span(s, sign.end, DOMAIN Digits)
        n    == Number(SubSeq(s, sign.end, end - 1))
    IN IF end = sign.end THEN [power |-> 0, end |-> p - 1]
                         ELSE [power |-> IF sign.negative THEN -n ELSE n, end |-> end]

FinalValue(format, st, power, p) ==
    LET digits == st.int \o st.frac
    IN [nan |-> \/ digits = <<>>
                \/ /\ format = "json"
                   /\ \/ Len(st.int) > 1 /\ st.int[1] = "0"
                      \/ st.decimal /\ (st.frac = <<>> \/ st.int = <<>>),
        negative |-> st.negative, digits |-> Number(digits),
        power |-> power - Len(st.frac), end |-> p]

RECURSIVE ParseNumber(_, _, _, _)
ParseNumber(format, s, p, st) ==
    CASE p > Len(s) \/ (s[p] = "." /\ st.decimal) -> FinalValue(format, st, 0, p)
      [] s[p] = "." /\ ~st.decimal -> ParseNumber(format, s, p + 1, [st EXCEPT !.decimal = TRUE])
      [] s[p] \in {"e", "E"} /\ st.int \o st.frac # <<>> ->
           LET exponent == ParseExponent(s, p + 1) IN FinalValue(format, st, exponent.power, exponent.end)
      [] s[p] \in DOMAIN Digits ->
           ParseNumber(format, s, p + 1, IF st.decimal THEN [st EXCEPT !.frac = Append(@, s[p])]
                                                       ELSE [st EXCEPT !.int = Append(@, s[p])])
      [] OTHER -> FinalValue(format, st, 0, p)

Parse(format, s) ==
    LET sign == CheckSign(s, 1)
    IN ParseNumber(format, s, sign.end, [negative |-> sign.negative, int |-> <<>>, frac |-> <<>>, decimal |-> FALSE])

(* parse_numeric, which all but JSON and its threads use.                  *)
ParseNumeric(s) ==
    LET v == Parse("generic", s) IN IF v.nan THEN [v EXCEPT !.end = 1] ELSE v

(* parse_integer: std::from_chars behind a plus sign.                      *)
ParseInteger(s) ==
    LET p    == IF s # <<>> /\ s[1] = "+" THEN 2 ELSE 1
        sign == IF p <= Len(s) /\ s[p] = "-" THEN 1 ELSE 0
        end  == Span(s, p + sign, DOMAIN Digits)
        n    == Number(SubSeq(s, p + sign, end - 1))
    IN IF end = p + sign THEN [value |-> 0, end |-> p]
       ELSE [value |-> IF sign = 1 THEN -Min({n, MaxLong + 1}) ELSE Min({n, MaxLong}), end |-> end]

(* A number is read as far as it is one: a sign, digits with a point       *)
(* among, before or behind them, and an exponent that has digits; its      *)
(* value is that of its digits.  JSON takes no leading zeros and no point  *)
(* without digits on both sides.  Integers end at the bounds of their      *)
(* type.                                                                   *)
Sign(s) == IF s # <<>> /\ s[1] \in {"+", "-"} THEN 1 ELSE 0
IsNumber(s) ==
    LET e    == Min({q \in 1..Len(s) + 1 : q > Len(s) \/ s[q] = "e"})
        main == SubSeq(s, Sign(s) + 1, e - 1)
        exponent == From(s, e + 1 + Sign(From(s, e + 1)))
    IN /\ ToSet(main) \cup ToSet(exponent) \subseteq DOMAIN Digits \cup {"."}
       /\ Len(SelectSeq(main, LAMBDA c : c = ".")) <= 1 /\ ToSet(main) \cap DOMAIN Digits # {}
       /\ "." \notin ToSet(exponent) /\ (e <= Len(s) => exponent # <<>>)

NumberIsOfItsText(read, json, main, behind) ==
    LET point == First(main, 1, {"."})
        power == Number(From(behind, Sign(behind) + 1))
    IN /\ read.digits = Number(SelectSeq(main, LAMBDA c : c # "."))
       /\ read.power = (IF behind # <<>> /\ behind[1] = "-" THEN -power ELSE power) - Len(From(main, point + 1))
       /\ json = [read EXCEPT !.nan = (point > 2 /\ main[1] = "0")
                                       \/ (point <= Len(main) /\ point \in {1, Len(main)})]
NumberIsRead(read, json, text) ==
    /\ \A k \in 1..Len(file) : IsNumber(SubSeq(file, 1, k)) => ~read.nan /\ k < read.end
    /\ read.nan => read.end = 1 /\ json.nan
    /\ ~read.nan =>
         /\ IsNumber(text) /\ read.negative = (text[1] = "-")
         /\ NumberIsOfItsText(read, json, SubSeq(text, Sign(text) + 1, First(text, 1, {"e"}) - 1),
                              From(text, First(text, 1, {"e"}) + 1))
IntegerIsRead(read, end) ==
    end > Sign(file) + 1 =>
        LET n == Number(SubSeq(file, Sign(file) + 1, end - 1))
        IN read = [end |-> end, value |-> IF file[1] = "-" THEN Max({-n, -MaxLong - 1}) ELSE Min({n, MaxLong})]
NumbersAreRead ==
    /\ NumberIsRead(ParseNumeric(file), Parse("json", file), SubSeq(file, 1, ParseNumeric(file).end - 1))
    /\ IntegerIsRead(ParseInteger(file), Span(file, Sign(file) + 1, DOMAIN Digits))

-----------------------------------------------------------------------------
(* Lengths, in twips as a numerator and a denominator (measurement.cpp).   *)

ToBool(s) == IF Len(s) = 1 THEN s[1] # "0" ELSE s \in {<<"t", "rue">>, <<"T", "RUE">>}

Units == {"cm", "in", "mm", "pt", "px"}
ToLength(s) ==
    LET v == ParseNumeric(s)
        tail == Joined(From(s, v.end))
    IN [value |-> v, unit |-> IF s # <<>> /\ tail \in Units THEN tail ELSE "unknown"]

ConvertInch(v)       == [num |-> v.num * 1440, den |-> v.den]
ConvertPoint(v)      == [num |-> v.num * 20, den |-> v.den]
ConvertCentimeter(v) == [num |-> v.num * 72000, den |-> v.den * 127]
ConvertMillimeter(v) == [num |-> v.num * 7200, den |-> v.den * 127]
ConvertTwip(v, unit) == [num |-> v.num, den |-> v.den * IF unit = "in" THEN 1440 ELSE 20]
ConvertDigits(v)     == ConvertCentimeter([num |-> v.num * 19, den |-> v.den * 100])

ConvertLength(v, from, to) ==
    CASE v.num = 0 -> v
      [] from = "twip" -> ConvertTwip(v, to)
      [] from = "pt" -> ConvertPoint(v)
      [] from = "in" -> ConvertInch(v)
      [] from = "cm" -> ConvertCentimeter(v)
      [] from = "mm" -> ConvertMillimeter(v)
      [] from = "digits" -> ConvertDigits(v)

(* Lengths that are the same, 127 cm and 1270 mm and 50 in and 3600 pt,   *)
(* are the same number of twips, and inches and points come back from      *)
(* twips as they were.  A text of a number and a unit is that length.      *)
Twips(k, unit) == ConvertLength([num |-> k, den |-> 1], unit, "twip")
Exact(v) == IF v.num % v.den = 0 THEN v.num \div v.den ELSE -1
LengthIsOfItsUnit(length, n, number) ==
    /\ \A u \in Units \ {"px"} :
         Exact(Twips([cm |-> 127, mm |-> 1270, in |-> 50, pt |-> 3600][u] * n, u)) = 72000 * n
    /\ Exact(Twips(127, "digits")) = 13680
    /\ \A u \in {"in", "pt"} : Exact(ConvertLength(Twips(n, u), "twip", u)) = n
    /\ number > 1 /\ number = Len(file) /\ file[number] \in Units =>
             length.unit = file[number] /\ n = Number(SubSeq(file, 1, number - 1))
LengthsAreOfTheirUnits ==
    LengthIsOfItsUnit(ToLength(file), ParseNumeric(file).digits, Span(file, 1, DOMAIN Digits))

-----------------------------------------------------------------------------
(* json::escape_string: "^n" and its like are control characters with an   *)
(* escape of their own, "^" is the one of code 1.                          *)
EscapeString(s) ==
    LET Escape(c) == CASE c \in {"\"", "\\"} -> <<"\\", c>>
                       [] c \in {"^b", "^f", "^n", "^r", "^t"} ->
                            <<"\\", CHOOSE k \in {"b", "f", "n", "r", "t"} : ToEscaped(k) = c>>
                       [] c = "^" -> <<"\\", "u", "0", "0", "0", "1">>
                       [] OTHER -> <<c>>
    IN FlattenSeq([i \in DOMAIN s |-> Escape(s[i])])

(* write_content_encoded: st is the segment not yet written and the output *)
EntityOf == "&" :> "&amp;" @@ "<" :> "&lt;" @@ ">" :> "&gt;" @@ "\"" :> "&quot;" @@ "'" :> "&apos;"
WriteContentEncoded(s, quote) ==
    LET Encoded(c) == c \in {"&", "<", ">"} \/ c = quote
        Step(st, p) ==
            LET head == IF st.head = 0 THEN p ELSE st.head
            IN IF ~Encoded(s[p]) THEN [st EXCEPT !.head = head]
               ELSE [head |-> 0, out |-> st.out \o SubSeq(s, head, p - 1) \o <<EntityOf[s[p]]>>]
        all == FoldLeftDomain(LAMBDA st, p : Step(st, p), [head |-> 0, out |-> <<>>], s)
    IN IF all.head = 0 THEN all.out ELSE all.out \o From(s, all.head)

(* base64.cpp: digits of 0..63, 64 is the padding.                         *)
Encode64(bytes) ==
    LET pad == (3 - (Len(bytes) % 3)) % 3
        all == bytes \o [i \in 1..pad |-> 0]
        group(i) == 65536 * all[3 * i - 2] + 256 * all[3 * i - 1] + all[3 * i]
        digits == FlattenSeq([i \in 1..Len(all) \div 3 |->
                    <<group(i) \div 262144, (group(i) \div 4096) % 64, (group(i) \div 64) % 64, group(i) % 64>>])
    IN [i \in DOMAIN digits |-> IF i > Len(digits) - pad /\ digits[i] = 0 THEN 64 ELSE digits[i]]

Decode64(s) ==
    LET n   == Len(s)
        pad == IF s[n] # 64 THEN 0 ELSE IF s[n - 1] # 64 THEN 1 ELSE 2
        d   == [i \in DOMAIN s |-> IF i > n - pad THEN 0 ELSE s[i]]
        group(i) == 262144 * d[4 * i - 3] + 4096 * d[4 * i - 2] + 64 * d[4 * i - 1] + d[4 * i]
        bytes == FlattenSeq([i \in 1..n \div 4 |->
                    <<group(i) \div 65536, (group(i) \div 256) % 256, group(i) % 256>>])
    IN IF n < 4 THEN <<>> ELSE SubSeq(bytes, 1, Len(bytes) - pad)

(* What is encoded for a file and read again is the same: a text in a JSON *)
(* string, the content or the attribute of an XML element, bytes in base64;*)
(* and an encoded text has none of the characters that would end it.       *)
EncodedTextsAreReadAgain ==
    LET json == DoubleQuoted(EscapeString(file) \o <<"\"">>)
        Plain(c) == IF c = "^" THEN "U0001" ELSE c
        Decoded(s) == [i \in DOMAIN s |-> IF \E c \in DOMAIN EntityOf : EntityOf[c] = s[i]
                                          THEN CHOOSE c \in DOMAIN EntityOf : EntityOf[c] = s[i] ELSE s[i]]
    IN /\ json.error = "" /\ json.str = [i \in DOMAIN file |-> Plain(file[i])]
       /\ \A quote \in {"", "\"", "'"} :
            LET out == WriteContentEncoded(file, quote)
            IN Decoded(out) = file /\ ToSet(out) \cap {"<", ">", "&", quote} = {}

BytesAreReadAgain == file # <<>> => Decode64(Encode64(file)) = file /\ Len(Encode64(file)) % 4 = 0

-----------------------------------------------------------------------------
(* date_time_t.  st.digit is where the digits of a field start (0: nowhere *)
(* yet), st.length how many characters it has.                             *)

NoDate == [year |-> 0, month |-> 0, day |-> 0, hour |-> 0, minute |-> 0, second |-> 0]

Flush(st, s, field) ==
    [st EXCEPT !.date[field] = ParseInteger(SubSeq(s, st.digit, st.digit + st.length - 1)).value,
               !.digit = 0, !.length = 0]
ProcessChar(st, p) ==
    IF st.digit = 0 THEN [st EXCEPT !.digit = p, !.length = 1] ELSE [st EXCEPT !.length = @ + 1]

DateChar(s, st, p) ==
    LET invalid == [st EXCEPT !.valid = FALSE]
    IN CASE ~st.valid -> st
         [] s[p] = "-" /\ st.t + st.colons = 0 /\ st.digit # 0 /\ st.dashes < 2 ->
              [Flush(st, s, <<"year", "month">>[st.dashes + 1]) EXCEPT !.dashes = @ + 1]
         [] s[p] = "T" /\ st.t = 0 /\ st.dashes = 2 /\ st.digit # 0 ->
              [Flush(st, s, "day") EXCEPT !.t = 1]
         [] s[p] = ":" /\ st.t = 1 /\ st.digit # 0 /\ st.colons < 2 ->
              [Flush(st, s, <<"hour", "minute">>[st.colons + 1]) EXCEPT !.colons = @ + 1]
         [] s[p] \in {"-", "T", ":"} -> invalid
         [] OTHER -> ProcessChar(st, p)

DateFromChars(s) ==
    LET st == FoldLeftDomain(LAMBDA t, p : DateChar(s, t, p),
                             [valid |-> TRUE, date |-> NoDate, dashes |-> 0, t |-> 0, colons |-> 0,
                              digit |-> 1, length |-> 0], s)
    IN IF ~st.valid \/ st.digit = 0 THEN st.date
       ELSE IF st.t = 0 THEN Flush(st, s, "day").date
       ELSE [st.date EXCEPT !.second = ParseNumeric(SubSeq(s, st.digit, st.digit + st.length - 1)).digits]

Padded(n, width) == [i \in 1..width |-> DigitNames[(n \div 10^(width - i)) % 10]]
DateToString(d) ==
    Padded(d.year, 4) \o <<"-">> \o Padded(d.month, 2) \o <<"-">> \o Padded(d.day, 2)
    \o <<"T">> \o Padded(d.hour, 2) \o <<":">> \o Padded(d.minute, 2) \o <<":">> \o Padded(d.second, 2)

(* operator<=>, "less" of two dates.                                       *)
DateIsLess(a, b) ==
    LET fields == <<"year", "month", "day", "hour", "minute", "second">>
        differ == {i \in 1..6 : a[fields[i]] # b[fields[i]]}
    IN differ # {} /\ a[fields[Min(differ)]] < b[fields[Min(differ)]]

(* A date, or a date and a time, is read as its fields; two dates are in   *)
(* the order of their texts, and a text is read as the date it is of.      *)
DateSeparators == {"-", "T", ":"}
RECURSIVE DateFields(_)
DateFields(s) ==
    LET p == First(s, 1, DateSeparators)
    IN <<SubSeq(s, 1, p - 1)>> \o IF p > Len(s) THEN <<>> ELSE DateFields(From(s, p + 1))
DateIsRead(date, fields) ==
    SelectSeq(file, LAMBDA c : c \in DateSeparators) \in {<<"-", "-">>, <<"-", "-", "T", ":", ":">>}
    /\ (\A i \in 2..Len(fields) : fields[i] # <<>>) =>
        \A i \in 1..6 : LET n == IF i <= Len(fields) THEN Number(fields[i]) ELSE 0
                        IN date[<<"year", "month", "day", "hour", "minute", "second">>[i]] =
                                IF i = 6 THEN n ELSE Min({n, MaxLong})
DatesAreRead == DateIsRead(DateFromChars(file), DateFields(file))

RECURSIVE TextIsLess(_, _)
TextIsLess(s, t) ==      \* of texts of one length with their separators at the same places
    s # <<>> /\ IF Head(s) = Head(t) THEN TextIsLess(Tail(s), Tail(t)) ELSE Digits[Head(s)] < Digits[Head(t)]
DatesAreInOrder ==
    /\ \A i \in DOMAIN file : DateFromChars(DateToString(file[i])) = file[i]
    /\ Len(file) = 2 => DateIsLess(file[1], file[2]) = TextIsLess(DateToString(file[1]), DateToString(file[2]))

-----------------------------------------------------------------------------
(* Colors: to_color_rgb takes a # or none, ODF needs one, Gnumeric has     *)
(* three numbers of 16 bits, of which the high byte counts.                *)

NoColor == <<>>
Byte(s, p) == 16 * HexDigits[s[p]] + HexDigits[s[p + 1]]
ToColorRgb(s) ==
    LET t == IF Len(s) = 7 /\ s[1] = "#" THEN Tail(s) ELSE s
    IN IF Len(t) = 6 /\ ToSet(t) \subseteq DOMAIN HexDigits
       THEN <<Byte(t, 1), Byte(t, 3), Byte(t, 5)>> ELSE NoColor

ConvertColorDigits(s, p) == {s[p], s[p + 1]} \subseteq DOMAIN HexDigits
ConvertFoColor(s) ==
    IF Len(s) = 7 /\ s[1] = "#" /\ \A p \in {2, 4, 6} : ConvertColorDigits(s, p)
    THEN <<Byte(s, 2), Byte(s, 4), Byte(s, 6)>> ELSE NoColor

HexToUint(s, bytes) ==
    IF Len(s) > 2 * bytes \/ ~(ToSet(s) \subseteq DOMAIN HexDigits) THEN -1
    ELSE FoldLeft(LAMBDA n, c : 16 * n + HexDigits[c], 0, s)
GnumericRgb(s) ==
    LET first  == Span(s, 1, DOMAIN HexDigits \cup {"#"})
        second == Span(s, first + 1, DOMAIN HexDigits \cup {"#"})
        parts  == <<SubSeq(s, 1, first - 1), SubSeq(s, first + 1, second - 1), From(s, second + 1)>>
    IN IF second > Len(s) \/ \E i \in 1..3 : HexToUint(parts[i], 2) = -1 THEN NoColor
       ELSE [i \in 1..3 |-> HexToUint(parts[i], 2) \div 256]

(* Whatever is a color for two of the formats is the same color for them,  *)
(* and of any other text none makes a color.                               *)
ColorsAreRead ==
    LET Doubled(s) == IF s = <<>> THEN <<>>
                      ELSE SubSeq(s, 2, 3) \o SubSeq(s, 2, 3) \o <<":">> \o SubSeq(s, 4, 5) \o SubSeq(s, 4, 5)
                           \o <<":">> \o SubSeq(s, 6, 7) \o SubSeq(s, 6, 7)
        html == /\ Len(file) = 7 /\ file[1] = "#" /\ ToSet(Tail(file)) \subseteq DOMAIN HexDigits
    IN IF html THEN /\ ConvertFoColor(file) # NoColor /\ ToColorRgb(file) = ConvertFoColor(file)
                    /\ ToColorRgb(Tail(file)) = ToColorRgb(file)
                    /\ GnumericRgb(Doubled(file)) = ToColorRgb(file)
               ELSE ConvertFoColor(file) = NoColor /\ (ToColorRgb(file) # NoColor => Len(file) = 6)
-----------------------------------------------------------------------------
(* UTF-8 (utf8.cpp), bytes as numbers.                                     *)

EncodeUtf8(cp) ==
    LET low(k) == 128 + ((cp \div 64^k) % 64)
    IN CASE cp <= 127 -> <<cp>>
         [] cp \in 128..2047 -> <<192 + (cp \div 64), low(0)>>
         [] cp \in 2048..65535 -> <<224 + (cp \div 4096), low(1), low(0)>>
         [] cp \in 65536..1114111 -> <<240 + (cp \div 262144), low(2), low(1), low(0)>>

ByteLength(c) == CASE c < 128 -> 1 [] c \in 192..223 -> 2 [] c \in 224..239 -> 3 [] c \in 240..247 -> 4
                   [] OTHER -> 255

StartOf1(c)  == c = 95 \/ c \in 97..122 \cup 65..90
SecondOf1(c) == c \in {45, 46} \cup 48..57
StartOf2(s)  ==
    \/ s[1] = 195 /\ s[2] \in 128..150 \cup 152..182 \cup 184..191
    \/ s[1] \in 196..203 /\ s[2] \in 128..191
    \/ s[1] = 205 /\ s[2] \in (176..189) \cup {191}
    \/ s[1] \in 206..223
SecondOf2(s) == \/ s[1] = 194 /\ s[2] = 183
                \/ s[1] = 204
                \/ s[1] = 205 /\ s[2] <= 175
StartOf3(s) ==
    LET b == s[2]
        c == s[3]
    IN \/ s[1] = 224 /\ b \in 160..191 /\ c \in 128..191
       \/ s[1] = 225
       \/ s[1] = 226 /\ \/ b = 128 /\ c \in {140, 141}
                        \/ b = 129 /\ c >= 176
                        \/ b \in 130..133 \cup 176..190
                        \/ b = 134 /\ c <= 143
                        \/ b = 191 /\ c <= 175
       \/ s[1] = 227 /\ IF b = 128 THEN c >= 129 ELSE b >= 129
       \/ s[1] \in 228..236
       \/ s[1] = 237 /\ b <= 159
       \/ s[1] = 239 /\ \/ b \in 164..182 \cup 184..190
                        \/ b = 183 /\ (c <= 143 \/ c >= 176)
                        \/ b = 191 /\ c <= 189
SecondOf3(s) == s[1] = 226 /\ <<s[2], s[3]>> \in {<<128, 191>>, <<129, 128>>}
StartOf4(s)  == \/ s[1] = 240 /\ s[2] >= 144
                \/ s[1] \in {241, 242}
                \/ s[1] = 243 /\ s[2] <= 175

(* How many bytes the name character at the beginning has, 0 for none.     *)
Follows(s, n) == Len(s) >= n /\ \A i \in 2..n : s[i] \in 128..191
XmlNameStartChar(s) ==
    LET n == IF s = <<>> THEN 0 ELSE ByteLength(s[1])
    IN CASE n = 1 /\ StartOf1(s[1]) -> 1
         [] n = 2 /\ Follows(s, 2) /\ StartOf2(s) -> 2
         [] n = 3 /\ Follows(s, 3) /\ StartOf3(s) -> 3
         [] n = 4 /\ Follows(s, 4) /\ StartOf4(s) -> 4
         [] OTHER -> 0
XmlNameChar(s) ==
    LET n == IF s = <<>> THEN 0 ELSE ByteLength(s[1])
    IN CASE n = 1 /\ (StartOf1(s[1]) \/ SecondOf1(s[1])) -> 1
         [] n = 2 /\ Follows(s, 2) /\ (StartOf2(s) \/ SecondOf2(s)) -> 2
         [] n = 3 /\ Follows(s, 3) /\ (StartOf3(s) \/ SecondOf3(s)) -> 3
         [] n = 4 /\ Follows(s, 4) /\ StartOf4(s) -> 4
         [] OTHER -> 0

(* calc_logical_string_length: -1 when it throws.                          *)
RECURSIVE LogicalLength(_)
LogicalLength(s) ==
    IF s = <<>> THEN 0
    ELSE IF ByteLength(s[1]) > Len(s) THEN -1
    ELSE LET rest == LogicalLength(From(s, ByteLength(s[1]) + 1)) IN IF rest = -1 THEN -1 ELSE rest + 1

(* The name characters of XML 1.1, but for the colon.                      *)
NameStartRanges == {<<65, 90>>, <<97, 122>>, <<95, 95>>, <<192, 214>>, <<216, 246>>, <<248, 767>>, <<880, 893>>,
                    <<895, 8191>>, <<8204, 8205>>, <<8304, 8591>>, <<11264, 12271>>, <<12289, 55295>>,
                    <<63744, 64975>>, <<65008, 65533>>, <<65536, 983039>>}
IsNameStart(cp) == \E range \in NameStartRanges : cp \in range[1]..range[2]
IsName(cp) == IsNameStart(cp) \/ cp \in ({45, 46, 183} \cup (48..57) \cup (768..879) \cup {8255, 8256})

(* A code point is encoded in as many bytes as its first one tells and is  *)
(* read back from their bits; its bytes are a name character exactly when  *)
(* XML has it for one, and no part of them is; a text has as many          *)
(* characters as code points.                                              *)
CodePointsAreEncoded ==
    /\ \A i \in DOMAIN file :
        LET cp == file[i]
            s  == EncodeUtf8(cp)
            first == s[1] - <<0, 192, 224, 240>>[Len(s)]
        IN /\ ByteLength(s[1]) = Len(s) /\ \A b \in ToSet(s) : b \in 0..255
           /\ FoldLeft(LAMBDA n, b : 64 * n + (b % 64), first, Tail(s)) = cp
           /\ cp # 58 => XmlNameStartChar(s) = IF IsNameStart(cp) THEN Len(s) ELSE 0
           /\ cp # 58 => XmlNameChar(s) = IF IsName(cp) THEN Len(s) ELSE 0
           /\ Len(s) > 1 => XmlNameChar(Front(s)) = 0 /\ XmlNameChar(Tail(s)) = 0 /\ LogicalLength(Front(s)) = -1
    /\ LogicalLength(FlattenSeq([i \in DOMAIN file |-> EncodeUtf8(file[i])])) = Len(file)

-----------------------------------------------------------------------------
(* The enumerations, as they are declared and by the names they are dumped *)
(* under, which are looked up by position; "_" is written "-" throughout.  *)

DeclaredCells == [
    border_style |-> <<"unknown", "none", "solid", "dash-dot", "dash-dot-dot", "dashed", "dotted", "double-border",
                       "hair", "medium", "medium-dash-dot", "medium-dash-dot-dot", "medium-dashed",
                       "slant-dash-dot", "thick", "thin", "double-thin", "fine-dashed">>,
    fill_pattern |-> <<"none", "solid", "dark-down", "dark-gray", "dark-grid", "dark-horizontal", "dark-trellis",
                       "dark-up", "dark-vertical", "gray-0625", "gray-125", "light-down", "light-gray",
                       "light-grid", "light-horizontal", "light-trellis", "light-up", "light-vertical",
                       "medium-gray">>,
    strikethrough_style |-> <<"none", "solid", "dash", "dot-dash", "dot-dot-dash", "dotted", "long-dash", "wave">>,
    strikethrough_type  |-> <<"unknown", "none", "single-type", "double-type">>,
    strikethrough_width |-> <<"unknown", "width-auto", "thin", "medium", "thick", "bold">>,
    strikethrough_text  |-> <<"unknown", "slash", "cross">>]
DeclaredGrammars == [formula_grammar |-> <<"unknown", "xls-xml", "xlsx", "ods", "gnumeric">>]
DeclaredUnderlines == [
    underline_style     |-> <<"none", "solid", "dotted", "dash", "long-dash", "dot-dash", "dot-dot-dash", "wave">>,
    underline_thickness |-> <<"none", "automatic", "bold", "dash", "medium", "thick", "thin", "percent",
                              "positive-integer", "positive-length">>,
    underline_spacing   |-> <<"continuous", "skip-white-space", "continuous-over-field">>,
    underline_count     |-> <<"none", "single-count", "double-count">>]
DeclaredAlignments == [
    hor_alignment |-> <<"unknown", "left", "center", "right", "justified", "distributed", "filled">>,
    ver_alignment |-> <<"unknown", "top", "middle", "bottom", "justified", "distributed">>]
DeclaredFilters == [
    auto_filter_node_op |-> <<"unspecified", "op-and", "op-or">>,
    auto_filter_op      |-> <<"unspecified", "empty", "not-empty", "equal", "not-equal", "contain", "not-contain",
                              "begin-with", "not-begin-with", "end-with", "not-end-with", "greater",
                              "greater-equal", "less", "less-equal", "top", "bottom", "top-percent",
                              "bottom-percent", "top-percent-range", "bottom-percent-range">>]
DeclaredPivots == [
    pivot_cache_group_by |-> <<"unknown", "days", "hours", "minutes", "months", "quarters", "range", "seconds",
                               "years">>,
    pivot_field_item     |-> <<"unknown", "average", "blank-line", "count", "count-numbers", "data",
                               "subtotal-default", "grand-total", "max", "min", "product", "stddev", "stddevp",
                               "sum", "var", "varp">>,
    pivot_data_subtotal  |-> <<"unknown", "average", "count", "count-numbers", "max", "min", "product", "stddev",
                               "stddevp", "sum", "var", "varp">>,
    pivot_data_show_data_as |-> <<"unknown", "difference", "index", "normal", "percent", "percent-diff",
                                  "percent-of-col", "percent-of-row", "percent-of-total", "run-total">>,
    pivot_axis |-> <<"unknown", "column", "page", "row", "values">>]
Declared == DeclaredCells @@ DeclaredGrammars @@ DeclaredUnderlines @@ DeclaredAlignments @@ DeclaredFilters
            @@ DeclaredPivots

DumpedCells == [
    border_style |-> <<"unknown", "none", "solid", "dash-dot", "dash-dot-dot", "dashed", "dotted", "double-border",
                       "hair", "medium", "medium-dash-dot", "medium-dash-dot-dot", "medium-dashed",
                       "slant-dash-dot", "thick", "thin", "double-thin", "fine-dashed">>,
    formula_grammar     |-> <<"unknown", "xls-xml", "xlsx", "ods", "gnumeric">>,
    underline_style     |-> <<"none", "solid", "dotted", "dash", "long-dash", "dot-dash", "dot-dot-dash", "wave">>,
    underline_thickness |-> <<"none", "automatic", "bold", "dash", "medium", "thick", "thin", "percent",
                              "positive-integer", "positive-length">>,
    underline_spacing   |-> <<"continuous", "skip-white-space", "continuous-over-field">>,
    underline_count     |-> <<"none", "single-count", "double-count">>,
    hor_alignment |-> <<"unknown", "left", "center", "right", "justified", "distributed", "filled">>,
    ver_alignment |-> <<"unknown", "top", "middle", "bottom", "justified", "distributed">>]
DumpedFilters == [
    auto_filter_node_op |-> <<"unspecified", "op-and", "op-or">>,
    auto_filter_op      |-> <<"unspecified", "empty", "not-empty", "equal", "not-equal", "contain", "not-contain",
                              "begin-with", "not-begin-with", "end-with", "not-end-with", "greater",
                              "greater-equal", "less", "less-equal", "top", "bottom", "top-percent",
                              "bottom-percent", "top-percent-range", "bottom-percent-range">>]
DumpedFills == [
    fill_pattern |-> <<"none", "solid", "dark-down", "dark-gray", "dark-grid", "dark-horizontal", "dark-trellis",
                       "dark-up", "dark-vertical", "gray-0625", "gray-125", "light-down", "light-gray",
                       "light-grid", "light-horizontal", "light-trellis", "light-up", "light-vertical",
                       "medium-gray">>,
    strikethrough_style |-> <<"none", "solid", "dash", "dot-dash", "dot-dot-dash", "dotted", "long-dash", "wave">>,
    strikethrough_type  |-> <<"unknown", "none", "single-type", "double-type">>,
    strikethrough_width |-> <<"unknown", "width-auto", "thin", "medium", "thick", "bold">>,
    strikethrough_text  |-> <<"unknown", "slash", "cross">>]
DumpedPivots == [
    pivot_cache_group_by |-> <<"unknown", "days", "hours", "minutes", "months", "quarters", "range", "seconds",
                               "years">>,
    pivot_field_item     |-> <<"unknown", "average", "blank-line", "count", "count-numbers", "data",
                               "subtotal-default", "grand-total", "max", "min", "product", "stddev", "stddevp",
                               "sum", "var", "varp">>,
    pivot_axis |-> <<"unknown", "column", "page", "row", "values">>,
    pivot_data_show_data_as |-> <<"unknown", "difference", "index", "normal", "percent", "percent-diff",
                                  "percent-of-col", "percent-of-row", "percent-of-total", "run-total">>,
    pivot_data_subtotal  |-> <<"unknown", "average", "count", "count-numbers", "max", "min", "product", "stddev",
                               "stddevp", "sum", "var", "varp">>]
Dumped == DumpedCells @@ DumpedFilters @@ DumpedFills @@ DumpedPivots

(* write_name_for_pos                                                      *)
NameForPosition(enum, pos) == IF pos <= Len(Dumped[enum]) THEN Dumped[enum][pos] ELSE "???"

DeclaredErrors == <<"unknown", "null", "div0", "value", "ref", "name", "num", "na">>

(* The error values: entries in the order of their texts, written by it.   *)
ErrorEntries == << <<"#DIV/0!", "div0">>, <<"#N/A!", "na">>, <<"#NAME?", "name">>, <<"#NULL!", "null">>,
                   <<"#NUM!", "num">>, <<"#REF!", "ref">>, <<"#VALUE!", "value">> >>
ToErrorValue(text) ==
    LET same == {i \in DOMAIN ErrorEntries : ErrorEntries[i][1] = text}
    IN IF same = {} THEN "unknown" ELSE ErrorEntries[CHOOSE i \in same : TRUE][2]
ErrorEntryOf == [div0 |-> 1, na |-> 2, name |-> 3, null |-> 4, num |-> 5, ref |-> 6, value |-> 7]
ErrorText(value) == IF value = "unknown" THEN "" ELSE ErrorEntries[ErrorEntryOf[value]][1]

(* Each enumerator is dumped under its own name, and an error value by the *)
(* text it is read from.  (A file is <<enumeration, position>>.)           *)
EnumeratorsHaveTheirNames ==
    file # <<>> => LET enum == file[1]
                       pos  == file[2]
                   IN IF enum = "error_value"
                      THEN pos <= Len(DeclaredErrors) =>
                                ToErrorValue(ErrorText(DeclaredErrors[pos])) = DeclaredErrors[pos]
                      ELSE NameForPosition(enum, pos) =
                                IF pos <= Len(Declared[enum]) THEN Declared[enum][pos] ELSE "???"
-----------------------------------------------------------------------------
(* JSON paths (json_path.cpp) and the subtree of a document they select.   *)

PathError == [parts |-> <<>>, end |-> 0, error |-> TRUE]
Part(type, value, end) == [parts |-> <<[type |-> type, value |-> value]>>, end |-> end, error |-> FALSE]
Key(s, p, q, end) == IF p = q THEN PathError ELSE Part("key", SubSeq(s, p, q - 1), end)

ObjectKey(s, p) == LET q == First(s, p, {".", "["}) IN Key(s, p, q, q)
KeyInBrackets(s, p) ==      \* from behind the opening quote
    LET q == First(s, p, {"'"})
    IN IF q >= Len(s) \/ (q < Len(s) /\ s[q + 1] # "]") THEN PathError ELSE Key(s, p, q, q + 2)
Bracket(s, p) ==            \* from behind the bracket
    LET q == First(s, p, {"]"})
        t == SubSeq(s, p, q - 1)
        n == ParseInteger(t)
    IN CASE p <= Len(s) /\ s[p] = "'" -> KeyInBrackets(s, p + 1)
         [] q > Len(s) -> PathError
         [] t = <<"*">> -> Part("all", "", q + 1)
         [] n.end = 1 \/ n.value < 0 -> PathError
         [] OTHER -> Part("index", n.value, q + 1)

Before(part, rest) == IF rest.error THEN PathError ELSE [rest EXCEPT !.parts = part.parts \o @]
RECURSIVE PathFrom(_, _)
PathFrom(s, p) ==
    LET part == CASE p > Len(s) -> [parts |-> <<>>, end |-> p, error |-> FALSE]
                  [] p = 1 /\ s[p] = "$" -> Part("root", "", 2)
                  [] s[p] = "[" -> Bracket(s, p + 1)
                  [] s[p] = "." /\ p > 1 -> ObjectKey(s, p + 1)
                  [] p = 1 -> ObjectKey(s, p)
                  [] OTHER -> PathError
    IN IF part.error \/ p > Len(s) THEN part ELSE Before(part, PathFrom(s, part.end))
ParsePath(s) == PathFrom(s, 1)

CONSTANT PathDocument      \* a JSON document: [type, keys, items] of an array or object, [type, value]

NoNode == [type |-> "none", value |-> ""]
Child(node, i) == IF node.type \in {"array", "object"} /\ i < Len(node.items) THEN node.items[i + 1] ELSE NoNode
ChildOf(node, key) ==
    IF node.type = "object" /\ key \in ToSet(node.keys)
    THEN node.items[CHOOSE i \in DOMAIN node.keys : node.keys[i] = key] ELSE NoNode

(* subtree::subtree: down the path, back up from its end, and down again   *)
(* while an array of all children is not complete.                         *)
RECURSIVE Walk(_, _, _, _)
Walk(parts, it, down, stack) ==
    LET scope == Last(stack)
        part  == parts[it]
        child == CASE part.type = "root" -> PathDocument
                   [] part.type = "index" -> Child(scope.node, part.value)
                   [] part.type = "key" -> ChildOf(scope.node, part.value)
                   [] part.type = "all" -> Child(scope.node, Len(scope.array))
        below == (IF part.type = "all" THEN [stack EXCEPT ![Len(stack)].all = TRUE] ELSE stack)
                 \o <<[node |-> child, all |-> FALSE, array |-> <<>>, value |-> NoNode]>>
        parent == stack[Len(stack) - 1]
        array  == Append(parent.array, scope.value)
        Pass(value) == Walk(parts, it - 1, FALSE, [Front(stack) EXCEPT ![Len(stack) - 1].value = value])
    IN CASE down /\ child = NoNode -> NoNode
         [] down /\ child # NoNode /\ it = Len(parts) ->
              Walk(parts, it, FALSE, [below EXCEPT ![Len(below)].value = child])
         [] down /\ child # NoNode /\ it < Len(parts) -> Walk(parts, it + 1, TRUE, below)
         [] ~down /\ Len(stack) = 1 -> scope.value
         [] ~down /\ Len(stack) > 1 /\ parent.all /\ Len(array) < Len(parent.node.items) ->
              Walk(parts, it, TRUE, [Front(stack) EXCEPT ![Len(stack) - 1].array = array])
         [] ~down /\ Len(stack) > 1 /\ parent.all /\ Len(array) >= Len(parent.node.items) ->
              Pass([type |-> "array", items |-> array])
         [] OTHER -> Pass(scope.value)

Rooted(parts) ==
    IF parts # <<>> /\ parts[1].type = "root" THEN parts ELSE <<[type |-> "root", value |-> ""]>> \o parts
Subtree(parts) == Walk(Rooted(parts), 1, TRUE, <<>>)

(* A path that is taken is written again as the same path, whether a key   *)
(* is behind a point or in brackets; and the walk over the path, with its  *)
(* stack, yields what the path selects: the child, or the array of what is *)
(* selected in each child; nothing when one of them has no such child.     *)
WrittenPart(part) ==
    CASE part.type = "root" -> <<"$">>
      [] part.type = "all" -> <<"[", "*", "]">>
      [] part.type = "index" -> <<"[", DigitNames[part.value], "]">>
      [] part.type = "key" /\ "'" \in ToSet(part.value) -> <<".">> \o part.value
      [] part.type = "key" /\ "'" \notin ToSet(part.value) -> <<"[", "'">> \o part.value \o <<"'", "]">>

RECURSIVE Selected(_, _)
Selected(node, parts) ==
    IF node = NoNode \/ parts = <<>> THEN node ELSE
    CASE parts[1].type = "root" -> Selected(node, Tail(parts))
      [] parts[1].type = "index" -> Selected(Child(node, parts[1].value), Tail(parts))
      [] parts[1].type = "key" -> Selected(ChildOf(node, parts[1].value), Tail(parts))
      [] parts[1].type = "all" ->
           LET each == [i \in 1..Len(node.items) |-> Selected(node.items[i], Tail(parts))]
           IN IF node.type = "value" THEN NoNode
              ELSE IF each = <<>> \/ \E i \in DOMAIN each : each[i] = NoNode THEN NoNode
              ELSE [type |-> "array", items |-> each]

PathSelects(path) ==
    ~path.error /\ path.parts # <<>> =>
        /\ ParsePath(FlattenSeq([i \in DOMAIN Rooted(path.parts) |-> WrittenPart(Rooted(path.parts)[i])])).parts =
                Rooted(path.parts)
        /\ Subtree(path.parts) = Selected(PathDocument, path.parts)

(* The other parser of such paths, that of JSON maps (json_map_tree.cpp):  *)
(* every part is in brackets, nothing between them is all, and a number is *)
(* the whole text.                                                         *)
MapKey(s, p) ==             \* from behind the opening quote
    LET q == First(s, p, {"'"})
    IN IF q + 1 <= Len(s) /\ s[q + 1] = "]" THEN Part("key", SubSeq(s, p, q - 1), q + 2) ELSE PathError
MapPosition(s, p) ==        \* from behind the bracket
    LET q == First(s, p, {"]"})
        t == SubSeq(s, p, q - 1)
        n == ParseInteger(t)
    IN CASE p <= Len(s) /\ s[p] = "'" -> MapKey(s, p + 1)
         [] q > Len(s) -> PathError
         [] t \in {<<>>, <<"*">>} -> Part("all", "", q + 1)
         [] n.end # Len(t) + 1 \/ n.value < 0 -> PathError
         [] OTHER -> Part("index", n.value, q + 1)
RECURSIVE MapPathFrom(_, _)
MapPathFrom(s, p) ==
    LET part == IF s[p] = "[" THEN MapPosition(s, p + 1) ELSE PathError
    IN IF p > Len(s) THEN [parts |-> <<>>, end |-> p, error |-> FALSE]
       ELSE IF part.error THEN PathError ELSE Before(part, MapPathFrom(s, part.end))
MapPath(s) ==
    IF s = <<>> \/ (s # <<>> /\ s[1] # "$") THEN PathError ELSE Before(Part("root", "", 2), MapPathFrom(s, 2))

(* The two mean the same by the same text: a text both take has the same   *)
(* parts in both; each takes a path of the other when it is written in brackets  *)
(* from the root, but for the empty keys only a map may have.              *)
MapPathsAreRead ==
    \A path \in {ParsePath(file)}, mapped \in {MapPath(file)} :
    LET Keys(parts) == {part.value : part \in {q \in ToSet(parts) : q.type = "key"}}
        Text(parts) == FlattenSeq([i \in DOMAIN parts |-> WrittenPart(parts[i])])
        quotable == \A key \in Keys(path.parts) : "'" \notin ToSet(key)
    IN /\ ~path.error /\ ~mapped.error => path.parts = mapped.parts
       /\ ~path.error /\ path.parts # <<>> /\ quotable =>
            MapPath(Text(Rooted(path.parts))).parts = Rooted(path.parts)
       /\ ~mapped.error /\ <<>> \notin Keys(mapped.parts) => ParsePath(Text(mapped.parts)).parts = mapped.parts

PathsSelect == PathSelects(ParsePath(file)) /\ MapPathsAreRead

-----------------------------------------------------------------------------
(* The lists of an OPC package (opc_context.cpp): the parts and extensions *)
(* of [Content_Types].xml, and the relations of a .rels file.  A file is   *)
(* its elements: [ns, name, attrs] where one starts, End where one ends.   *)

End       == [ns |-> "", name |-> "/", attrs |-> <<>>]
NoElement == <<"unknown", "unknown">>
KnownTypes == {"workbook", "sheet"}        \* of CT_all and SCH_all

ToKnownType(value) == IF value \in KnownTypes THEN value ELSE "none"

PartAttribute(name, part, attr) ==
    CASE attr.name = name -> [part EXCEPT !.name = attr.value]
      [] attr.name # name /\ attr.name = "ContentType" -> [part EXCEPT !.type = ToKnownType(attr.value)]
      [] OTHER -> part
RelationAttribute(rel, attr) ==
    CASE attr.name = "Target" -> [rel EXCEPT !.target = attr.value]
      [] attr.name = "Type" -> [rel EXCEPT !.type = ToKnownType(attr.value)]
      [] attr.name = "Id" -> [rel EXCEPT !.rid = attr.value]
      [] OTHER -> rel

NoPackageLists == [stack |-> <<>>, parts |-> <<>>, exts |-> <<>>, rels |-> <<>>, error |-> FALSE]
Parent(st) == IF st.stack = <<>> THEN NoElement ELSE Last(st.stack)
Pushed(st, e, parent) ==       \* push_stack, xml_element_expected
    [st EXCEPT !.stack = Append(@, <<e.ns, e.name>>), !.error = Parent(st) # parent]

ContentTypesStart(st, e) ==
    LET part == FoldLeft(LAMBDA t, attr : PartAttribute(IF e.name = "Override" THEN "PartName" ELSE "Extension", t, attr),
                         [name |-> <<>>, type |-> "none"], e.attrs)
        below == Pushed(st, e, <<"ct", "Types">>)
    IN CASE e.name = "Types" -> Pushed(st, e, NoElement)
         [] e.name = "Override" -> IF below.error THEN below ELSE [below EXCEPT !.parts = Append(@, part)]
         [] e.name = "Default" -> IF below.error THEN below ELSE [below EXCEPT !.exts = Append(@, part)]
         [] OTHER -> Pushed(st, e, Parent(st))
RelationsStart(st, e) ==
    LET rel == FoldLeft(RelationAttribute, [target |-> "", type |-> "none", rid |-> <<>>], e.attrs)
        below == Pushed(st, e, <<"rel", "Relationships">>)
    IN CASE e.name = "Relationships" -> Pushed(st, e, NoElement)
         [] e.name = "Relationship" ->
              IF below.error \/ rel.type = "none" THEN below ELSE [below EXCEPT !.rels = Append(@, rel)]
         [] OTHER -> Pushed(st, e, Parent(st))
PackageLists(kind, events) ==
    FoldLeft(LAMBDA st, e : CASE st.error -> st
                              [] ~st.error /\ e = End -> [st EXCEPT !.stack = Front(@)]
                              [] OTHER -> IF kind = "content types" THEN ContentTypesStart(st, e)
                                          ELSE RelationsStart(st, e), NoPackageLists, events)

CompareRels(r1, r2) ==
    LET n == Min({Len(r1.rid), Len(r2.rid)})
        differ == {i \in 1..n : r1.rid[i] # r2.rid[i]}
    IN IF differ = {} THEN Len(r1.rid) < Len(r2.rid) ELSE r1.rid[Min(differ)] < r2.rid[Min(differ)]
PopRels(rels) ==          \* what std::sort may make of them
    {sorted \in {[i \in DOMAIN rels |-> rels[f[i]]] : f \in Permutations(DOMAIN rels)} :
        \A i, j \in DOMAIN rels : i < j => ~CompareRels(sorted[j], sorted[i])}

(* A list is refused when an element is not in the one it belongs in, and  *)
(* has, in the order of the file, every part named there by its last name  *)
(* and type, with no type when it is not known; a relation of no known     *)
(* type is left out, and those left have the order of their ids whenever   *)
(* these are of their own, so that one order is all the sort may leave.    *)
PackageListsAreOfTheirFile ==
    LET Depth(i) == Cardinality({j \in 1..i : file[j] # End}) - Cardinality({j \in 1..i - 1 : file[j] = End})
        nested   == \A i \in DOMAIN file : Depth(i) >= IF file[i] = End THEN 1 ELSE 0
        starts   == {i \in DOMAIN file : file[i] # End}
        In(i, name) ==
            LET outer == {j \in starts : j < i /\ Depth(j) = Depth(i) - 1}
            IN IF name = "" THEN outer = {}
               ELSE outer # {} /\ file[Max(outer)].name = name /\ file[Max(outer)].ns = IF name = "Types" THEN "ct" ELSE "rel"
        Home  == "Types" :> "" @@ "Override" :> "Types" @@ "Default" :> "Types" @@
                 "Relationships" :> "" @@ "Relationship" :> "Relationships"
        parts == cxt.kind = "content types"
        names == IF parts THEN {"Types", "Override", "Default"} ELSE {"Relationships", "Relationship"}
        Given(e, name, none) ==
            LET those == {i \in DOMAIN e.attrs : e.attrs[i].name = name}
            IN IF those = {} THEN none ELSE e.attrs[Max(those)].value
        Known(e, name) == LET type == Given(e, name, "none") IN IF type \in KnownTypes THEN type ELSE "none"
        Listed(name, as) ==
            [i \in 1..Len(SelectSeq(file, LAMBDA e : e.name = name)) |->
                LET e == SelectSeq(file, LAMBDA x : x.name = name)[i]
                IN [name |-> Given(e, as, <<>>), type |-> Known(e, "ContentType")]]
        lists == PackageLists(cxt.kind, file)
    IN nested =>
        /\ lists.error <=> \E i \in starts : file[i].name \in names /\ ~In(i, Home[file[i].name])
        /\ parts /\ ~lists.error => lists.parts = Listed("Override", "PartName") /\ lists.exts = Listed("Default", "Extension")
        /\ ~parts /\ ~lists.error =>
            LET kept == SelectSeq(file, LAMBDA e : e.name = "Relationship" /\ Known(e, "Type") # "none")
                ids  == {Given(kept[i], "Id", <<>>) : i \in DOMAIN kept}
            IN /\ {rel.rid : rel \in ToSet(lists.rels)} = ids /\ Len(lists.rels) = Len(kept)
               /\ \A sorted \in PopRels(lists.rels), i, j \in DOMAIN kept :
                    i < j => LET a == sorted[i].rid
                                 b == sorted[j].rid
                             IN \/ IsPrefix(a, b)
                                \/ \E n \in DOMAIN a \cap DOMAIN b :
                                        SubSeq(a, 1, n - 1) = SubSeq(b, 1, n - 1) /\ a[n] < b[n]
               /\ Cardinality(ids) = Len(kept) => Cardinality(PopRels(lists.rels)) = 1

-----------------------------------------------------------------------------
(* Ranges of a sheet (spreadsheet_types.cpp): <<first row, first column,   *)
(* last row, last column>>; a sheet of two rows and three columns.         *)

SheetSize == <<2, 3>>
IsValidRange(r, size) ==
    /\ r[1] >= 0 /\ r[2] >= 0 /\ r[1] < size[1] /\ r[2] < size[2]
    /\ r[3] >= r[1] /\ r[4] >= r[2]
NoRange == <<>>
ClampRange(r, size) ==
    IF IsValidRange(r, size) THEN <<r[1], r[2], Min({r[3], size[1] - 1}), Min({r[4], size[2] - 1})>> ELSE NoRange
DimensionsOf(r) == <<r[3] - r[1] + 1, r[4] - r[2] + 1>>
RangeIsLess(r, q) ==
    LET differ == {i \in 1..4 : r[i] # q[i]} IN differ # {} /\ r[Min(differ)] < q[Min(differ)]
RangeIsGreater(r, q) ==
    LET differ == {i \in 1..4 : r[i] # q[i]} IN differ # {} /\ r[Min(differ)] > q[Min(differ)]
MoveBy(r, address) == <<r[1] + address[1], r[2] + address[2], r[3] + address[1], r[4] + address[2]>>
MoveBack(r, address) == <<r[1] - address[1], r[2] - address[2], r[3] - address[1], r[4] - address[2]>>

(* A clamped range has the cells of the range that are on the sheet, and   *)
(* there is none only when it has no first cell there; its dimensions      *)
(* count them; ranges are ordered, and moving one there and back changes   *)
(* nothing.                                                                *)
RangesAreClamped ==
    LET Cells(r) == IF r = NoRange THEN {} ELSE (r[1]..r[3]) \X (r[2]..r[4])
        sheet == (0..SheetSize[1] - 1) \X (0..SheetSize[2] - 1)
        r == file[1]
        q == file[2]
        c == ClampRange(r, SheetSize)
    IN /\ file # <<>> =>
            /\ Cells(c) = IF <<r[1], r[2]>> \in sheet /\ <<r[1], r[2]>> \in Cells(r) THEN Cells(r) \cap sheet ELSE {}
            /\ c # NoRange => DimensionsOf(c)[1] * DimensionsOf(c)[2] = Cardinality(Cells(c))
            /\ MoveBack(MoveBy(r, <<1, 2>>), <<1, 2>>) = r
       /\ Len(file) = 2 =>
            /\ RangeIsLess(r, q) = RangeIsGreater(q, r)
            /\ Cardinality({x \in {"<", ">", "="} : CASE x = "<" -> RangeIsLess(r, q) [] x = ">" -> RangeIsGreater(r, q)
                                                      [] x = "=" -> r = q}) = 1
-----------------------------------------------------------------------------
(* parser_base: skipping, in the registers of a SIMD build and one by one. *)

RECURSIVE SkipBlocks(_, _, _)
SkipBlocks(s, p, set) ==
    LET n == Min({Block, Len(s) + 1 - p})
        r == Min({q \in 0..n : q = n \/ s[p + q] \notin set})
    IN IF r < Block THEN p + r ELSE SkipBlocks(s, p + Block, set)

(* Whether the text is there and where the parser is then; the one build   *)
(* leaves a parser that does not find it behind what was alike.            *)
ParseExpected(s, expected) ==
    LET same == Len(expected) <= Len(s) /\ SubSeq(s, 1, Len(expected)) = expected
    IN [found |-> same, end |-> IF same THEN Len(expected) + 1 ELSE 1]
ParseExpectedOneByOne(s, expected) ==
    LET differ == {i \in 1..Min({Len(s), Len(expected)}) : s[i] # expected[i]}
    IN IF Len(expected) > Len(s) THEN [found |-> FALSE, end |-> 1]
       ELSE IF differ = {} THEN [found |-> TRUE, end |-> Len(expected) + 1]
       ELSE [found |-> FALSE, end |-> Min(differ)]

Blanks == {" ", "nl", "tab", "cr"}
TrimText(s) ==
    LET first == Span(s, 1, Blanks)
        last  == Max({q \in first..Len(s) : s[q] \notin Blanks})
    IN IF first > Len(s) THEN <<>> ELSE SubSeq(s, first, last)

(* string_helper::split_string                                             *)
SplitString(s, sep) ==
    LET Step(st, p) ==
            IF s[p] # sep THEN [st EXCEPT !.length = @ + 1]
            ELSE [parts |-> Append(st.parts, SubSeq(s, st.start, st.start + st.length - 1)),
                  start |-> IF p < Len(s) THEN st.start + st.length + 1 ELSE st.start, length |-> 0]
        all == FoldLeftDomain(LAMBDA st, p : Step(st, p), [parts |-> <<>>, start |-> 1, length |-> 0], s)
    IN Append(all.parts, SubSeq(s, all.start, all.start + all.length - 1))

(* Both builds skip the same, and all there is to skip; both find the same *)
(* texts and are behind what they found.  A trimmed text keeps all but its *)
(* blank ends, and the parts of a text are those between the separators.   *)
BlanksAreSkipped ==
    LET t == TrimText(file)
        parts == SplitString(file, " ")
        RECURSIVE Rejoined(_)
        Rejoined(q) == IF Len(q) = 1 THEN q[1] ELSE q[1] \o <<" ">> \o Rejoined(Tail(q))
    IN /\ SkipBlocks(file, 1, Blanks) = Span(file, 1, Blanks)
       /\ \A n \in 0..Min({2, Len(file)}), expected \in {<<" ", "a">>, <<"a", "a">>, <<"a">>} :
            LET s == From(file, n + 1)
            IN /\ ParseExpected(s, expected).found = ParseExpectedOneByOne(s, expected).found
               /\ ParseExpected(s, expected).found = IsPrefix(expected, s)
               /\ ParseExpected(s, expected).found =>
                        ParseExpected(s, expected) = ParseExpectedOneByOne(s, expected)
       /\ \E i, j \in 0..Len(file) : /\ i + j <= Len(file) /\ t = SubSeq(file, i + 1, Len(file) - j)
                                     /\ ToSet(SubSeq(file, 1, i)) \cup ToSet(From(file, Len(file) - j + 1)) \subseteq Blanks
       /\ t # <<>> => {t[1], Last(t)} \cap Blanks = {}
       /\ \A i \in DOMAIN parts : " " \notin ToSet(parts[i])
       /\ Rejoined(parts) = file

-----------------------------------------------------------------------------
(* The lines of a YAML stream (yaml_parser_base.cpp).                      *)

BlankLine   == -1          \* parse_indent_blank_line, parse_indent_end_of_stream
EndOfStream == -2
SkipComment(s, p) == LET q == First(s, p, {"nl"}) IN Min({q + 1, Len(s) + 1})
ParseIndent(s, p) ==
    LET q == Span(s, p, {" "})
    IN CASE q > Len(s) -> [indent |-> EndOfStream, end |-> q]
         [] q <= Len(s) /\ s[q] = "#" -> [indent |-> BlankLine, end |-> SkipComment(s, q)]
         [] q <= Len(s) /\ s[q] = "nl" -> [indent |-> BlankLine, end |-> q + 1]
         [] OTHER -> [indent |-> q - p, end |-> q]
RECURSIVE ToEndOfLine(_, _)
ToEndOfLine(s, p) ==        \* the end of the text, and where the next line is
    LET searched == Front(s)            \* remaining_size: all but the last
        closed == IF s[p] = "'" THEN ToClosingSingle(searched, p + 1, FALSE) ELSE ToClosingDouble(searched, p + 1, FALSE)
    IN CASE p > Len(s) -> [text |-> p, end |-> p, error |-> FALSE]
         [] p <= Len(s) /\ s[p] = "#" -> [text |-> p, end |-> SkipComment(s, p), error |-> FALSE]
         [] p <= Len(s) /\ s[p] = "nl" -> [text |-> p, end |-> p + 1, error |-> FALSE]
         [] p <= Len(s) /\ s[p] \in {"'", "\""} ->
              IF closed = 0 THEN [text |-> 0, end |-> 0, error |-> TRUE] ELSE ToEndOfLine(s, closed)
         [] OTHER -> ToEndOfLine(s, p + 1)
RECURSIVE YamlLines(_, _)
YamlLines(s, p) ==          \* the loop of yaml_parser::parse
    LET at == ParseIndent(s, p)
        line == ToEndOfLine(s, at.end)
        Rest(q, lines) == LET rest == YamlLines(s, q) IN [rest EXCEPT !.lines = lines \o @]
    IN CASE p > Len(s) \/ at.indent = EndOfStream -> [lines |-> <<>>, error |-> FALSE]
         [] p <= Len(s) /\ at.indent = BlankLine -> Rest(at.end, <<>>)
         [] p <= Len(s) /\ at.indent \notin {BlankLine, EndOfStream} /\ line.error -> [lines |-> <<>>, error |-> TRUE]
         [] OTHER -> Rest(line.end, <<[indent |-> at.indent, from |-> at.end, to |-> line.text - 1]>>)

(* The state of a reader that goes character by character: in which quotes *)
(* it is, or in a comment, or whether the character may end a quote.       *)
YamlQuoteAfter(q, c) ==
    CASE q = "comment" -> IF c = "nl" THEN "" ELSE q
      [] q = "" -> IF c = "#" THEN "comment" ELSE IF c \in {"'", "\""} THEN c ELSE ""
      [] q = "'" -> IF c = "'" THEN "'?" ELSE q
      [] q = "'?" -> CASE c = "'" -> "'" [] c = "#" -> "comment" [] c = "\"" -> c [] OTHER -> ""
      [] q = "\"" -> IF c = "\"" THEN "" ELSE q
YamlQuotes(s) == FoldLeft(LAMBDA qs, c : Append(qs, YamlQuoteAfter(Last(qs), c)), <<"">>, s)     \* before each

(* A line ends where a break is not in quotes, its text where a comment    *)
(* starts; every character that is no blank, comment or break is in one    *)
(* line; and a stream ends with an error only in quotes, or right behind   *)
(* quotes that it closes with its last character.                          *)
YamlLinesAreWhole ==
    LET read == YamlLines(file, 1)
        quotes == YamlQuotes(file)
        In(i) == {n \in DOMAIN read.lines : read.lines[n].from <= i /\ i <= read.lines[n].to}
        Breaks(i) == file[i] = "nl" /\ quotes[i] \notin {"'", "\""}
    IN "\\" \notin ToSet(file) =>
        /\ read.error <=> \/ Last(quotes) \in {"'", "\"", "'?"}
                          \/ /\ file # <<>> /\ Last(file) = "\""
                             /\ Last(quotes) = ""
        /\ ~read.error =>
            /\ \A i \in DOMAIN file :
                LET inside == quotes[i] # "comment" /\ ~Breaks(i) /\ ~(file[i] = "#" /\ quotes[i] \in {"", "'?"})
                IN Cardinality(In(i)) = IF inside /\ \E j \in 1..i : /\ file[j] # " "
                                                                    /\ \A k \in j..i - 1 : ~Breaks(k)
                                        THEN 1 ELSE 0
            /\ \A n \in DOMAIN read.lines :
                LET line == read.lines[n]
                IN \/ line.from = line.indent + 1
                   \/ Breaks(line.from - line.indent - 1) \/ quotes[line.from - line.indent - 1] = "comment"

-----------------------------------------------------------------------------
(* The report of a parse error (stream.cpp): the line of an offset, cut    *)
(* when it is long, and the column of the caret below it.                  *)

MaxLineLength == 60

(* <<line, its number, offset on the line>>, the last two from 0.          *)
FindLineWithOffset(s, offset) ==
    LET at    == offset + 1
        from  == IF s[at] = "nl" /\ offset > 0 THEN at - 1 ELSE at
        start == Max({0} \cup {q \in 1..from : s[q] = "nl"}) + 1
        end   == Min({q \in at..Len(s) + 1 : q > Len(s) \/ s[q] = "nl"})
    IN [line |-> SubSeq(s, start, end - 1), offset |-> at - start,
        number |-> Cardinality({q \in 1..at - 1 : s[q] = "nl"})]

CreateParseErrorOutput(s, wanted) ==
    LET offset == Min({Len(s) - 1, wanted})
        found  == FindLineWithOffset(s, offset)
        n      == Len(found.line)
        start  == found.offset - 20
    IN IF found.offset < 30
       THEN [line |-> found.number + 1, text |-> SubSeq(found.line, 1, Min({n, MaxLineLength})),
             caret |-> found.offset + 1]
       ELSE [line |-> found.number, text |-> SubSeq(found.line, start + 1, Min({start + MaxLineLength, n})),
             caret |-> 21]

(* The line of an error is the one it is on, or ends, and the caret is     *)
(* below its character, or behind the end of the line when that is a line  *)
(* break, in a text of one line.  Two places are not as one would have it: *)
(* a break that is the very first character begins its line one character  *)
(* behind itself, which the assertion of line 155 refuses; and the number, *)
(* which counts from 1, is one less in front of a line that is cut there   *)
(* (stream.cpp:374, against 344).                                          *)
ErrorsAreShown ==
    \A wanted \in 0..Len(file) : file # <<>> =>
        LET offset == Min({Len(file) - 1, wanted})
            found  == FindLineWithOffset(file, offset)
            c      == file[offset + 1]
            number == Cardinality({q \in 1..offset : file[q] = "nl"}) + IF found.offset >= 30 THEN 0 ELSE 1
        IN /\ found.offset < 0 <=> (offset = 0 /\ file[1] = "nl")
           /\ found.offset >= 0 =>
                LET out    == CreateParseErrorOutput(file, wanted)
                    before == SubSeq(file, offset + 2 - out.caret, offset + 1)
                IN /\ "nl" \notin ToSet(out.text) /\ Len(out.text) <= MaxLineLength
                   /\ IF c = "nl" THEN out.caret = Len(out.text) + 1 ELSE out.text[out.caret] = c
                   /\ out.caret <= 30
                   /\ c # "nl" => before = SubSeq(out.text, 1, out.caret)
                   /\ out.line = number
-----------------------------------------------------------------------------
Init == /\ \E kind \in Kinds : cxt = [kind |-> kind, pieces |-> 0]
        /\ file = <<>> /\ doc = <<>>

(* The text grows by a piece.                                              *)
Grow == \E piece \in Pieces[cxt.kind] :
            /\ cxt.pieces < MaxPieces[cxt.kind]
            /\ file' = file \o piece
            /\ cxt' = [cxt EXCEPT !.pieces = @ + 1]
            /\ UNCHANGED doc

Next == Grow

TextsAreRead ==
    /\ cxt.kind = "double-quoted" => DoubleQuotedTextsAreRead
    /\ cxt.kind = "single-quoted" => SingleQuotedTextsAreRead
    /\ cxt.kind = "number" => NumbersAreRead
    /\ cxt.kind = "length" => LengthsAreOfTheirUnits
    /\ cxt.kind = "date" => DatesAreRead
    /\ cxt.kind = "dates" => DatesAreInOrder
    /\ cxt.kind = "color" => ColorsAreRead
    /\ cxt.kind = "encoded" => EncodedTextsAreReadAgain
    /\ cxt.kind = "bytes" => BytesAreReadAgain
    /\ cxt.kind = "code-points" => CodePointsAreEncoded
    /\ cxt.kind = "blanks" => BlanksAreSkipped
    /\ cxt.kind = "lines" => YamlLinesAreWhole
NamesAndPathsAreOwn ==
    /\ cxt.kind = "path" => PathsSelect
    /\ cxt.kind \in {"content types", "relations"} => PackageListsAreOfTheirFile
    /\ cxt.kind = "enumerator" => EnumeratorsHaveTheirNames
    /\ cxt.kind = "range" => RangesAreClamped
    /\ cxt.kind = "error" => ErrorsAreShown
=============================================================================
