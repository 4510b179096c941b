------------------------------ MODULE Literals ------------------------------
(***************************************************************************)
(* Literals (parser/parse_literals.rs, and the order in which              *)
(* parse_any_value and parse_value_for_shape of parse_expressions.rs try   *)
(* them): numbers, sizes, durations, dates, binaries, strings and their    *)
(* escapes, interpolation, cell paths and ranges.                          *)
(*                                                                         *)
(* A text is a sequence of characters; a word such as true or inf is one   *)
(* character of its own where nothing looks inside it.  A cell path is the *)
(* sequence of the tokens it was lexed into.  Floats keep no value.        *)
(***************************************************************************)
EXTENDS Integers, FiniteSets, SequencesExt

CONSTANTS
  Bits,         \* the width of an int (64 in the program)
  Pieces,       \* the pieces words are written from
  MaxPieces,    \* how many pieces a word or a string may have
  Bounds,       \* the texts of range bounds
  Dates,        \* [year, month, day] under study
  Times,        \* what may follow a date
  Binaries,     \* bytes binaries are written from
  MaxBytes,     \* how many bytes a binary may have
  StringPieces, \* [text, units]: the pieces strings are written from
  BodyCharacters, \* what interpolated bodies are made of
  MaxBody,      \* how long a plain or an interpolated body may be
  PathTokens,   \* the tokens cell paths are made of
  MaxTokens     \* how many a cell path may have

VARIABLES
  input,  \* what is parsed: its family first
  result  \* what it is read as

vars == <<input, result>>

Unparsed == [out |-> "unparsed"]
Read(out, value) == [out |-> out, value |-> value]
NONE == [out |-> "none"]
Refused == [out |-> "refused"]

Parsed(family) == input[1] = family /\ result # Unparsed

From(text, i) == SubSeq(text, i, Len(text))
Char(text, i) == IF i \in DOMAIN text THEN text[i] ELSE ""
Without(text, c) == SelectSeq(text, LAMBDA d : d # c)
Parts(text, seps) == SelectSeq(text, LAMBDA c : c \notin seps)

----------------------------------------------------------------------------
(* Numbers.                                                                *)

HexDigits == <<"0", "1", "2", "3", "4", "5", "6", "7", "8", "9", "a", "b", "c", "d", "e", "f">>
Decimals == {HexDigits[i] : i \in 1..10}
DigitOf(c) == SelectInSeq(HexDigits, LAMBDA d : d = c) - 1

IsNumber(text, radix) == text # <<>> /\ \A i \in DOMAIN text : DigitOf(text[i]) \in 0..(radix - 1)
Number(text, radix) == FoldLeft(LAMBDA n, c : n * radix + DigitOf(c), 0, text)

Radix(text) ==
  IF Char(text, 1) # "0" THEN 0
  ELSE CASE Char(text, 2) = "x" -> 16 [] Char(text, 2) = "o" -> 8 [] Char(text, 2) = "b" -> 2 [] OTHER -> 0

Signed(text, signs) == IF Char(text, 1) \in signs THEN Tail(text) ELSE text

Reinterpreted(n) ==
  CASE n < 2 ^ (Bits - 1) -> Read("int", n)
    [] n \in (2 ^ (Bits - 1))..(2 ^ Bits - 1) -> Read("int", n - 2 ^ Bits)
    [] OTHER -> NONE

ParseInt(word) ==
  LET text == Without(word, "_")
      digits == Signed(From(text, 3), {"+"})
      within(n) == IF n \in -(2 ^ (Bits - 1))..(2 ^ (Bits - 1) - 1) THEN Read("int", n) ELSE NONE
  IN IF IsNumber(Signed(text, {"+", "-"}), 10)
     THEN within((IF Char(text, 1) = "-" THEN -1 ELSE 1) * Number(Signed(text, {"+", "-"}), 10))
     ELSE IF Radix(text) # 0 /\ IsNumber(digits, Radix(text)) THEN Reinterpreted(Number(digits, Radix(text)))
     ELSE NONE

Mantissa(text) ==
  /\ \A i \in DOMAIN text : text[i] \in Decimals \cup {"."}
  /\ \E i \in DOMAIN text : text[i] \in Decimals
  /\ Cardinality({i \in DOMAIN text : text[i] = "."}) <= 1

IsFloat(word) ==
  LET text == Signed(Without(word, "_"), {"+", "-"})
      e == SelectInSeq(text, LAMBDA c : c = "e")
  IN text \in {<<"inf">>, <<"NaN">>} \/
     IF e = 0 THEN Mantissa(text)
     ELSE Mantissa(SubSeq(text, 1, e - 1)) /\ IsNumber(Signed(From(text, e + 1), {"+", "-"}), 10)

ParseFloat(text) == IF IsFloat(text) THEN Read("float", text) ELSE NONE
ParseNumber(text) == IF ParseInt(text) # NONE THEN ParseInt(text) ELSE IF IsFloat(text) THEN ParseFloat(text) ELSE Refused

----------------------------------------------------------------------------
(* Sizes and durations: the first unit the text ends with.                 *)

UnitStart(text) ==
  Len(text) >= 2 /\ (text[1] \in Decimals \/ (text[1] \in {".", "-"} /\ text[2] \in Decimals))

FilesizeUnits == {<<"k", "b">>, <<"k", "i", "b">>, <<"b">>}
DurationUnits == {<<"n", "s">>, <<"day">>}

(* The longest unit is the first of the table that fits: b is its last. *)
ParseUnitValue(kind, text, units) ==
  LET fitting == {unit \in units : IsSuffix(unit, text)}
      unit == CHOOSE u \in fitting : \A v \in fitting : Len(v) <= Len(u)
      number == SubSeq(text, 1, Len(text) - Len(unit))
  IN IF ~UnitStart(text) \/ fitting = {} \/ (number # <<>> /\ Last(number) = "$") THEN NONE
     ELSE IF IsFloat(number) THEN Read(kind, <<number, unit>>) ELSE Refused

(* Mutant: 0x1b is looked at as a size. *)
AnyFilesize(text) == ParseUnitValue("filesize", text, FilesizeUnits)

ParseFilesize(text) == IF Radix(text) = 16 THEN NONE ELSE ParseUnitValue("filesize", text, FilesizeUnits)
ParseDuration(text) == ParseUnitValue("duration", text, DurationUnits)

----------------------------------------------------------------------------
(* Dates and times.                                                        *)

(* Mutant: every century begins with a leap year. *)
JulianDays(year, month) ==
  CASE month = 2 -> IF year % 4 = 0 THEN 29 ELSE 28
    [] month \in {4, 6, 9, 11} -> 30
    [] OTHER -> 31

DaysInMonth(year, month) ==
  CASE month = 2 -> IF year % 4 = 0 /\ (year % 100 # 0 \/ year % 400 = 0) THEN 29 ELSE 28
    [] month \in {4, 6, 9, 11} -> 30
    [] OTHER -> 31

Field(text, i, size, values) == IsNumber(SubSeq(text, i, i + size - 1), 10) /\ Number(SubSeq(text, i, i + size - 1), 10) \in values

IsDate(text) ==
  /\ Len(text) = 10 /\ text[5] = "-" /\ text[8] = "-"
  /\ Field(text, 1, 4, 0..9999) /\ Field(text, 6, 2, 1..12)
  /\ Field(text, 9, 2, 1..DaysInMonth(Number(SubSeq(text, 1, 4), 10), Number(SubSeq(text, 6, 7), 10)))

IsOffset(text) ==
  \/ text \in {<<"Z">>, <<"z">>}
  \/ /\ Len(text) = 6 /\ text[1] \in {"+", "-"} /\ text[4] = ":"
     /\ Field(text, 2, 2, 0..23) /\ Field(text, 5, 2, 0..59)

(* After the seconds: a fraction if there is one, then an offset or nothing. *)
IsTime(text) ==
  LET end == SelectInSubSeq(text, 11, Len(text), LAMBDA c : c \notin Decimals)
      after == IF Char(text, 10) # "." THEN From(text, 10) ELSE IF end = 0 THEN <<>> ELSE From(text, end)
  IN /\ Len(text) >= 9 /\ text[1] \in {"T", "t"} /\ text[4] = ":" /\ text[7] = ":"
     /\ Field(text, 2, 2, 0..23) /\ Field(text, 5, 2, 0..59) /\ Field(text, 8, 2, 0..60)
     /\ Char(text, 10) = "." => Char(text, 11) \in Decimals
     /\ after = <<>> \/ IsOffset(after)

IsDatetime(text) ==
  Len(text) >= 10 /\ IsDate(SubSeq(text, 1, 10)) /\ (Len(text) = 10 \/ IsTime(From(text, 11)))

----------------------------------------------------------------------------
(* Binaries: 0x[..], 0o[..] and 0b[..].                                    *)

BinaryPrefix(text) == Radix(text) # 0 /\ Char(text, 3) = "["
DigitsPerByte(radix) == CASE radix = 16 -> 2 [] radix = 8 -> 3 [] OTHER -> 8

(* A pipe is a token of its own outside the groups of the interior, which   *)
(* is lexed; a ] that closes nothing is an ordinary character.  (A          *)
(* redirection or an assignment would be one too: no word here has those.)  *)
Closer == ("[" :> "]") @@ ("(" :> ")") @@ ("{" :> "}")

LexedInterior(inner) ==
  LET step(s, c) ==
        CASE c \in DOMAIN Closer -> [s EXCEPT !.open = Append(@, c)]
          [] c \in {"]", ")", "}"} ->
               IF s.open = <<>> THEN [s EXCEPT !.ok = @ /\ c = "]"]
               ELSE [s EXCEPT !.ok = @ /\ c = Closer[Last(s.open)], !.open = Front(@)]
          [] OTHER -> [s EXCEPT !.pipe = @ \/ (c = "|" /\ s.open = <<>>)]
      end == FoldLeft(step, [open |-> <<>>, pipe |-> FALSE, ok |-> TRUE], inner)
  IN [pipe |-> end.pipe, ok |-> end.ok /\ end.open = <<>>]

(* What does not lex is left to parse_binary to refuse. *)
LooksLikeBinary(text) ==
  LET lexed == LexedInterior(SubSeq(text, 4, Len(text) - 1))
  IN BinaryPrefix(text) /\ Len(text) > 3 /\ Last(text) = "]" /\ (lexed.ok => ~lexed.pipe)

(* Mutant: a whole number of bytes is padded with another one. *)
FullPadding(size, count) == count - (size % count)

Padding(size, count) == (count - (size % count)) % count

ParseBinary(text) ==
  LET radix == Radix(text)
      count == DigitsPerByte(radix)
      digits == Parts(SubSeq(text, 4, Len(text) - 1), {" ", ","})
      padded == [i \in 1..Padding(Len(digits), count) |-> "0"] \o digits
      bytes == [i \in 1..(Len(padded) \div count) |-> Number(SubSeq(padded, (i - 1) * count + 1, i * count), radix)]
  IN IF ~BinaryPrefix(text) \/ Last(text) # "]" THEN NONE
     ELSE IF (digits = <<>> \/ IsNumber(digits, radix)) /\ \A i \in DOMAIN bytes : bytes[i] < 256
          THEN Read("binary", bytes) ELSE Refused

----------------------------------------------------------------------------
(* Strings and their escapes: a decoded body is a sequence of characters   *)
(* and raw bytes.                                                          *)

OfChar(c) == [char |-> c, byte |-> 0, point |-> 0]
OfByte(n) == [char |-> "", byte |-> n, point |-> 0]
OfPoint(n) == [char |-> "", byte |-> 0, point |-> n]
BrokenEscape == OfByte(-1)
Characters(text) == [i \in DOMAIN text |-> OfChar(text[i])]

EscapesItself == {"\"", "'", "\\", "/", "(", ")", "{", "}", "$", "^", "#", "|", "~", " "}
ControlBytes == [a |-> 7, b |-> 8, e |-> 27, f |-> 12, n |-> 10, r |-> 13, t |-> 9]
IsCodePoint(n) == n \in 0..55295 \/ n \in 57344..1114111

RECURSIVE Decoded(_)
Decoded(text) ==
  LET c == Char(text, 2)
      rest(unit, size) == <<unit>> \o Decoded(From(text, size + 1))
      brace == SelectInSeq(text, LAMBDA d : d = "}")
      hex == SubSeq(text, 4, brace - 1)
      point == Signed(hex, {"+"})
  IN IF text = <<>> THEN <<>> ELSE IF text[1] # "\\" THEN rest(OfChar(text[1]), 1)
     ELSE CASE c \in EscapesItself -> rest(OfChar(c), 2)
       [] c = "0" -> rest(OfByte(0), 2)
       [] c \in DOMAIN ControlBytes -> rest(OfByte(ControlBytes[c]), 2)
       [] c = "x" -> IF Len(text) >= 4 /\ IsNumber(SubSeq(text, 3, 4), 16)
                     THEN rest(OfByte(Number(SubSeq(text, 3, 4), 16)), 4) ELSE <<BrokenEscape>>
       [] c = "u" -> IF Char(text, 3) = "{" /\ brace > 3 /\ Len(hex) <= 6 /\ IsNumber(point, 16)
                        /\ IsCodePoint(Number(point, 16))
                     THEN rest(OfPoint(Number(point, 16)), brace) ELSE <<BrokenEscape>>
       [] OTHER -> <<BrokenEscape>>

(* How many bytes a leading byte announces, overlong forms left out. *)
Continuations(n) == CASE n \in 194..223 -> 1 [] n \in 224..239 -> 2 [] n \in 240..244 -> 3 [] OTHER -> 0

IsUtf8(units) ==
  LET missing == FoldLeft(LAMBDA m, u : CASE m > 0 -> IF u.byte \in 128..191 THEN m - 1 ELSE -1
                                          [] m = 0 -> IF u.byte \in 128..193 \/ u.byte > 244 THEN -1 ELSE Continuations(u.byte)
                                          [] OTHER -> -1, 0, units)
  IN missing = 0

StringOf(units) == IF BrokenEscape \notin ToSet(units) /\ IsUtf8(units) THEN Read("string", units) ELSE Refused

Unescape(text) == StringOf(Decoded(text))

(* The last quote must be the last character; those before it are text. *)
Unquoted(text) ==
  LET last == SelectLastInSeq(text, LAMBDA c : c = text[1])
  IN IF last \in {0, 1} \/ last # Len(text) THEN Refused ELSE Read("string", SubSeq(text, 2, last - 1))

ParseRawString(text) ==
  LET body == SelectInSubSeq(text, 2, Len(text), LAMBDA c : c # "#")
      hashes == (IF body = 0 THEN Len(text) + 1 ELSE body) - 2
      end == Len(text) - hashes
  IN IF /\ hashes \in 1..255 /\ end > hashes + 2
        /\ text[hashes + 2] = "'" /\ text[end] = "'" /\ \A i \in (end + 1)..Len(text) : text[i] = "#"
     THEN Read("string", Characters(SubSeq(text, hashes + 3, end - 1))) ELSE Refused

IsBareInterpolation(text) == Char(text, 1) \notin {"'", "\"", "backtick"} /\ "(" \in ToSet(text)

QuotedString(quote, body) ==
  IF body = Refused THEN Refused ELSE IF quote = "\"" THEN Unescape(body.value) ELSE Read("string", Characters(body.value))

ParseStringLiteral(text) ==
  CASE text[1] \in {"'", "\""} -> QuotedString(text[1], Unquoted(text))
    [] text[1] = "backtick" /\ Len(text) >= 2 /\ Last(text) = "backtick" -> Read("string", Characters(Front(Tail(text))))
    [] OTHER -> Read("string", Characters(text))

----------------------------------------------------------------------------
(* Interpolated strings, in the lexer and in the parser.                   *)

(* The delimiters open inside a subexpression after c (interp_subexpr_step). *)
InterpStep(stack, c) ==
  IF Last(stack) # ")" THEN IF c = Last(stack) THEN Front(stack) ELSE stack
  ELSE CASE c \in {"'", "\"", "backtick"} -> Append(stack, c)
         [] c = "(" -> Append(stack, ")")
         [] c = ")" -> Front(stack)
         [] OTHER -> stack

Escapes(stack, c) == Last(stack) = "\"" /\ c = "\\"

Part(kind, first, last) == [kind |-> kind, first |-> first, last |-> last]
TextPart(first, last) == IF first > last THEN <<>> ELSE <<Part("text", first, last)>>

(* Mutant: a parenthesis is text after any backslash. *)
EscapedParen(s, double) == double /\ s.after

IsText(s, double) == double /\ s.odd

PartsOf(body, double) ==
  LET start == [parts |-> <<>>, from |-> 1, stack |-> <<>>, odd |-> FALSE, after |-> FALSE, skip |-> FALSE]
      text(s, i) == IF body[i] = "(" /\ ~IsText(s, double)
                    THEN [s EXCEPT !.parts = @ \o TextPart(s.from, i - 1), !.from = i, !.stack = <<")">>,
                                   !.odd = FALSE, !.after = FALSE]
                    ELSE [s EXCEPT !.odd = body[i] = "\\" /\ ~@, !.after = body[i] = "\\"]
      expression(s, i) ==
        LET stack == InterpStep(s.stack, body[i])
        IN CASE Escapes(s.stack, body[i]) -> [s EXCEPT !.skip = i < Len(body)]
             [] stack = <<>> -> [s EXCEPT !.parts = Append(@, Part("expression", s.from, i)), !.from = i + 1, !.stack = stack]
             [] OTHER -> [s EXCEPT !.stack = stack]
      end == FoldLeftDomain(LAMBDA s, i : CASE s.skip -> [s EXCEPT !.skip = FALSE]
                                            [] ~s.skip /\ s.stack = <<>> -> text(s, i)
                                            [] OTHER -> expression(s, i), start, body)
  IN IF end.stack # <<>> THEN Refused ELSE Read("parts", end.parts \o TextPart(end.from, Len(body)))

WithoutBrokenText(body, parts) ==
  LET broken(part) == part.kind = "text" /\ Unescape(SubSeq(body, part.first, part.last)) = Refused
  IN IF parts # Refused /\ \E part \in ToSet(parts.value) : broken(part) THEN Refused ELSE parts

ParseInterpolation(body, double) == IF double THEN WithoutBrokenText(body, PartsOf(body, double)) ELSE PartsOf(body, double)

(* The subexpressions the lexer finds in the body of a $ string, if the     *)
(* string ends where the body does (item_length).                          *)
LexedGroups(body, double) ==
  LET quote == IF double THEN "\"" ELSE "'"
      start == [groups |-> {}, from |-> 0, stack |-> <<>>, skip |-> FALSE, closed |-> FALSE]
      string(s, i) == CASE body[i] = "\\" /\ double -> [s EXCEPT !.skip = TRUE]
                        [] body[i] = quote -> [s EXCEPT !.closed = TRUE]
                        [] body[i] = "(" -> [s EXCEPT !.from = i, !.stack = <<")">>]
                        [] OTHER -> s
      group(s, i) ==
        LET stack == InterpStep(s.stack, body[i])
        IN CASE Escapes(s.stack, body[i]) -> [s EXCEPT !.skip = TRUE]
             [] stack = <<>> -> [s EXCEPT !.groups = @ \cup {<<s.from, i>>}, !.stack = stack]
             [] OTHER -> [s EXCEPT !.stack = stack]
      end == FoldLeftDomain(LAMBDA s, i : CASE s.skip -> [s EXCEPT !.skip = FALSE]
                                            [] ~s.skip /\ s.stack = <<>> -> string(s, i)
                                            [] OTHER -> group(s, i), start, body)
  IN IF end.closed \/ end.skip \/ end.stack # <<>> THEN NONE ELSE Read("groups", end.groups)

ParseStringInterpolation(text) ==
  LET dollar == Char(text, 1) = "$" /\ Char(text, 2) \in {"\"", "'"}
      body == IF dollar THEN Unquoted(Tail(text)) ELSE Read("string", text)
      parts(b) == IF b = Refused THEN Refused ELSE ParseInterpolation(b.value, dollar /\ text[2] = "\"")
  IN parts(body)

ParseString(text) ==
  CASE text = <<>> -> Refused
    [] Char(text, 1) = "r" /\ Char(text, 2) = "#" -> ParseRawString(text)
    [] OTHER -> IF text # <<>> /\ IsBareInterpolation(text) THEN ParseStringInterpolation(text) ELSE ParseStringLiteral(text)

----------------------------------------------------------------------------
(* Cell paths: a token is ".", "?", "!" or the text of a member.           *)

(* a(b) is no string, "'a" an unclosed one and -1 no row. *)
IsMember(token) == token \notin {"a(b)", "'a", "-1"}
Member(token) == [name |-> token, optional |-> FALSE, insensitive |-> FALSE]

(* Mutant: a member may be marked twice. *)
MarkedAgain(member, token) == token \in {"?", "!"}

MayMark(member, token) == (token = "?" /\ ~member.optional) \/ (token = "!" /\ ~member.insensitive)

PathToken(s, token) ==
  LET last == Len(s.members)
      member == s.members[last]
  IN CASE s.expects = "member" /\ IsMember(token) -> [s EXCEPT !.members = Append(@, Member(token)), !.expects = "mark"]
       [] s.expects \in {"dot", "mark"} /\ token = "." -> [s EXCEPT !.expects = "member"]
       [] s.expects = "mark" /\ token # "." /\ MayMark(member, token) ->
            [s EXCEPT !.members[last] = IF token = "?" THEN [@ EXCEPT !.optional = TRUE] ELSE [@ EXCEPT !.insensitive = TRUE]]
       [] OTHER -> [s EXCEPT !.expects = "nothing"]

ParseCellPath(tokens, expectDot) ==
  LET start == [members |-> <<>>, expects |-> IF expectDot THEN "dot" ELSE "member"]
      end == FoldLeft(PathToken, start, tokens)
  IN IF end.expects = "nothing" THEN Refused ELSE Read("path", end.members)

(* A head with members after it; (a)b is an interpolation, and the row     *)
(* variable heads a path that has none (parse_full_cell_path).             *)
ParseFullCellPath(tokens, implicit) ==
  CASE tokens = <<>> -> Refused
    [] tokens # <<>> /\ tokens[1] = "(a)b" -> Read("interpolation", <<>>)
    [] tokens # <<>> /\ tokens[1] \in {"(a)", "[a]", "{a: 1}", "$x"} -> ParseCellPath(Tail(tokens), TRUE)
    [] OTHER -> IF implicit THEN ParseCellPath(tokens, FALSE) ELSE Refused

----------------------------------------------------------------------------
(* Ranges.                                                                 *)

Dots(text, i) == Char(text, i) = "." /\ Char(text, i + 1) = "."

(* Mutant: operators are found inside parentheses too. *)
AnyDepth(text, i) == 0

Depth(text, i) ==
  Cardinality({j \in 1..i : text[j] = "("}) - Cardinality({j \in 1..i : text[j] = ")"})

(* Where the operators are; a .. is not looked into. *)
FindRangeOperators(text) ==
  FoldLeftDomain(LAMBDA found, i :
      IF Dots(text, i) /\ Depth(text, i) = 0 /\ (found = <<>> \/ Last(found) # i - 1) THEN Append(found, i) ELSE found,
    <<>>, text)

(* Where the group the text opens with closes (the lexer's group_end). *)
GroupEnd(text) ==
  IF Char(text, 1) # "(" THEN 0 ELSE SelectInSubSeq([i \in DOMAIN text |-> Depth(text, i)], 1, Len(text), LAMBDA d : d = 0)

IsRangeBound(text) ==
  ParseInt(text) # NONE \/ IsFloat(text) \/ Char(text, 1) = "$" \/ GroupEnd(text) > 0

Cut(text, found) ==
  LET last == Last(found)
      size == IF Char(text, last + 2) \in {"<", "="} THEN 3 ELSE 2
  IN [from |-> SubSeq(text, 1, found[1] - 1), next |-> IF Len(found) = 2 THEN SubSeq(text, found[1] + 2, last - 1) ELSE <<>>,
      stepped |-> Len(found) = 2, exclusive |-> Char(text, last + 2) = "<",
      to |-> From(text, last + size), at |-> last]

Split(text) == Cut(text, FindRangeOperators(text))

Exclusive(text, i) == Dots(text, i) /\ Char(text, i + 2) = "<"

IsRangeCut(text, range) ==
  /\ \A i \in DOMAIN text : Exclusive(text, i) /\ (\A j \in 1..(i - 1) : ~Exclusive(text, j)) => i = range.at
  /\ range.from # <<>> \/ range.to # <<>>
  /\ \A bound \in {range.from, range.next, range.to} : bound # <<>> => IsRangeBound(bound)
  /\ range.stepped => range.next # <<>>

IsRangeSyntax(text) ==
  /\ Len(FindRangeOperators(text)) \in {1, 2}
  /\ ~(Dots(text, 1) /\ Char(text, 3) = ".")
  /\ IsRangeCut(text, Split(text))

NotIdentifier == {".", "[", "(", "{", "+", "-", "*", "^", "%", "/", "=", "!", "<", ">", "&", "|"}
IsIdentifier(name) == name # <<>> /\ ToSet(name) \cap NotIdentifier = {}

(* What a cell path may go on with after its head. *)
IsTail(text) ==
  LET stop(i) == SelectInSubSeq(text, i + 1, Len(text), LAMBDA c : c \in {".", "?", "!"})
      member(i) == SubSeq(text, i + 1, (IF stop(i) = 0 THEN Len(text) + 1 ELSE stop(i)) - 1)
      negative(i) == IF ParseInt(member(i)) = NONE THEN FALSE ELSE ParseInt(member(i)).value < 0
  IN /\ text # <<>> => text[1] = "."
     /\ \A i \in DOMAIN text : text[i] = "." => "(" \notin ToSet(member(i)) /\ ~negative(i)

(* A bound is parsed as a number, or as an expression, which may not be an  *)
(* interpolation: (1)a is one.                                             *)
IsBound(text) ==
  LET stop == SelectInSeq(text, LAMBDA c : c \in {".", "?", "!"})
      head == IF stop = 0 THEN text ELSE SubSeq(text, 1, stop - 1)
      tail(size) == IsTail(From(text, size + 1))
  IN CASE Char(text, 1) = "$" -> tail(Len(head)) /\ (IsIdentifier(Tail(head)) \/ (head = <<"$">> /\ Len(text) > 1))
       [] Char(text, 1) = "(" -> tail(GroupEnd(text))
       [] OTHER -> ParseNumber(text) # Refused

ParseBounds(range) ==
  IF \A bound \in {range.from, range.next, range.to} : bound # <<>> => IsBound(bound)
  THEN Read("range", [from |-> range.from, next |-> range.next, exclusive |-> range.exclusive, to |-> range.to])
  ELSE Refused

ParseRange(text) == ParseBounds(Split(text))

----------------------------------------------------------------------------
(* A word as any value, and as a declared shape.                           *)

Words == [bool |-> {<<"true">>, <<"false">>}, nothing |-> {<<"null">>}]

(* A reader either reads the word, refuses it, or leaves it to the next. *)
Reading(text, kind) ==
  CASE kind \in {"bool", "nothing"} -> IF text \in Words[kind] THEN Read(kind, text) ELSE NONE
    [] kind = "binary" -> ParseBinary(text)
    [] kind = "range" -> IF IsRangeSyntax(text) THEN ParseRange(text) ELSE NONE
    [] kind = "filesize" -> ParseFilesize(text)
    [] kind = "duration" -> ParseDuration(text)
    [] kind = "datetime" -> IF IsDatetime(text) THEN Read("datetime", text) ELSE NONE
    [] kind = "int" -> ParseInt(text)
    [] kind = "radix" -> IF Radix(text) # 0 THEN Refused ELSE NONE
    [] kind = "float" -> ParseFloat(text)
    [] OTHER -> ParseString(text)

AnyValue == <<"nothing", "bool", "binary", "range", "filesize", "duration", "datetime", "int", "radix", "float", "string">>

(* Like nu: true, false and null are no strings, and a number in a radix    *)
(* that is no int is refused as any value is.                              *)
Readers(text, shape) ==
  CASE shape = "any" \/ (shape = "int" /\ ParseInt(text) = NONE /\ Radix(text) # 0) -> AnyValue
    [] shape = "number" -> <<"int", "float">>
    [] shape = "string" -> IF text \in Words.bool \cup Words.nothing THEN <<>> ELSE <<"string">>
    [] shape = "int" /\ ~(ParseInt(text) = NONE /\ Radix(text) # 0) -> <<"int">>
    [] OTHER -> IF shape \in ToSet(AnyValue) THEN <<shape>> ELSE <<>>

(* A bare word where a value of the shape is expected. *)
WordOfShape(text, shape) ==
  LET readers == Readers(text, shape)
      first(readings) == IF readings = <<>> THEN Refused ELSE Head(readings)
  IN first(SelectSeq([i \in DOMAIN readers |-> Reading(text, readers[i])], LAMBDA reading : reading # NONE))

ParseAnyValue(text) == WordOfShape(text, "any")

(* The words a line that is a math expression may begin with. *)
IsMathExpressionLike(text) ==
  \/ text \in {<<"true">>, <<"false">>, <<"null">>, <<"not">>, <<"if">>, <<"match">>}
  \/ Char(text, 1) \in {"(", "{", "[", "$", "\"", "'", "-"}
  \/ Char(text, 1) = "r" /\ Char(text, 2) = "#"
  \/ ParseInt(text) # NONE \/ IsFloat(text) \/ IsDatetime(text) \/ LooksLikeBinary(text) \/ IsRangeSyntax(text)
  \/ ParseFilesize(text).out = "filesize" \/ ParseDuration(text).out = "duration"

----------------------------------------------------------------------------
(* The texts under study, written from what they mean.                     *)

Upto(n, kinds) == UNION {[1..k -> kinds] : k \in 0..n}

RECURSIVE Digits(_, _)
Digits(n, radix) == IF n < radix THEN <<HexDigits[n + 1]>> ELSE Append(Digits(n \div radix, radix), HexDigits[(n % radix) + 1])

Filled(n, size, radix) == [i \in 1..(size - Len(Digits(n, radix))) |-> "0"] \o Digits(n, radix)

RadixPrefix(radix) == CASE radix = 16 -> <<"0", "x">> [] radix = 8 -> <<"0", "o">> [] radix = 2 -> <<"0", "b">> [] OTHER -> <<>>

(* n with a separator before its last digit if asked for. *)
WrittenInt(n, radix, separated) ==
  LET digits == IF radix = 10 THEN Digits(IF n < 0 THEN -n ELSE n, 10) ELSE Digits(IF n < 0 THEN n + 2 ^ Bits ELSE n, radix)
  IN (IF radix = 10 /\ n < 0 THEN <<"-">> ELSE RadixPrefix(radix))
     \o (IF separated THEN Front(digits) \o <<"_", Last(digits)>> ELSE digits)

(* The bytes in full, but for the first zeros, in two halves. *)
WrittenBinary(bytes, radix, zeros, half) ==
  LET digits == From(FlattenSeq([i \in DOMAIN bytes |-> Filled(bytes[i], DigitsPerByte(radix), radix)]), zeros + 1)
  IN RadixPrefix(radix) \o <<"[">> \o SubSeq(digits, 1, half) \o <<" ">> \o From(digits, half + 1) \o <<"]">>

WrittenDate(date) ==
  Filled(date.year, 4, 10) \o <<"-">> \o Filled(date.month, 2, 10) \o <<"-">> \o Filled(date.day, 2, 10) \o date.time

Enclosed(quote, body) ==
  CASE quote \in {"r#", "r##"} ->
         LET hashes == IF quote = "r#" THEN <<"#">> ELSE <<"#", "#">>
         IN <<"r">> \o hashes \o <<"'">> \o body \o <<"'">> \o hashes
    [] quote = "" -> body
    [] OTHER -> <<quote>> \o body \o <<quote>>

(* The texts that end where the quote does for the lexer. *)
Encloses(quote, body) ==
  CASE quote = "r#" -> \A i \in 1..(Len(body) - 1) : ~(body[i] = "'" /\ body[i + 1] = "#")
    [] quote = "r##" -> \A i \in 1..(Len(body) - 2) : ~(body[i] = "'" /\ body[i + 1] = "#" /\ body[i + 2] = "#")
    [] quote = "" -> body # <<>> /\ ToSet(body) \cap {"'", "\"", "backtick", "(", "r"} = {}
    [] OTHER -> quote \notin ToSet(body)

Marks(member, flipped) ==
  CASE member.optional /\ member.insensitive -> IF flipped THEN <<"!", "?">> ELSE <<"?", "!">>
    [] member.optional /\ ~member.insensitive -> <<"?">>
    [] ~member.optional /\ member.insensitive -> <<"!">>
    [] OTHER -> <<>>

WrittenPath(members, flipped) ==
  FlattenSeq([i \in DOMAIN members |-> <<".", members[i].name>> \o Marks(members[i], flipped[i])])

WrittenRange(from, next, dots, to) == from \o (IF next = <<>> THEN <<>> ELSE <<".", ".">> \o next) \o <<".", ".">> \o dots \o to

InitLiterals ==
  \/ \E pieces \in Upto(MaxPieces, Pieces) : input = <<"word", FlattenSeq(pieces)>>
  \/ \E n \in -(2 ^ (Bits - 1))..(2 ^ (Bits - 1) - 1), radix \in {2, 8, 10, 16}, separated \in BOOLEAN :
       input = <<"int", WrittenInt(n, radix, separated), n>>
  \/ \E bytes \in Upto(MaxBytes, Binaries), radix \in {2, 8, 16} :
       \E zeros \in 0..(IF bytes = <<>> \/ bytes[1] # 1 THEN 0 ELSE DigitsPerByte(radix) - 1), half \in 0..(IF bytes = <<>> THEN 0 ELSE 1) :
          input = <<"binary", WrittenBinary(bytes, radix, zeros, half), bytes>>
  \/ \E date \in Dates, time \in Times : input = <<"date", WrittenDate(date @@ [time |-> time]), <<date.year, date.month, date.day>>>>
  \/ \E pieces \in Upto(MaxPieces, StringPieces) :
       input = <<"escapes", Enclosed("\"", FlattenSeq([i \in DOMAIN pieces |-> pieces[i].text])),
                 [i \in DOMAIN pieces |-> pieces[i].unit]>>
  \/ \E body \in Upto(MaxBody, BodyCharacters) :
       \/ \E quote \in {"", "'", "backtick", "r#", "r##"} :
            Encloses(quote, body) /\ input = <<"string", Enclosed(quote, body), Characters(body)>>
       \/ \E double \in BOOLEAN : LexedGroups(body, double) # NONE /\ input = <<"body", body, double>>
  \/ \E tokens \in Upto(MaxTokens, PathTokens) : input = <<"path", tokens>>
  \/ \E from \in Bounds, next \in Bounds, to \in Bounds, dots \in {<<>>, <<"<">>, <<"=">>} :
       /\ from # <<>> \/ to # <<>>
       /\ ~IsPrefix(<<".", ".", ".">>, WrittenRange(from, next, dots, to))
       /\ input = <<"range", WrittenRange(from, next, dots, to),
                    [from |-> from, next |-> next, exclusive |-> dots = <<"<">>, to |-> to]>>

Literal ==
  /\ result = Unparsed
  /\ \/ input[1] \in {"word", "date", "int", "binary"} /\ result' = ParseAnyValue(input[2])
     \/ input[1] \in {"escapes", "string"} /\ result' = ParseString(input[2])
     \/ input[1] = "range" /\ result' = (IF IsRangeSyntax(input[2]) THEN ParseRange(input[2]) ELSE NONE)
  /\ UNCHANGED input

Interpolation ==
  /\ result = Unparsed /\ input[1] = "body"
  /\ result' = ParseInterpolation(input[2], input[3])
  /\ UNCHANGED input

Path ==
  /\ result = Unparsed /\ input[1] = "path"
  /\ result' = ParseFullCellPath(<<"$x">> \o input[2], FALSE)
  /\ UNCHANGED input

----------------------------------------------------------------------------
(* Properties.                                                             *)

WordShapes == {"bool", "nothing", "binary", "range", "filesize", "duration", "datetime", "int"}

(* parse_any_value tries the kinds of literal in one order, a parameter's   *)
(* default only the kind of its shape, and a line is a math expression if   *)
(* its first word is any of them: a word is read as the same kind by all    *)
(* three, so no reader commits to a word that another one would read.       *)
WordHasOneReading ==
  LET word == input[2]
      math == IsMathExpressionLike(word)
  IN Parsed("word") /\ Char(word, 1) \notin {"", "$", "("} =>
       /\ \A shape \in WordShapes : WordOfShape(word, shape).out = shape <=> result.out = shape
       /\ result.out = "float" => WordOfShape(word, "float").out = "float" /\ WordOfShape(word, "number").out = "float"
       /\ result.out \notin {"string", "parts", "refused"} => math
       /\ result.out \in {"string", "parts"} => ~math \/ word[1] = "-"

(* Days since 0000-03-01 and back: a date is on the calendar if it is the    *)
(* day that many days after the first.                                     *)
DayNumber(y, m, d) ==
  LET year == IF m <= 2 THEN y - 1 ELSE y
      month == (m + 9) % 12
  IN 365 * year + year \div 4 - year \div 100 + year \div 400 + (153 * month + 2) \div 5 + d - 1

DateOf(n) ==
  LET era == n \div 146097
      day == n % 146097
      year == (day - day \div 1460 + day \div 36524 - day \div 146096) \div 365
      inYear == day - (365 * year + year \div 4 - year \div 100)
      shifted == (5 * inYear + 2) \div 153
      month == IF shifted < 10 THEN shifted + 3 ELSE shifted - 9
  IN <<year + era * 400 + (IF month <= 2 THEN 1 ELSE 0), month, inYear - (153 * shifted + 2) \div 5 + 1>>

(* A date is a literal exactly if the calendar has it, whatever time        *)
(* follows (is_datetime, days_in_month): 1900-02-29 is none.                *)
DatesAreOnTheCalendar ==
  Parsed("date") =>
    LET date == input[3]
    IN result.out = "datetime" <=> date[2] \in 1..12 /\ DateOf(DayNumber(date[1], date[2], date[3])) = date

(* Literals mean what they were written from: an int of any radix within    *)
(* the width, a binary however its digits are split or its zeros left out,  *)
(* a string in any quotes; escapes decode to UTF-8 or are refused.          *)
LiteralReadsBack ==
  /\ Parsed("int") => result.out = "int" /\ result.value = input[3]
  /\ Parsed("binary") => result.out = "binary" /\ result.value = input[3]
  /\ Parsed("string") => result.out = "string" /\ result.value = input[3]
  /\ Parsed("escapes") => IF \A i \in DOMAIN input[3] : (input[3][i].byte = 195) = (i < Len(input[3]) /\ input[3][i + 1].byte = 169)
                             /\ (input[3][i].byte = 169 => i > 1) /\ input[3][i].byte >= 0
                          THEN result.out = "string" /\ result.value = input[3] ELSE result = Refused

(* What the members of a cell path say, no more and no less, is written in  *)
(* it, but for the order of ? and ! and one last dot (parse_cell_path).     *)
PathReadsBack ==
  Parsed("path") /\ result # Refused =>
    \E flipped \in [DOMAIN result.value -> BOOLEAN] :
      LET path == WrittenPath(result.value, flipped) IN input[2] \in {path, Append(path, ".")}

(* A range is cut at the same operators by the check that it is one and by  *)
(* its parser, wherever its bounds have dots or parentheses of their own.   *)
RangeReadsBack ==
  /\ Parsed("range") => result.out = "range" /\ result.value = input[3]
  /\ Parsed("word") /\ result.out = "range" =>
       LET dots == IF result.value.exclusive THEN {<<"<">>} ELSE {<<>>, <<"=">>}
       IN \E d \in dots : input[2] = WrittenRange(result.value.from, result.value.next, d, result.value.to)

(* The parts of an interpolated string are its body without a gap, and the  *)
(* expressions are the groups the lexer matched to find its end: the two    *)
(* count backslashes and quotes in different ways.                         *)
PartsCoverTheBody ==
  Parsed("body") /\ result # Refused =>
    LET parts == result.value
    IN /\ \A i \in DOMAIN parts : parts[i].first = IF i = 1 THEN 1 ELSE parts[i - 1].last + 1
       /\ input[2] # <<>> => parts # <<>> /\ Last(parts).last = Len(input[2])
       /\ {<<p.first, p.last>> : p \in {q \in ToSet(parts) : q.kind = "expression"}} = LexedGroups(input[2], input[3]).value
=============================================================================
