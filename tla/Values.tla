------------------------------- MODULE Values -------------------------------
(***************************************************************************)
(* Values (parser/parse_expressions.rs), match patterns                    *)
(* (parser/parse_patterns.rs) and math expressions: what brackets, braces  *)
(* and words are read as where a shape is expected, and how operators bind. *)
(*                                                                         *)
(* An item is a word, or a group with the items inside it and the text     *)
(* after its closing bracket.  Groups in parentheses, and the bodies of    *)
(* closures and blocks, are not looked into: they are pipelines.  Type     *)
(* annotations (module Types) are read here too: they nest like values.    *)
(***************************************************************************)
EXTENDS Literals

CONSTANTS
  Expressions,  \* values to be written and read back
  Arms,         \* match arms to be written and read back
  Interiors,    \* families of brackets: [open, kinds, most, shapes]
  TypeFields,   \* the fields record types are written from
  Operands,     \* the operands of math expressions
  Operators,    \* their operators
  MaxOperands   \* how many operands one may have

T == INSTANCE Types

----------------------------------------------------------------------------
(* Items and expressions.                                                  *)

Word(text) == [open |-> "", inner |-> <<>>, text |-> text]
Group(open, inner) == [open |-> open, inner |-> inner, text |-> <<>>]
SpreadItem(item) == [open |-> "...", inner |-> <<item>>, text |-> <<>>]

IsWord(item, text) == item.open = "" /\ item.text = text
Opens(item) == IF item.open = "" /\ Char(item.text, 1) = "$" THEN "$" ELSE item.open

Contents(item) ==
  IF item.open # "" THEN "Item"
  ELSE CASE item.text = <<"|">> -> "Pipe" [] item.text = <<"||">> -> "PipePipe" [] item.text = <<";">> -> "Semicolon"
         [] item.text = <<"#">> -> "Comment" [] item.text = <<"\n">> -> "Eol" [] item.text = <<"=">> -> "Assignment"
         [] item.text \in {<<"o>">>, <<"e>">>} -> "Redirection" [] OTHER -> "Item"

E(kind, parts) == [kind |-> kind, parts |-> parts, text |-> <<>>]
Bad == E("refused", <<>>)
Leaf(reading, text) == IF reading = Refused THEN Bad ELSE [kind |-> reading.out, parts |-> <<>>, text |-> text]

(* One bad part spoils the whole. *)
Made(kind, parts) == IF Bad \in ToSet(parts) THEN Bad ELSE E(kind, parts)

Shape(name) == [name |-> name, of |-> <<>>, declared |-> FALSE]
Declared(name, of) == [name |-> name, of |-> of, declared |-> TRUE]

Spreads(item, heads) == item.open = "..." /\ Opens(item.inner[1]) \in heads

(* The items of an interior, comments, newlines and commas dropped. *)
Significant(inner) == SelectSeq(inner, LAMBDA item : Contents(item) \notin {"Comment", "Eol"} /\ item.text # <<",">>)

----------------------------------------------------------------------------
(* A colon is a token of its own in a key, and part of a value.            *)

Colon == Word(<<":">>)

(* Mutant: a value is split like a key. *)
SplitValue(items) ==
  LET text == Head(items).text
      at == SelectInSeq(text, LAMBDA c : c = ":")
  IN IF Head(items).open # "" \/ at <= 1 THEN <<Head(items), Tail(items)>>
     ELSE <<Word(SubSeq(text, 1, at - 1)), <<Word(From(text, at))>> \o Tail(items)>>

ValueToken(items) == <<Head(items), Tail(items)>>

KeyToken(items) ==
  LET text == Head(items).text
      at == SelectInSeq(text, LAMBDA c : c = ":")
      size == IF at = 1 THEN 1 ELSE at - 1
  IN IF Head(items).open # "" \/ at = 0 \/ Len(text) = size THEN <<Head(items), Tail(items)>>
     ELSE <<Word(SubSeq(text, 1, size)), <<Word(From(text, size + 1))>> \o Tail(items)>>

RECURSIVE KeyTokens(_)
KeyTokens(items) == IF items = <<>> THEN <<>> ELSE <<KeyToken(items)[1]>> \o KeyTokens(KeyToken(items)[2])

(* What the first two tokens say a { } is; a comma is one of them. *)
BraceShape(inner) ==
  LET shape(probe) ==
        CASE probe = <<>> -> "empty"
          [] probe # <<>> /\ Contents(probe[1]) \in {"Pipe", "PipePipe"} -> "closure"
          [] OTHER -> IF Len(probe) > 1 /\ probe[2] = Colon THEN "record"
                      ELSE IF Spreads(probe[1], {"{", "$", "("}) THEN "spread" ELSE "other"
  IN shape(KeyTokens(SelectSeq(inner, LAMBDA item : Contents(item) \notin {"Comment", "Eol"})))

(* nu refuses a bare word with a colon in it as a key or a value. *)
ColonInBareWord(value) ==
  value.kind \in {"string", "parts"} /\ value.text # <<>> /\ value.text[1] \notin {"'", "\"", "backtick", "$", "r"} /\ ":" \in ToSet(value.text)

(* The groups of a list: cut at pipes, redirections and their targets left *)
(* out, everything after an = taken as it is (lite_parse_parts).           *)
LiteParts(items) ==
  LET start == [groups |-> <<>>, parts |-> <<>>, redirected |-> {}, assigned |-> FALSE, target |-> FALSE, ok |-> TRUE]
      step(s, item) ==
        CASE s.target -> [s EXCEPT !.target = FALSE, !.ok = @ /\ Contents(item) = "Item"]
          [] ~s.target /\ (s.assigned \/ Contents(item) \in {"Item", "Assignment"}) ->
               [s EXCEPT !.parts = Append(@, item), !.assigned = @ \/ Contents(item) = "Assignment"]
          [] OTHER ->
               CASE Contents(item) = "Pipe" -> [s EXCEPT !.groups = Append(@, s.parts), !.parts = <<>>, !.redirected = {}]
                 [] Contents(item) = "Redirection" ->
                      [s EXCEPT !.ok = @ /\ s.parts # <<>> /\ item.text \notin s.redirected,
                                !.redirected = @ \cup {item.text}, !.target = TRUE]
                 [] OTHER -> [s EXCEPT !.ok = FALSE]
      end == FoldLeft(step, start, items)
      dangling == items # <<>> /\ Contents(Last(items)) = "Pipe"
  IN IF end.ok /\ ~end.target /\ ~dangling THEN [ok |-> TRUE, groups |-> Append(end.groups, end.parts)]
     ELSE [ok |-> FALSE, groups |-> <<>>]

HasSemicolon(items) == \E i \in DOMAIN items : Contents(items[i]) = "Semicolon"

----------------------------------------------------------------------------
(* Values.                                                                 *)

RECURSIVE ParseValue(_, _)

ParseListItem(item, element) ==
  CASE Spreads(item, {"[", "$", "("}) -> Made("spread", <<ParseValue(item.inner[1], Shape("any"))>>)
    [] Contents(item) # "Item" -> Leaf(Read("string", <<>>), item.text)
    [] OTHER -> ParseValue(item, element)

ParseItems(items, element) ==
  LET elements(all) == Made("list", [i \in DOMAIN all |-> ParseListItem(all[i], element)])
      list(read) == IF read.ok THEN elements(FlattenSeq(read.groups)) ELSE Bad
  IN IF HasSemicolon(items) THEN Bad ELSE list(LiteParts(items))

(* A header or a row: a list without spreads. *)
ParseTableRow(item) ==
  LET spreadless(row) == IF \E i \in DOMAIN row.parts : row.parts[i].kind = "spread" THEN Bad ELSE row
  IN IF item.open # "[" \/ item.text # <<>> THEN Bad ELSE spreadless(ParseItems(Significant(item.inner), Shape("any")))

IsStringy(column) == column.kind \in {"string", "parts", "var", "path", "subexpression"}

Fits(row, columns) == Len(row.parts) = Len(columns.parts)

(* The header, which a semicolon follows, and the rows. *)
ParseTable(items) ==
  LET table(rows) ==
        IF /\ Len(rows) > 1 /\ \A i \in DOMAIN rows : rows[i] # Bad /\ Fits(rows[i], rows[1])
           /\ \A i \in DOMAIN rows[1].parts : IsStringy(rows[1].parts[i])
        THEN E("table", rows) ELSE Bad
      lists == RemoveAt(items, 2)
  IN table([i \in DOMAIN lists |-> ParseTableRow(lists[i])])

ParseList(inner, element) ==
  LET list(items) == IF Len(items) > 1 /\ items[1].open = "[" /\ Contents(items[2]) = "Semicolon" THEN ParseTable(items)
                     ELSE ParseItems(items, element)
  IN list(Significant(inner))

(* A key or a value, and the items after it. *)
RecordPart(token, name) ==
  LET checked(value) == IF ColonInBareWord(value) THEN Bad ELSE value
  IN IF Contents(token[1]) # "Item" THEN Bad ELSE checked(ParseValue(token[1], Shape(name)))

RECURSIVE RecordItems(_)
RecordItems(items) ==
  LET pair(key, token) == <<Made("pair", <<key, RecordPart(token, "any")>>)>> \o RecordItems(token[2])
      colon(key, token) == IF token[1] = Colon /\ token[2] # <<>> THEN pair(key, ValueToken(token[2])) ELSE <<Bad>>
      item(token) ==
        IF Spreads(token[1], {"{", "$", "("})
        THEN <<Made("spread", <<ParseValue(token[1].inner[1], Shape("any"))>>)>> \o RecordItems(token[2])
        ELSE IF token[2] = <<>> THEN <<Bad>> ELSE colon(RecordPart(token, "string"), KeyToken(token[2]))
  IN IF items = <<>> THEN <<>> ELSE item(KeyToken(items))

ParseRecord(inner) == Made("record", RecordItems(Significant(inner)))

(* A group with members after it is the head of a cell path. *)
Full(head, item) == IF item.text = <<>> \/ head = Bad THEN head ELSE IF IsTail(item.text) THEN E("path", <<head>>) ELSE Bad

(* A parameter list that opens closes. *)
ParseClosure(inner) ==
  LET tokens == SelectSeq(inner, LAMBDA item : Contents(item) # "Eol")
  IN IF tokens # <<>> /\ Contents(tokens[1]) = "Pipe" /\ \A i \in 2..Len(tokens) : Contents(tokens[i]) # "Pipe" THEN Bad
     ELSE E("closure", <<>>)

ParseBrace(item, shape) ==
  LET reading(looks) ==
        IF looks = "closure" THEN "closure"
        ELSE IF looks # "record" /\ shape.name = "match arm body" THEN "block"
        ELSE IF (looks # "record" /\ shape.name = "closure") \/ (looks = "other" /\ shape.name = "any") THEN "closure"
        ELSE IF looks = "other" THEN "neither" ELSE "record"
      brace(kind) ==
        CASE kind = "block" -> E("block", <<>>)
          [] kind = "closure" -> ParseClosure(item.inner)
          [] kind = "record" -> Full(ParseRecord(item.inner), item)
          [] OTHER -> Bad
  IN brace(IF item.text # <<>> THEN "record" ELSE reading(BraceShape(item.inner)))

(* The text of an item, spaces left out. *)
RECURSIVE ItemText(_)
ItemText(item) ==
  LET inside == FlattenSeq([i \in DOMAIN item.inner |-> ItemText(item.inner[i])])
  IN CASE item.open = "" -> item.text
       [] item.open = "..." -> <<"...">> \o inside
       [] OTHER -> <<item.open>> \o inside \o <<Closer[item.open]>> \o item.text

(* A group or a spread read as a word: a ( in it makes it an interpolation. *)
BareString(item) == Leaf(Read(IF "(" \in ToSet(ItemText(item)) THEN "parts" ELSE "string", <<>>), ItemText(item))

(* A spread where none is expected. *)
SpreadWord(item, name) == IF name \in {"any", "string"} THEN BareString(item) ELSE Bad

ParseBareWord(item, name) ==
  CASE item.open = "..." -> SpreadWord(item, name)
    [] Opens(item) = "$" -> IF IsIdentifier(Tail(item.text)) THEN E("var", <<>>) ELSE Bad
    [] OTHER -> IF name \in {"any", "string", "number"} THEN Leaf(WordOfShape(item.text, name), item.text) ELSE Bad

(* The word as a variable keeps its name. *)
Named(value, item) == IF value.kind \in {"var", "refused"} THEN [value EXCEPT !.text = IF value = Bad THEN <<>> ELSE item.text] ELSE value

(* The first shape of a oneof that the value parses as. *)
ParseOneof(item, shapes) ==
  LET first(values) == IF values = <<>> THEN Bad ELSE Head(values)
  IN first(SelectSeq([i \in DOMAIN shapes |-> ParseValue(item, shapes[i])], LAMBDA value : value # Bad))

ParseValueForShape(item, shape) ==
  CASE Opens(item) \in {"$", "("} -> ParseValue(item, Shape("any"))
    [] Opens(item) = "{" -> ParseBrace(item, Shape(IF shape.name \in {"any", "closure"} THEN shape.name ELSE "string"))
    [] Opens(item) \in {"[", "", "..."} /\ shape.name = "oneof" -> ParseOneof(item, shape.of)
    [] Opens(item) = "[" /\ shape.name # "oneof" ->
         CASE shape.name \in {"any", "table"} -> ParseValue(item, Shape("any"))
           [] shape.name = "list" -> IF item.text # <<>> THEN Bad
                                     ELSE ParseList(item.inner, IF shape.of = <<>> THEN Shape("any") ELSE shape.of[1])
           [] shape.name = "string" -> BareString(item)
           [] OTHER -> Bad
    [] OTHER -> IF item.open = "..." THEN SpreadWord(item, shape.name) ELSE Leaf(WordOfShape(item.text, shape.name), item.text)

ParseValue(item, shape) ==
  IF shape.declared THEN ParseValueForShape(item, shape)
  ELSE CASE item.open = "(" -> IF shape.name = "signature" THEN E("garbage", <<>>) ELSE Full(E("subexpression", <<>>), item)
         [] item.open = "{" -> ParseBrace(item, shape)
         [] item.open = "[" ->
              CASE shape.name = "signature" -> E("garbage", <<>>)
                [] shape.name = "string" -> BareString(item)
                [] shape.name = "number" -> Bad
                [] OTHER -> Full(ParseList(item.inner, Shape("any")), item)
         [] OTHER -> Named(ParseBareWord(item, shape.name), item)

----------------------------------------------------------------------------
(* Match patterns.                                                         *)

Reserved == {"in", "nu", "env"}

VariablePattern(text) ==
  IF IsIdentifier(Tail(text)) /\ ToSet(Tail(text)) \cap Reserved = {} THEN [E("variable", <<>>) EXCEPT !.text = Tail(text)] ELSE Bad

IsRestMarker(item) == item.open = "" /\ Dots(item.text, 1) /\ Char(item.text, 3) \in {"", "$"}

RestPattern(item) ==
  IF Len(item.text) = 2 THEN E("ignore rest", <<>>) ELSE Made("rest", <<VariablePattern(From(item.text, 3))>>)

RECURSIVE ParsePattern(_)

(* The items of a group after a rest marker are ignored, as in nu. *)
ListPattern(inner) ==
  LET items == SelectSeq(inner, LAMBDA item : Contents(item) # "Comment" /\ item.text \notin {<<",">>, <<"\n">>})
      group(g) ==
        LET rest == SelectInSeq(g, IsRestMarker)
        IN [i \in 1..(IF rest = 0 THEN Len(g) ELSE rest) |-> IF i = rest THEN RestPattern(g[i]) ELSE ParsePattern(g[i])]
      list(read) == IF read.ok THEN Made("list pattern", FlattenSeq([i \in DOMAIN read.groups |-> group(read.groups[i])])) ELSE Bad
  IN IF HasSemicolon(items) THEN Bad ELSE list(LiteParts(items))

RECURSIVE RecordFields(_)
RecordFields(tokens) ==
  LET key == tokens[1]
      field(pattern) == [Made("field", <<pattern>>) EXCEPT !.text = IF pattern = Bad THEN <<>> ELSE key.text]
  IN IF tokens = <<>> THEN <<>>
     ELSE IF Opens(key) = "$" THEN <<VariablePattern(key.text)>> \o RecordFields(Tail(tokens))
     ELSE IF Len(tokens) < 3 \/ tokens[2] # Colon THEN <<Bad>>
     ELSE <<field(ParsePattern(tokens[3]))>> \o RecordFields(From(tokens, 4))

ParsePattern(item) ==
  CASE Opens(item) = "$" -> VariablePattern(item.text)
    [] Opens(item) = "{" -> IF item.text # <<>> THEN Bad ELSE Made("record pattern", RecordFields(KeyTokens(Significant(item.inner))))
    [] Opens(item) = "[" -> IF item.text # <<>> THEN Bad ELSE ListPattern(item.inner)
    [] OTHER -> IF IsWord(item, <<"_">>) THEN E("ignore", <<>>) ELSE ParseValue(item, Shape("any"))

----------------------------------------------------------------------------
(* Math expressions.                                                       *)

Comparisons == {"==", "!=", "<", "<=", ">", ">=", "=~", "!~", "in", "not-in", "has", "not-has",
                "starts-with", "not-starts-with", "ends-with", "not-ends-with"}

Power(operator) ==
  CASE operator = "**" -> 100 [] operator \in {"*", "/", "mod", "//"} -> 95 [] operator \in {"+", "-"} -> 90
    [] operator \in {"bit-shl", "bit-shr"} -> 85 [] operator \in Comparisons \cup {"++"} -> 80 [] operator = "bit-and" -> 75
    [] operator = "bit-xor" -> 70 [] operator = "bit-or" -> 60 [] operator = "and" -> 50 [] operator = "xor" -> 45
    [] operator = "or" -> 40 [] OTHER -> 0

(* Two comparisons have a second spelling; what has no power is no operator. *)
FromSpelling(text) ==
  CASE text = "like" -> "=~" [] text = "not-like" -> "!~" [] OTHER -> IF Power(text) > 0 THEN text ELSE ""

IsRightAssociative(operator) == operator = "**"

(* winnow's expression: the power the right operand's operators need. *)
RightPower(operator) == IF IsRightAssociative(operator) THEN Power(operator) - 1 ELSE Power(operator) + 1

OperatorAt(tokens, i) == IF tokens[i].open = "" /\ Len(tokens[i].text) = 1 THEN FromSpelling(tokens[i].text[1]) ELSE ""

Operand(value, first, last) == [op |-> "", value |-> value, first |-> first, last |-> last, sub |-> <<>>]
NoTree == Operand(Bad, 0, 0)

(* Mutant: the operator is looked for after the start of the left operand. *)
SecondToken(left) == left.first + 1

TokenAfter(left) == left.last + 1

FoldBinaryOp(tokens, left, right) ==
  IF right = NoTree THEN NoTree
  ELSE [op |-> OperatorAt(tokens, TokenAfter(left)), value |-> E("operator", <<>>), first |-> left.first, last |-> right.last,
        sub |-> <<left, right>>]

(* An if takes the rest of the items, but not after a not. *)
ParseOperand(tokens, i) ==
  LET at == SelectInSubSeq(tokens, i, Len(tokens), LAMBDA item : ~IsWord(item, <<"not">>))
      operand(value) == IF value = Bad THEN NoTree ELSE Operand(value, i, at)
  IN IF i > Len(tokens) \/ at = 0 THEN NoTree
     ELSE IF IsWord(tokens[i], <<"if">>) THEN Operand(E("if", <<>>), i, Len(tokens))
     ELSE operand(ParseValue(tokens[at], Shape("any")))

RECURSIVE ParseOperators(_, _, _)

(* The operators after left that bind as much as power asks for. *)
RECURSIVE Climb(_, _, _)
Climb(tokens, left, power) ==
  LET at == left.last + 1
      operator == OperatorAt(tokens, at)
  IN IF left = NoTree \/ at > Len(tokens) THEN left
     ELSE IF operator = "" THEN NoTree
     ELSE IF Power(operator) < power THEN left
     ELSE Climb(tokens, FoldBinaryOp(tokens, left, ParseOperators(tokens, at + 1, RightPower(operator))), power)

ParseOperators(tokens, i, power) == Climb(tokens, ParseOperand(tokens, i), power)

ParseMathExpression(tokens) == ParseOperators(tokens, 1, 0)

(* The operands of a where condition that are columns of the row: strings   *)
(* to the left of an operator, or alone (expand_row_condition).            *)
RECURSIVE Columns(_)
Columns(tree) ==
  IF tree.op = "" THEN IF tree.value.kind = "string" THEN {tree.first} ELSE {}
  ELSE Columns(tree.sub[1]) \cup (IF tree.sub[2].op = "" THEN {} ELSE Columns(tree.sub[2]))

----------------------------------------------------------------------------
(* Match blocks.                                                           *)

Arrow == Word(<<"=>">>)

(* The alternatives of a pattern from i on: the last of them, and all. *)
RECURSIVE Alternatives(_, _)
Alternatives(tokens, i) ==
  LET more == IF i < Len(tokens) /\ Contents(tokens[i + 1]) = "Pipe" THEN Alternatives(tokens, i + 2)
              ELSE [last |-> i, patterns |-> <<>>]
  IN IF i > Len(tokens) \/ Contents(tokens[i]) # "Item" THEN [last |-> i, patterns |-> <<Bad>>]
     ELSE [more EXCEPT !.patterns = <<ParsePattern(tokens[i])>> \o @]

OrPattern(patterns) == IF Len(patterns) = 1 THEN patterns[1] ELSE Made("or", patterns)

ArmBody(item) ==
  IF item.open # "" \/ IsMathExpressionLike(item.text)
  THEN ParseValue(item, Shape(IF item.open = "{" THEN "match arm body" ELSE "any"))
  ELSE [E("call", <<>>) EXCEPT !.text = item.text]

(* What is between a pattern and its arrow: nothing, or an if. *)
Guard(tokens) ==
  IF tokens = <<>> THEN E("no guard", <<>>)
  ELSE IF IsWord(tokens[1], <<"if">>) /\ ParseMathExpression(Tail(tokens)) # NoTree THEN E("guard", <<>>) ELSE Bad

(* A match block is read part by part: the arms that are done, the parts    *)
(* of the arm at hand, and the tokens that are left.                       *)
ArmsRead(tokens, done, arm) == [out |-> "arms", tokens |-> tokens, done |-> done, arm |-> arm]

(* The part that comes next, and the tokens after it. *)
Add(arms, part, tokens) == IF part = Bad THEN Read("value", Bad) ELSE ArmsRead(tokens, arms.done, Append(arms.arm, part))

AddPattern(arms) ==
  LET add(read) == Add(arms, OrPattern(read.patterns), From(arms.tokens, read.last + 1))
  IN add(Alternatives(arms.tokens, 1))

AddGuard(arms) ==
  LET arrow == SelectInSeq(arms.tokens, LAMBDA item : item = Arrow)
  IN IF arrow = 0 THEN Read("value", Bad)
     ELSE Add(arms, Guard(SubSeq(arms.tokens, 1, arrow - 1)), From(arms.tokens, arrow + 1))

AddBody(arms) ==
  LET arm(body) == IF body = Bad THEN Read("value", Bad)
                   ELSE ArmsRead(Tail(arms.tokens), Append(arms.done, E("arm", Append(arms.arm, body))), <<>>)
  IN IF arms.tokens = <<>> THEN Read("value", Bad)
     ELSE IF Contents(arms.tokens[1]) # "Item" THEN Read("value", Bad) ELSE arm(ArmBody(arms.tokens[1]))

----------------------------------------------------------------------------
(* The items under study, written from what they mean.                     *)

Separated(items, style) ==
  CASE style = "commas" -> items \o <<Word(<<",">>)>> [] style = "comments" -> items \o <<Word(<<"#">>), Word(<<"\n">>)>> [] OTHER -> items

RECURSIVE Written(_, _)
WrittenAll(parts, style) == FlattenSeq([i \in DOMAIN parts |-> Separated(<<Written(parts[i], style)>>, style)])

(* A key and its value: a:1 where the style leaves no spaces. *)
WrittenPair(key, value, style) ==
  IF style = "glued" /\ value.open = "" THEN <<Word(key.text \o <<":">> \o value.text)>> ELSE <<key, Colon, value>>

WrittenFields(parts, style) ==
  LET field(part) ==
        CASE part.kind = "pair" -> WrittenPair(Written(part.parts[1], style), Written(part.parts[2], style), style)
          [] part.kind = "field" -> WrittenPair(Word(part.text), Written(part.parts[1], style), style)
          [] OTHER -> <<Written(part, style)>>
  IN FlattenSeq([i \in DOMAIN parts |-> Separated(field(parts[i]), style)])

Written(e, style) ==
  CASE e.kind \in {"list", "list pattern"} -> Group("[", WrittenAll(e.parts, style))
    [] e.kind \in {"record", "record pattern"} -> Group("{", WrittenFields(e.parts, style))
    [] e.kind = "table" -> Group("[", <<Written(e.parts[1], style), Word(<<";">>)>> \o WrittenAll(Tail(e.parts), style))
    [] e.kind = "spread" -> SpreadItem(Written(e.parts[1], style))
    [] e.kind = "path" -> [Written(e.parts[1], style) EXCEPT !.text = <<".", "a">>]
    [] e.kind = "closure" -> Group("{", <<Word(<<"||">>), Word(<<"a">>)>>)
    [] e.kind = "block" -> Group("{", <<Word(<<"a">>)>>)
    [] e.kind = "subexpression" -> Group("(", <<>>)
    [] e.kind = "variable" -> Word(<<"$">> \o e.text)
    [] e.kind = "ignore" -> Word(<<"_">>)
    [] e.kind = "ignore rest" -> Word(<<".", ".">>)
    [] e.kind = "rest" -> Word(<<".", ".", "$">> \o e.parts[1].text)
    [] OTHER -> Word(e.text)

WrittenArm(arm, style) ==
  LET pattern == arm.parts[1]
      alternatives == IF pattern.kind = "or" THEN pattern.parts ELSE <<pattern>>
      guard == IF arm.parts[2].kind = "guard" THEN <<Word(<<"if">>), Word(<<"$", "x">>), Word(<<"==">>), Word(<<"1">>)>> ELSE <<>>
      written(i) == (IF i = 1 THEN <<>> ELSE <<Word(<<"|">>)>>) \o <<Written(alternatives[i], style)>>
  IN FlattenSeq([i \in DOMAIN alternatives |-> written(i)]) \o guard
     \o Separated(<<Arrow, Written(arm.parts[3], style)>>, style)

MathTokens(operands, operators) ==
  FlattenSeq([i \in DOMAIN operands |-> (IF i = 1 THEN <<>> ELSE <<Word(<<operators[i - 1]>>)>>) \o operands[i]])

Styles == {"plain", "commas", "comments", "glued"}

InitValues ==
  \/ \E e \in Expressions, style \in Styles : input = <<"value", Written(e, style), Shape("any"), e>>
  \/ \E arms \in Upto(2, Arms), style \in Styles :
       input = <<"match", FlattenSeq([i \in DOMAIN arms |-> WrittenArm(arms[i], style)]), Made("match", arms)>>
  \/ \E family \in Interiors : \E inner \in Upto(family.most, family.kinds), shape \in family.shapes :
       input = <<"brackets", Group(family.open, inner), shape>>
  \/ \E fields \in Upto(2, TypeFields) : input = <<"type", fields>>
  \/ \E n \in 1..MaxOperands : \E operands \in [1..n -> Operands], operators \in [1..(n - 1) -> Operators] :
       input = <<"math", operands, operators>>

Value ==
  /\ result = Unparsed /\ input[1] \in {"value", "brackets"}
  /\ result' = Read("value", ParseValue(input[2], input[3]))
  /\ UNCHANGED input

(* A record type written from these fields. *)
TypeAnnotation ==
  /\ result = Unparsed /\ input[1] = "type"
  /\ result' = Read("value", T!ParseType(T!WrittenRecord(input[2])))
  /\ UNCHANGED input

MatchBlock ==
  /\ result = Unparsed /\ input[1] = "match"
  /\ result' = ArmsRead(Significant(input[2]), <<>>, <<>>)
  /\ UNCHANGED input

Reads(parts) == result.out = "arms" /\ Len(result.arm) = parts

ArmPattern == Reads(0) /\ result.tokens # <<>> /\ result' = AddPattern(result) /\ UNCHANGED input
ArmGuard == Reads(1) /\ result' = AddGuard(result) /\ UNCHANGED input
ArmValue == Reads(2) /\ result' = AddBody(result) /\ UNCHANGED input

MatchEnd ==
  /\ Reads(0) /\ result.tokens = <<>>
  /\ result' = Read("value", E("match", result.done))
  /\ UNCHANGED input

RowCondition ==
  /\ result = Unparsed /\ input[1] = "math"
  /\ LET condition(tree) == [out |-> "math", value |-> tree, columns |-> Columns(tree)]
     IN result' = condition(ParseMathExpression(MathTokens(input[2], input[3])))
  /\ UNCHANGED input

Init == (InitLiterals \/ InitValues) /\ result = Unparsed

Next == Literal \/ Interpolation \/ Path \/ Value \/ TypeAnnotation \/ RowCondition
        \/ MatchBlock \/ ArmPattern \/ ArmGuard \/ ArmValue \/ MatchEnd

Spec == Init /\ [][Next]_vars

----------------------------------------------------------------------------
(* Properties.                                                             *)

(* A record type reads back as the fields it was written from, a name       *)
(* without a type being of any, with commas or without.                    *)
RecordTypeRead ==
  LET fields == input[2]
      type(f) == IF f.type = T!Plain("") THEN T!Shape("any", <<>>) ELSE T!ParseType(f.type)
      bad(f) == f.name = "$x" \/ type(f) = T!NoShape
  IN Parsed("type") =>
       result.value = IF \E i \in 1..Len(fields) : bad(fields[i]) THEN T!NoShape
                      ELSE T!Shape("record", [i \in 1..Len(fields) |-> T!Field(fields[i].name, type(fields[i]))])

(* Whatever the separators, comments and spaces, a value or a match block   *)
(* is read as what it was written from: the shape of a brace, the keys,     *)
(* rows and arms are told apart by a few tokens of look-ahead.  What any    *)
(* other bracket is read as reads back too, and its tables have rows as     *)
(* wide as their header; and so does a record type.                        *)
CollectionReadsBack ==
  /\ Parsed("value") => result.value = input[4]
  /\ Parsed("match") /\ result.out # "arms" => result.value = input[3]
  /\ Parsed("brackets") /\ result.value.kind \in {"list", "record", "table"} =>
       /\ ParseValue(Written(result.value, "plain"), input[3]) = result.value
       /\ result.value.kind = "table" =>
            \A row \in ToSet(result.value.parts) : row.kind = "list" /\ Len(row.parts) = Len(result.value.parts[1].parts)
  /\ RecordTypeRead

(* The tree the precedences call for: the operator that binds least is the  *)
(* root, the last one of its level, or the first if it is right-associative. *)
RECURSIVE Bound(_, _, _)
Bound(operators, first, last) ==
  LET levels == {Power(operators[i]) : i \in first..(last - 1)}
      least == CHOOSE p \in levels : \A q \in levels : p <= q
      roots == {i \in first..(last - 1) : Power(operators[i]) = least}
      leftmost == CHOOSE i \in roots : \A j \in roots : i <= j
      rightmost == CHOOSE i \in roots : \A j \in roots : i >= j
      root == IF IsRightAssociative(operators[leftmost]) THEN leftmost ELSE rightmost
  IN IF first = last THEN [op |-> "", sub |-> <<>>]
     ELSE [op |-> operators[root], sub |-> <<Bound(operators, first, root), Bound(operators, root + 1, last)>>]

RECURSIVE Skeleton(_)
Skeleton(tree) == [op |-> tree.op, sub |-> [i \in DOMAIN tree.sub |-> Skeleton(tree.sub[i])]]

(* Operators bind by their precedence, all to the left but **, and each is  *)
(* found again at its place when its operands are folded; in a where        *)
(* condition exactly the words that end up left of an operator are columns. *)
OperatorsBindByPrecedence ==
  Parsed("math") =>
    LET operands == input[2]
        operators == [i \in DOMAIN input[3] |-> FromSpelling(input[3][i])]
        swallow == SelectInSeq(operands, LAMBDA operand : IsWord(operand[1], <<"if">>))
        last == IF swallow = 0 THEN Len(operands) ELSE swallow
        before(i) == Len(MathTokens(SubSeq(operands, 1, i - 1), operators)) + (IF i = 1 THEN 0 ELSE 1)
        tighter(i) == Power(operators[i]) > Power(operators[i - 1]) \/ (operators[i] = operators[i - 1] /\ IsRightAssociative(operators[i]))
        left(i) == last = 1 \/ (i < last /\ (i = 1 \/ tighter(i)))
    IN /\ Skeleton(result.value) = Bound(operators, 1, last)
       /\ result.columns = {before(i) + 1 : i \in {j \in 1..last : left(j) /\ IsWord(Last(operands[j]), <<"a">>)}}
=============================================================================
