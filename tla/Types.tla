------------------------------- MODULE Types -------------------------------
(***************************************************************************)
(* Types (parser/parse_shape_specs.rs): annotations such as                *)
(* record<a: int, b>.  A type is a record: its name and, in angle          *)
(* brackets, its own tokens.                                               *)
(***************************************************************************)
EXTENDS Naturals, Sequences, SequencesExt

Type(name, given, params) == [text |-> name, given |-> given, params |-> params]
Plain(text) == Type(text, FALSE, <<>>)

SimpleTypes == {"any", "int", "string"}
Shape(name, fields) == [name |-> name, fields |-> fields]
NoShape == Shape("none", <<>>)
Field(name, type) == [name |-> name, type |-> type]
HasError(fields) == \E i \in 1..Len(fields) : fields[i].type = NoShape

(* Mutant: a name is taken with the token after it. *)
PairWidth(tokens) ==
  IF tokens[1].text = "," THEN 1 ELSE IF Len(tokens) > 1 /\ tokens[2].text = ":" THEN 3 ELSE 2

(* The tokens of record<...> and table<...>: a comma alone, or a name, then *)
(* `:` and a type, a comma, or nothing.                                    *)
FieldWidth(tokens) ==
  CASE tokens[1].text = "," -> 1
    [] Len(tokens) > 1 /\ tokens[1].text # "," /\ tokens[2].text = ":" -> 3
    [] Len(tokens) > 1 /\ tokens[1].text # "," /\ tokens[2].text = "," -> 2
    [] OTHER -> 1

RECURSIVE ParseType(_), NamedTypeParams(_)

NamedTypeParams(tokens) ==
  LET width == FieldWidth(tokens)
      name == tokens[1].text
      rest == IF width > Len(tokens) THEN <<>> ELSE NamedTypeParams(SubSeq(tokens, width + 1, Len(tokens)))
      type == CASE width # 3 -> Shape("any", <<>>)
                [] width = 3 /\ Len(tokens) = 2 -> NoShape
                [] OTHER -> ParseType(tokens[3])
  IN CASE tokens = <<>> -> <<>>
       [] tokens # <<>> /\ name = "," -> rest
       [] tokens # <<>> /\ name = "$x" -> <<Field(name, NoShape)>>
       [] OTHER -> <<Field(name, type)>> \o rest

(* The comma-separated types of list<...> and oneof<...>: the lexer takes   *)
(* the commas for whitespace.                                              *)
TypeParams(tokens) ==
  LET types == SelectSeq(tokens, LAMBDA token : token.text # ",")
  IN [i \in 1..Len(types) |-> Field("", ParseType(types[i]))]

ParseType(type) ==
  LET fields == IF type.text \in {"record", "table"} THEN NamedTypeParams(type.params) ELSE TypeParams(type.params)
  IN CASE type.text \in SimpleTypes -> IF type.given THEN NoShape ELSE Shape(type.text, <<>>)
       [] type.text \in {"list", "oneof", "record", "table"} ->
            IF HasError(fields) \/ (type.text = "list" /\ Len(fields) > 1) THEN NoShape ELSE Shape(type.text, fields)
       [] OTHER -> NoShape

Optionally(condition, tokens) == IF condition THEN tokens ELSE <<>>

(* A field of a record type: its name, its type when it has one, its comma. *)
WrittenField(f) ==
  <<Plain(f.name)>> \o Optionally(f.type # Plain(""), <<Plain(":"), f.type>>) \o Optionally(f.comma, <<Plain(",")>>)

WrittenRecord(fs) == Type("record", TRUE, FlattenSeq([i \in 1..Len(fs) |-> WrittenField(fs[i])]))
=============================================================================
