------------------------------ MODULE MCValues ------------------------------
(* The literals, values, patterns and operators that TLC reads.            *)
EXTENDS Values

Ones == {<<"0">>, <<"1">>, <<"-">>, <<"+">>, <<"_">>, <<"e">>, <<"b">>, <<"k", "b">>, <<"day">>, <<".">>, <<".", ".">>, <<"$", "x">>}
MCPieces == Ones \cup {<<"0", "x">>, <<"0", "b">>, <<"0", "b", "[">>, <<"]">>, <<"|">>, <<"(", "a", ")">>, <<"<">>, <<"true">>, <<"inf">>}

MCBounds == {<<>>, <<"1">>, <<"-", "1">>, <<".", "1">>, <<"0", "x", "f">>, <<"$", "x">>, <<"$", "x", ".", "a">>, <<"(", "a", ")">>,
             <<"(", "1", ".", ".", "1", ")">>, <<"(", "(", "a", ")", ".", "a", ")", ".", "a">>}

MCDates == [year : {1900, 2000, 2023, 2024}, month : {0, 1, 2, 4, 12, 13}, day : {0, 1, 28, 29, 30, 31, 32}]
Clock == <<"T", "2", "3", ":", "5", "9", ":", "6", "0">>
MCTimes == {<<>>, Clock, Clock \o <<".", "1">>, Clock \o <<"Z">>, Clock \o <<".", "1", "+", "0", "1", ":", "0", "0">>}

StringPiece(text, unit) == [text |-> text, unit |-> unit]
MCStringPieces ==
  {StringPiece(<<c>>, OfChar(c)) : c \in {"a", "'", "("}} \cup
  {StringPiece(<<"\\", c>>, OfChar(c)) : c \in {"\\", "\"", "("}} \cup
  {StringPiece(<<"\\", "n">>, OfByte(10)), StringPiece(<<"\\", "x", "c", "3">>, OfByte(195)),
   StringPiece(<<"\\", "x", "a", "9">>, OfByte(169)), StringPiece(<<"\\", "x", "a", "y">>, BrokenEscape),
   StringPiece(<<"\\", "u", "{", "e", "9", "}">>, OfPoint(233)), StringPiece(<<"\\", "u", "{", "d", "8", "0", "0", "}">>, BrokenEscape),
   StringPiece(<<"\\", "y">>, BrokenEscape)}

MCBodyCharacters == {"(", ")", "'", "\"", "\\", "a"}

Text(kind, text) == [kind |-> kind, parts |-> <<>>, text |-> text]
Simple == {Text("int", <<"1">>), Text("string", <<"a">>), Text("string", <<"'", ":", "'">>), Text("var", <<"$", "x">>)}
Spreading(kind) == E("spread", <<E(kind, <<>>)>>)
Keys == {Text("string", <<"a">>), Text("string", <<"1">>), Text("var", <<"$", "x">>)}
Pairs == {E("pair", <<key, value>>) : key \in Keys, value \in Simple \cup {E("list", <<>>), E("closure", <<>>)}}
Fields == Pairs \cup {Spreading("subexpression"), E("spread", <<Text("var", <<"$", "x">>)>>)}
Records == {E("record", fields) : fields \in Upto(2, Fields)}
Cells == {Text("int", <<"1">>), Text("string", <<"a">>)}
ListsOf(n, parts) == {E("list", cells) : cells \in Upto(n, parts)}
Tables == {E("table", rows) : rows \in UNION {{[i \in 1..k |-> E("list", IF i = 1 THEN [j \in 1..w |-> Text("string", <<"a">>)] ELSE [j \in 1..w |-> Text("int", <<"1">>)])] : k \in 2..3} : w \in 0..2}}
Values1 == Simple \cup {E("closure", <<>>), E("subexpression", <<>>)} \cup ListsOf(1, Cells) \cup {Spreading("subexpression")}
MCExpressions ==
  (Simple \cup ListsOf(3, Values1) \cup Records \cup Tables)
  \cup {E("path", <<head>>) : head \in ListsOf(1, Cells) \cup {E("record", <<>>), E("subexpression", <<>>)}}
  \cup {E("list", <<value>>) : value \in Records \cup Tables}

Variable == Text("variable", <<"x">>)
Patterns1 == {Variable, E("ignore", <<>>), Text("int", <<"1">>), Text("string", <<"a">>)}
NamedField(pattern) == [E("field", <<pattern>>) EXCEPT !.text = <<"a">>]
Patterns2 ==
  {E("list pattern", p \o r) : p \in Upto(2, Patterns1 \ {Text("string", <<"a">>)}), r \in {<<>>, <<E("ignore rest", <<>>)>>, <<E("rest", <<Variable>>)>>}} \cup
  {E("record pattern", f) : f \in Upto(2, {Variable} \cup {NamedField(p) : p \in Patterns1 \ {Text("string", <<"a">>)}})}
MCPatterns == Patterns1 \cup {E("or", <<p, q>>) : p \in Patterns1, q \in Patterns1 \cup {E("list pattern", <<Variable>>)}}
Bodies == {Text("int", <<"1">>), Text("call", <<"a">>), E("block", <<>>), E("closure", <<>>), E("record", <<E("pair", <<Text("string", <<"a">>), Text("int", <<"1">>)>>)>>)}
ArmsOf(patterns, guards, bodies) == {E("arm", <<p, E(g, <<>>), b>>) : p \in patterns, g \in guards, b \in bodies}
MCArms == ArmsOf(Patterns2, {"no guard"}, {Text("int", <<"1">>)}) \cup ArmsOf(MCPatterns, {"no guard", "guard"}, {Text("int", <<"1">>)})
          \cup ArmsOf({Variable}, {"guard"}, Bodies)

W(c) == Word(<<c>>)
Row == {Group("[", cells) : cells \in Upto(2, {W("a"), W("1")})}
MCInteriors ==
  {[open |-> "[", most |-> 4, shapes |-> {Shape("any")},
    kinds |-> {W("a"), W("1"), W("|"), W("="), W("o>"), W(";"), W("#"), Group("[", <<W("a")>>), SpreadItem(W("a")), SpreadItem(Group("[", <<>>))}],
   [open |-> "[", most |-> 4, shapes |-> {Shape("any")}, kinds |-> Row \cup {W(";"), W("a"), Group("[", <<SpreadItem(Group("(", <<>>))>>)}],
   [open |-> "[", most |-> 3, kinds |-> {W("a"), W("1"), W("true"), Group("[", <<>>), Group("{", <<>>), Word(<<"0", "b">>), W("|")},
    shapes |-> {Declared("list", <<Declared(name, <<>>)>>) : name \in {"int", "string", "any", "bool", "closure"}} \cup
               {Declared("oneof", <<Declared("int", <<>>), Declared("list", <<Declared("string", <<>>)>>)>>), Declared("string", <<>>),
                Declared("int", <<>>), Declared("table", <<>>), Shape("string"), Shape("number"), Shape("signature")}],
   [open |-> "{", most |-> 4, shapes |-> {Shape(name) : name \in {"any", "closure", "match arm body", "number", "string"}} \cup {Declared("int", <<>>)},
    kinds |-> {W("a"), W(":"), Word(<<"a", ":">>), Word(<<"a", ":", "1">>), W("|"), W(","), W("#"), SpreadItem(Group("(", <<>>)), Group("[", <<>>)}]}

P(text) == T!Plain(text)
Types == {P(text) : text \in {"", "int", "unknown"}} \cup
         {T!Type("list", TRUE, <<P("int"), P(",")>>), T!Type("list", TRUE, <<P("int"), P("any")>>),
          T!Type("list", FALSE, <<>>), T!Type("int", TRUE, <<>>),
          T!Type("record", TRUE, <<P(","), P("c"), P(":"), P("string")>>),
          T!Type("table", TRUE, <<P("c"), P(":")>>), T!Type("oneof", TRUE, <<P("int"), P("string")>>)}

MCTypeFields == [name : {"a", "b", "$x"}, type : Types, comma : BOOLEAN]

MCOperands == {<<W("a")>>, <<W("1")>>, <<W("not"), W("a")>>, <<W("if")>>}
MCOperators == {"**", "*", "+", "==", "like", "and"}
=============================================================================
