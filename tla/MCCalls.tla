------------------------------ MODULE MCCalls ------------------------------
(***************************************************************************)
(* Instances of Calls for TLC: every keyword command with up to three      *)
(* arguments of every kind, the four heads with every argument, and words  *)
(* of up to four pieces.                                                   *)
(***************************************************************************)
EXTENDS Calls

Common == {Item("", body, "none") : body \in {"word", "null", "{a:1}", "as"}}
Marks == {Item("--", "", "none"), Item("-", "1", "none"), Item("...", "$v", "none"), Item("--", "help", "none")}
Flags(signature) ==
  {Item("--", f.long, value) : f \in signature.flags, value \in {"none", "given"}} \cup
  {Item("-", f.short, "none") : f \in {g \in signature.flags : g.short # ""}} \cup {Item("--", "unknown", "none")}

Anything == {Item("", body, "none") : body \in {"word", "list", "list.x", "$v", "quoted"}} \cup
            {Item("...", body, "none") : body \in {"word", "list", "list.x", "{a:1}"}} \cup
            {Item("--", "x", value) : value \in {"none", "missing", "given"}} \cup
            {Item("-", body, "none") : body \in {"", "..5"}}

Command(name, items, lenient) ==
  [sigil |-> "", head |-> "word", name |-> name, items |-> items, lenient |-> lenient,
   table |-> FALSE, known |-> FALSE, builtin |-> FALSE]

Family(names, items, kinds, most) ==
  [calls |-> {Command(name, items, lenient) : name \in names, lenient \in BOOLEAN}, kinds |-> kinds, most |-> most]

KeywordCommands == {<<"hide">>, <<"source">>, <<"run">>, <<"overlay", "new">>, <<"overlay", "hide">>, <<"plugin", "use">>}
Bareword(body) == Item("", body, "none")

Headed ==
  {call \in [sigil : {"", "^", "%"}, head : {"word", "", "$v", "(ls)", "list", "quoted"}, name : {<<"cmd">>},
             items : {<<>>}, lenient : {FALSE}, table : BOOLEAN, known : BOOLEAN, builtin : BOOLEAN] :
     /\ call.builtin => call.known /\ call.table
     /\ call.sigil = "" => call.head = "word"}

MCCallFamilies ==
  {Family({name}, <<>>, Common \cup Marks \cup Flags(KeywordSignature(name)), 3) : name \in KeywordCommands} \cup
  {Family({<<"overlay">>}, <<Bareword(sub)>>, Common \cup Marks \cup {Item("-", "p", "none")}, 3) : sub \in {"use", "list", "other"}} \cup
  {Family({<<"overlay">>}, <<Bareword("use"), Bareword("word"), Bareword("as")>>, Common \cup Marks, 2),
   [calls |-> Headed, kinds |-> Anything, most |-> 2]}

MCAttributeNames == {"", "unknown", "category", "deprecated", "example", "interactive", "search-terms"}
MCAttributeItems ==
  Common \cup Marks \cup {Item("--", "flag", value) : value \in {"none", "missing", "given"}} \cup {Item("--", "result", "none")}

MCPieces == {<<"x">>, <<"$">>, <<"\\">>, <<")">>, <<"'", "(", "x", "'">>, <<"'", "\\", "'">>,
             <<"\"", "\\", "\"", "(", "\"">>, <<"\"", "'", "\"">>, <<"backtick", "'", "(", "backtick">>,
             <<"(", "x", ")">>, <<"(", "(", ")", "x", ")">>, <<"$", "\"", "x", "\"">>, <<"$", "'", "(", ")", "'">>}

MCSignatureTokens ==
  {[most |-> 3, kinds |-> {":", "=", ",", "#c", "|", "x", "x?", "...x", "--x", "--x(-s)", "-s", "(-s)", "(-st)",
                           "in", "int", "bool", "int@c", "int@", "5"}],
   [most |-> 5, kinds |-> {":", "=", ",", "x", "...x", "--x", "(-s)", "int", "5"}],
   [most |-> 6, kinds |-> {"=", "x", "x?", "5"}]}

MCParameters ==
  [name : {"x", "x?", "...x", "--x", "--x(-s)", "-s"}, short : BOOLEAN, type : {"", "int", "bool"},
   default : {"", "5", "x"}, comma : BOOLEAN]
============================================================================
