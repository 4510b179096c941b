---------------------------- MODULE MCKeywords ----------------------------
(***************************************************************************)
(* Instances of Keywords for TLC: for each keyword, every statement of a   *)
(* few items over the kinds its parser tells apart.                        *)
(***************************************************************************)
EXTENDS Keywords

Flag == {"--help", "--", "-x"}

StatementsOf(keywords, kinds, n) == keywords \X UNION {[1..k -> Flag \cup kinds] : k \in 0..n}

DefinitionItems == {"word", "number", "list", "list:", "rest", "empty", ":", "->"}

KeywordStatements == UNION {
  StatementsOf({"if"}, {"word", "==", "empty", "record", "else"}, 5),
  StatementsOf({"match"}, {"word", "list:", "arms", "record", "block", "var"}, 4),
  StatementsOf({"while", "where"}, {"word", "==", "block", "record", "list:"}, 4),
  StatementsOf({"loop", "return", "break", "continue"}, {"word", "list:", "block", "record", "->"}, 4),
  StatementsOf({"try"}, {"catch", "finally", "empty", "closure", "record"}, 5),
  {<<"try", <<"empty", "catch", "empty", "finally", "var">> \o more>> :
     more \in UNION {[1..k -> Flag \cup {"catch", "empty"}] : k \in 0..2}},
  StatementsOf({"def"}, DefinitionItems \cup {"--wrapped"}, 4),
  {<<keyword, <<name, "list", "empty">>>> :
     keyword \in {"def", "extern"}, name \in {"def", "keyword", "decls", "block", "null", "name:"}},
  StatementsOf({"extern"}, DefinitionItems, 4),
  {<<keyword, <<"word", "list", ":", "word", "->", "word">> \o more>> :
     keyword \in {"def", "extern"}, more \in UNION {[1..k -> Flag \cup {"empty", "word"}] : k \in 0..2}},
  StatementsOf({"for"}, {"word", "name:", "in", "block"}, 5),
  {<<"for", <<"name:", "word", "in">> \o more>> :
     more \in UNION {[1..k -> Flag \cup {"list", "block"}] : k \in 0..3}},
  StatementsOf({"let", "mut", "const"}, {"word", "name:", "use", "number", "==", "=", "+=", ":"}, 4),
  StatementsOf({"alias"}, {"word", "keyword", "def", "number", "list", "->", "=", "block"}, 4),
  StatementsOf({"module"}, {"word", "var", "null", "empty", "decls", "block"}, 4),
  StatementsOf({"use"}, {"word", "null", "number", "*", "list", "record", "block", "="}, 4),
  StatementsOf({"export-env"}, {"word", "block", "record"}, 4),
  StatementsOf({"export"}, Exportable \cup {"word", "=", "empty", "list"}, 4)}

UseStatements == StatementsOf({"use"}, {"word", "null", "*", "list"}, 4)
============================================================================
