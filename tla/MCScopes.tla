------------------------------ MODULE MCScopes ------------------------------
(***************************************************************************)
(* Small sources for Scopes: up to two lines in a block, the block in one  *)
(* of the constructs that parse it in the same scope, in a new one, in two *)
(* or twice, and a call before or after it.                                *)
(***************************************************************************)
EXTENDS Scopes

MCQuoted == [text \in {"'a b'", "'b c d'", "'w w w w w'", "'w w w w w w'"} |->
               CASE text = "'a b'" -> <<"a", "b">>
                 [] text = "'b c d'" -> <<"b", "c", "d">>
                 [] text = "'w w w w w'" -> <<"w", "w", "w", "w", "w">>
                 [] OTHER -> <<"w", "w", "w", "w", "w", "w">>]

(* No table, and one with a name of two words and the shadowable keyword.  *)
MCTables == {{}, {<<"b">>, <<"b", "c">>, <<"loop">>}}

Calls == {<<"a", "b">>, <<"b", "c", "d">>}

Declarers == {
  <<"def", "'a b'", "[]", "{", "a", "b", "#", "eol", "}">>,
  <<"def", "--help", "'a b'", "[]", "{", "a", "b", "}">>,
  <<"def", "--", "'b c d'", "[]", "{", "k:", "}", "{", "|p|", "}">>,
  <<"export", "extern", "'a b'", "[]", "{", "#", "eol", "}">>,
  <<"extern", "--help", "'b c d'", "[]", "{", "#", "eol", "a", "b", "}">>,
  <<"alias", "'a b'", "=", "b", "c", "d">>,
  <<"def", "loop", "[]", "{", "}">>,
  <<"$x", "=", "def", "'a b'", "[]", "{", "}">>}

Others == {
  <<"module", "m", "{", "k:", "}">>,
  <<"module", "m", "{", "def", "'a b'", "[]", "{", "}", "eol", "}">>,
  <<"loop", "--", "{", "|p|", "a", "}">>,
  <<"loop", "--", "{", "a", "b", "#", "eol", "}">>,
  <<"loop", "{", "loop", "--", "{", "}", "#", "eol", "}", "--help">>,
  <<"a", "{", "|p", "a", "b", "}">>,
  <<"V=1", "a", "b">>,
  <<"$x", "=", "(", "a", "b", ")">>,
  <<"$x", "=", "c">>,
  <<"a", "|", "alias", "'a b'", "=", "c">>,
  <<"b", "c", "|", "a", "b", "#">>}

Line(tokens) == Append(tokens, "eol")

(* Two lines of which one declares or calls.                               *)
Bodies == {Line(a) \o Line(b) : a \in Declarers, b \in Declarers \cup Others \cup Calls}
     \cup {Line(b) \o Line(a) : a \in Declarers, b \in Others \cup Calls}

Braced(body) == <<"{">> \o body \o <<"}">>

Wrapped(body) == {
  body,
  <<"loop">> \o Braced(body),
  <<"loop", "--">> \o Braced(body),
  <<"loop", "--help">> \o Braced(body),
  <<"loop">> \o Braced(body) \o <<"--help">>,
  <<"loop">> \o Braced(body) \o <<"extra">>,
  <<"def", "f", "[]">> \o Braced(body),
  <<"module", "m">> \o Braced(body),
  <<"a">> \o Braced(<<"|p|">> \o body),
  <<"$x", "=", "(">> \o body \o <<")">>}

(* Names of as many words as are looked at, and of one more.               *)
Long == {<<"alias", name, "=", "c", "eol", "w", "w", "w", "w", "w", "w", "w">> : name \in {"'w w w w w'", "'w w w w w w'"}}

MCSources ==
  UNION {{Line(call) \o wrapped : call \in {<<"a", "b">>}} \cup {Line(wrapped) \o call : call \in Calls} :
           wrapped \in UNION {Wrapped(body) : body \in Bodies}}
  \cup Long
=============================================================================
