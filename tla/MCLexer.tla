------------------------------ MODULE MCLexer ------------------------------
(***************************************************************************)
(* Instances of Lexer for TLC.  Texts are all the strings over a small     *)
(* alphabet up to a bound; an alphabet is picked so that its bytes meet.   *)
(***************************************************************************)
EXTENDS LexerReference

Words(alphabet, n) == UNION {[1..k -> alphabet] : k \in 0..n}

Prefixed(heads, tails) == {h \o t : h \in heads, t \in tails}

Lex(texts, opts, n) ==
  [text : texts, options : opts, max_tokens : {n}, first_group : {FALSE}]

NoLimit == 99

(* Tokens, brackets, comments and line ends.  The heads put a comment or a   *)
(* group under way, so that the rest meets it.                              *)
BlockTexts ==
  UNION {Words({"a", "SP", "NL", "CR", "#", "[", "]", "SQ", "|"}, 3),
         Prefixed({<<"[", "SP", "#">>, <<"a", "SP", "#">>, <<"[", "#">>},
                  Words({"a", "NL", "CR", "[", "]", "SQ", "SP"}, 3))}

(* Quotes, escapes and interpolated subexpressions. *)
StringTexts ==
  Prefixed({<<>>, <<"$", "DQ">>, <<"$", "BT">>, <<"[", "$", "DQ", "(">>},
           Words({"DQ", "SQ", "BS", "(", ")"}, 4))

(* Angle brackets, special bytes and skipped comments. *)
SignatureTexts == Words({"a", "SP", ":", "<", ">", "(", ")", "#", "NL"}, 3)
AngleTexts     == Prefixed({<<"a", "<">>}, Words({"a", ":", "<", ">", "(", ")"}, 4))

(* Raw strings, and the words with a | or a > in them. *)
RawTexts ==
  Prefixed({<<"r", "#">>, <<"[", "r", "#">>}, Words({"#", "SQ", "a", "]"}, 4))
WordTexts ==
  UNION {Words({"e", "o", "op", "=", ">", "|", "&", "SP", ";"}, 3),
         Prefixed({<<"2", ">">>}, Words({">", "&", "1", "SP", "|"}, 3))}

(* The first two tokens of a { ... } body. *)
ProbeTexts == Words({"a", "SP", ":", "#", "NL", "["}, 4)

(* Cell paths: special bytes on their own and around an item. *)
PathTexts == Words({"a", ".", "?", "!", "SP", "#", "["}, 3)

(* group_end, on texts that open with a bracket and on texts that do not. *)
GroupTexts ==
  UNION {{<<>>, <<"a">>},
         Prefixed({<<"(">>, <<"[">>},
                  Words({"(", ")", "[", "]", "SQ", "#", "SP", "NL", "a"}, 3))}

GroupCalls == [text : GroupTexts, options : {BLOCK}, max_tokens : {0}, first_group : {TRUE}]

LexerInputs == UNION {
  Lex(BlockTexts, {BLOCK, LIST}, NoLimit),
  Lex(StringTexts, {BLOCK}, NoLimit),
  Lex(SignatureTexts, {SIGNATURE, IO_TYPES, RECORD_KEY}, NoLimit),
  Lex(AngleTexts, {SIGNATURE}, NoLimit),
  Lex(RawTexts, {BLOCK}, NoLimit),
  Lex(WordTexts, {BLOCK}, NoLimit),
  Lex(ProbeTexts, {BRACE_PROBE}, 2),
  Lex(ProbeTexts, {SUBEXPRESSION}, NoLimit),
  Lex(PathTexts, {CELL_PATH}, NoLimit),
  GroupCalls}

(* Form feeds, parentheses and the comment sign, also with a legal comment  *)
(* in a group under way.                                                    *)
FormFeedTexts ==
  UNION {Words({"a", "FF", "#", "(", ")", "SP", "NL"}, 4),
         Prefixed({<<"(", "SP", "#">>}, Words({"(", ")", "NL", "FF", "DQ"}, 4))}

FormFeedInputs == Lex(FormFeedTexts, {BLOCK}, NoLimit)
============================================================================
