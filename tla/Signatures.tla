----------------------------- MODULE Signatures -----------------------------
(***************************************************************************)
(* Signatures (parser/parse_signatures.rs): the parameters of              *)
(* `[a: int, --flag(-f)]`, read token by token.                            *)
(*                                                                         *)
(* The tokens of a signature are strings that stand for what its parser    *)
(* looks at: x?, ...x and --x(-s) are themselves, `in` is a reserved name,  *)
(* #c a comment and | any token that is not an item.                       *)
(***************************************************************************)
EXTENDS Naturals, Sequences, FiniteSets, SequencesExt

VARIABLES input, result

vars == <<input, result>>

----------------------------------------------------------------------------
(* Parameters.                                                             *)

Parameter(kind, name, short) ==
  [kind |-> kind, name |-> name, short |-> short, type |-> 0, default |-> 0, description |-> {}]

NoParameter == Parameter("none", 0, 0)

(* The parameter a token is; its position stands for its text. *)
ParseParameter(text, i, external) ==
  CASE text = "--x" -> Parameter("flag", i, 0)
    [] text = "--x(-s)" -> Parameter("flag", i, i)
    [] text = "-s" -> Parameter("flag", i, i)
    [] text = "x?" -> Parameter("optional", i, 0)
    [] text = "...x" -> Parameter("rest", i, 0)
    [] text = "in" -> IF external THEN Parameter("required", i, 0) ELSE NoParameter
    [] text \in {"x", "5", "int", "bool", "int@c", "int@"} -> Parameter("required", i, 0)
    [] OTHER -> NoParameter

(* The type a token names, its completer cut off at the @. *)
ShapeName(text) == CASE text \in {"int", "int@c"} -> "int" [] text = "bool" -> "bool" [] OTHER -> "none"

Parenthesised == {"(-s)", "(-st)"}

(* A default is parsed with the declared type; an item in parentheses is a  *)
(* value of any.                                                           *)
IsValue(text, type) == type = "none" \/ text \in Parenthesised \/ (type = "int" /\ text = "5")

Refuse(s, why) == [s EXCEPT !.out = why]
LastParameter(s) == s.params[Len(s.params)]

Colon(s, last) ==
  CASE s.mode = "arg" -> IF last THEN Refuse(s, "expected_type") ELSE [s EXCEPT !.mode = "type"]
    [] s.mode \in {"after_comma", "after_type"} -> Refuse(s, "expected_parameter")
    [] s.mode \in {"type", "default"} -> Refuse(s, "expected_type")

Equals(s, last) ==
  CASE s.mode \in {"arg", "after_type"} -> IF last THEN Refuse(s, "expected_default") ELSE [s EXCEPT !.mode = "default"]
    [] OTHER -> Refuse(s, "unexpected_token")

Comma(s) ==
  IF s.mode \in {"arg", "after_type"} THEN [s EXCEPT !.mode = "after_comma"] ELSE Refuse(s, "unexpected_token")

(* `--long (-s)`: a short form for the flag before it. *)
ShortFlag(s, text, i) ==
  CASE s.mode = "after_comma" -> Refuse(s, "expected_parameter")
    [] s.mode # "after_comma" /\ text = "(-st)" -> Refuse(s, "expected_letter")
    [] OTHER -> IF s.params = <<>> \/ LastParameter(s).kind # "flag" THEN Refuse(s, "no_flag")
                ELSE IF LastParameter(s).short # 0 THEN Refuse(s, "has_short_form")
                ELSE [s EXCEPT !.params[Len(s.params)].short = i]

NewParameter(s, text, i, external) ==
  LET parameter == ParseParameter(text, i, external)
  IN IF parameter = NoParameter THEN Refuse(s, "expected_name")
     ELSE [s EXCEPT !.params = Append(@, parameter), !.mode = "arg"]

(* A type or a default with no parameter before it is dropped. *)
TypeOf(s, text, i) ==
  CASE s.params = <<>> -> [s EXCEPT !.mode = "after_type"]
    [] s.params # <<>> /\ ShapeName(text) = "none" -> Refuse(s, "unknown_type")
    [] OTHER -> IF LastParameter(s).kind = "flag" /\ ShapeName(text) = "bool" THEN Refuse(s, "boolean_switch")
                ELSE [s EXCEPT !.params[Len(s.params)].type = i, !.types[Len(s.params)] = ShapeName(text),
                               !.mode = "after_type"]

(* Mutant: the text of the default is forgotten. *)
ForgetDefault(s, i) == [s EXCEPT !.mode = "arg"]

(* The defaults of an extern are never parsed. *)
IgnoreDefault(s, i) == [s EXCEPT !.ignored = @ \cup {i}, !.mode = "arg"]

DefaultOf(s, text, i, external) ==
  CASE s.params = <<>> -> [s EXCEPT !.mode = "arg"]
    [] s.params # <<>> /\ external -> IgnoreDefault(s, i)
    [] OTHER -> IF LastParameter(s).kind = "rest" THEN Refuse(s, "default_of_rest")
                ELSE IF ~IsValue(text, s.types[Len(s.params)]) THEN Refuse(s, "not_of_type")
                ELSE [s EXCEPT !.params[Len(s.params)].default = i, !.mode = "arg"]

(* A comment belongs to the parameter before it. *)
Describe(s, i) == IF s.params = <<>> THEN s ELSE [s EXCEPT !.params[Len(s.params)].description = @ \cup {i}]

Token(s, tokens, i, external) ==
  LET text == tokens[i]
      last == i = Len(tokens)
  IN CASE s.out # "parsing" -> s
       [] s.out = "parsing" /\ text = "#c" -> Describe(s, i)
       [] s.out = "parsing" /\ text = "|" -> s
       [] s.out = "parsing" /\ text = ":" -> Colon(s, last)
       [] s.out = "parsing" /\ text = "=" -> Equals(s, last)
       [] s.out = "parsing" /\ text = "," -> Comma(s)
       [] OTHER ->
            CASE s.mode = "type" -> TypeOf(s, text, i)
              [] s.mode = "default" -> DefaultOf(s, text, i, external)
              [] OTHER -> IF text \in Parenthesised THEN ShortFlag(s, text, i) ELSE NewParameter(s, text, i, external)

(* The parse up to each token. *)
ParseParameters(tokens, external) ==
  LET start == [params |-> <<>>, types |-> [i \in 1..Len(tokens) |-> "none"], mode |-> "arg",
                ignored |-> {}, out |-> "parsing"]
      parse[i \in 0..Len(tokens)] == IF i = 0 THEN start ELSE Token(parse[i - 1], tokens, i, external)
  IN parse

(* Mutant: a default does not make a parameter optional. *)
OrderIgnoresDefaults(params) ==
  \A i, j \in 1..Len(params) : i < j => ~(params[i].kind = "optional" /\ params[j].kind = "required")

(* No required parameter after an optional one, and one rest parameter. *)
ParameterOrder(params) ==
  LET optional(p) == p.kind = "optional" \/ (p.kind = "required" /\ p.default # 0)
      required(p) == p.kind = "required" /\ p.default = 0
  IN \A i, j \in 1..Len(params) : i < j =>
       ~(optional(params[i]) /\ required(params[j])) /\ ~(params[i].kind = "rest" /\ params[j].kind = "rest")

(* The parameters of a definition or an extern. *)
ParseSignature(tokens, external) ==
  LET s == ParseParameters(tokens, external)[Len(tokens)]
  IN CASE s.out # "parsing" -> s
       [] s.out = "parsing" /\ ~ParameterOrder(s.params) -> Refuse(s, "parameter_order")
       [] OTHER -> [s EXCEPT !.out = "done"]

----------------------------------------------------------------------------
(* Signatures as they are written.                                         *)

Optionally(condition, tokens) == IF condition THEN tokens ELSE <<>>

(* A parameter: its name, short form, type, default and comma, in the order *)
(* the grammar of parse_parameters gives them.                             *)
WrittenParameter(p) ==
  <<p.name>> \o Optionally(p.short, <<"(-s)">>) \o Optionally(p.type # "", <<":", p.type>>)
             \o Optionally(p.default # "", <<"=", p.default>>) \o Optionally(p.comma, <<",">>)

Written(ps) == FlattenSeq([i \in 1..Len(ps) |-> WrittenParameter(ps[i])])

Unparsed == [out |-> "unparsed"]

(* A signature of these tokens, and one written from these parameters.     *)
Signature ==
  /\ result = Unparsed /\ input[1] = "signature"
  /\ result' = ParseSignature(input[2], input[3])
  /\ UNCHANGED input

WrittenSignature ==
  /\ result = Unparsed /\ input[1] = "written"
  /\ result' = ParseSignature(Written(input[2]), FALSE)
  /\ UNCHANGED input

----------------------------------------------------------------------------
(* Properties.                                                             *)

Parsed(what) == input[1] = what /\ result # Unparsed

(* What the rules of nu allow of a parameter as it is written. *)
Allowed(p) ==
  /\ p.short => p.name = "--x"
  /\ p.type = "bool" => p.name \notin {"--x", "--x(-s)", "-s"}
  /\ p.default # "" => p.name # "...x" /\ (p.type = "" \/ (p.type \in {"int", "int@c"} /\ p.default = "5"))

Skippable(p) == p.name = "x?" \/ (p.name = "x" /\ p.default # "")

(* A signature written after the grammar of parse_parameters parses when    *)
(* each parameter is allowed and their order is, and reads back as the      *)
(* parameters it was written from: each short form, type and default at the *)
(* parameter it was written for, whatever stands before and after.         *)
WrittenSignatureReadsBack ==
  LET ps == input[2]
      width(i) == Len(Written(SubSeq(ps, 1, i)))
      read(i) ==
        LET p == ps[i]
            start == width(i - 1) + 1
            short == start + (IF p.short THEN 1 ELSE 0)
            type == IF p.type = "" THEN short ELSE short + 2
        IN <<start, IF p.short THEN short ELSE IF p.name \in {"--x(-s)", "-s"} THEN start ELSE 0,
             IF p.type = "" THEN 0 ELSE type, IF p.default = "" THEN 0 ELSE type + 2>>
      inOrder == \A i, j \in 1..Len(ps) : i < j =>
        /\ Skippable(ps[i]) => ps[j].name # "x" \/ Skippable(ps[j])
        /\ ~(ps[i].name = "...x" /\ ps[j].name = "...x")
  IN Parsed("written") =>
       /\ (result.out = "done") <=> ((\A i \in 1..Len(ps) : Allowed(ps[i])) /\ inOrder)
       /\ result.out = "done" =>
            [i \in 1..Len(result.params) |-> LET q == result.params[i] IN <<q.name, q.short, q.type, q.default>>]
              = [i \in 1..Len(ps) |-> read(i)]

(* An extern declares nothing and its defaults are never parsed: it takes   *)
(* a signature a def takes, with the same parameters but for the defaults,  *)
(* which it records as ignored text; only, a parameter that its default     *)
(* makes optional in a def is a required one of the extern, and may not     *)
(* follow an optional one (`[a?, b = 5]`, check_parameter_order).           *)
ExternTakesWhatDefTakes ==
  LET def == ParseSignature(input[2], FALSE)
      defaultAfterOptional == \E i, j \in 1..Len(def.params) :
        i < j /\ def.params[i].kind = "optional" /\ def.params[j].kind = "required"
  IN Parsed("signature") /\ input[3] /\ def.out = "done" =>
       /\ result.out = (IF defaultAfterOptional THEN "parameter_order" ELSE "done")
       /\ [i \in 1..Len(result.params) |-> [result.params[i] EXCEPT !.default = 0]]
            = [i \in 1..Len(def.params) |-> [def.params[i] EXCEPT !.default = 0]]
       /\ \A i \in 1..Len(result.params) : result.params[i].default = 0
       /\ \A i \in 1..Len(def.params) : def.params[i].default \in result.ignored \cup {0}

(* Every item of an accepted signature is in the tree or in the ignored     *)
(* text (Ast::ignored): what nu discards is spliced back in from there.     *)
EveryTokenKept ==
  Parsed("signature") /\ result.out = "done" =>
    \A i \in 1..Len(input[2]) :
      \/ input[2][i] \in {":", "=", ",", "#c", "|"}
      \/ i \in result.ignored
      \/ \E k \in 1..Len(result.params) :
           LET p == result.params[k] IN i \in {p.name, p.short, p.type, p.default}
=============================================================================
