----------------------------- MODULE Keywords -----------------------------
(***************************************************************************)
(* The keyword statements of parser/parse_control_flow.rs, parse_def.rs,   *)
(* parse_module.rs, parse_bindings.rs, parse_alias.rs and parse_source.rs, *)
(* and how nu treats the flags of a keyword (parser/parse_keywords.rs).    *)
(*                                                                         *)
(* A statement is a keyword and its items.  An item is known by its kind:  *)
(* what the parsers look at in its text.  The parse goes through a record  *)
(* that every operator passes on: the position in the items, whether a     *)
(* --help was seen, which items went into the tree (used) or into the      *)
(* trivia (ignored), and the outcome; once the outcome is settled, the     *)
(* rest of a parser leaves the record alone, as `?` and `return` do.       *)
(*                                                                         *)
(* The values, blocks, signatures and conditions inside a statement are    *)
(* parsed by other components: here each succeeds or fails by its kind.    *)
(***************************************************************************)
EXTENDS Naturals, Sequences, FiniteSets

CONSTANT Statements  \* the <<keyword, items>> under study

VARIABLES statement, result

vars == <<statement, result>>

----------------------------------------------------------------------------
(* Kinds of items.                                                         *)

(* The tokens a statement may hold that are not items. *)
NotItems == {"=", "+=", "end"}

(* {a: 1}, {|x| x}, {ls}, {}, {1 => 2} and {def f [] {}}: an item opening   *)
(* with a brace.                                                           *)
Braces == {"record", "closure", "block", "empty", "arms", "decls"}

(* What parse_block_argument takes: a { ... } that is neither a record nor  *)
(* a closure with parameters.                                              *)
Blocks == Braces \ {"record", "closure"}

(* Flags a keyword does not have: --env and --wrapped are those of def, and *)
(* an arrow is one too where a flag may stand.                             *)
DefFlags == {"--env", "--wrapped"}
UnknownFlags == {"-x", "->"} \cup DefFlags

(* parse_value accepts any item, except [x]: which is no cell path. *)
Value(kind) == kind \notin NotItems \cup {"list:"}

(* Operands and operators in turn. *)
Math(kinds) ==
  /\ Len(kinds) % 2 = 1
  /\ \A i \in 1..Len(kinds) : Value(kinds[i]) /\ (i % 2 = 0 => kinds[i] = "==")

(* What is_math_expression_like takes for the start of an expression. *)
MathLike(kind) ==
  kind \in Braces \cup UnknownFlags \cup
           {"var", "paren", "list", "rest", "list:", "number", "null", "--help", "--"}

(* A pipeline element: a math expression, or a call of whatever name. *)
Element(kinds) == IF MathLike(kinds[1]) THEN Math(kinds) ELSE \A i \in 1..Len(kinds) : Value(kinds[i])

(* Keywords that may be exported; with the kind "keyword", all that cannot  *)
(* be aliased.                                                             *)
Exportable == {"def", "extern", "alias", "use", "module", "const"}
Unaliasable(kind) == kind = "keyword" \/ kind \in Exportable

(* The name of an alias: no parser keyword and no number; that of a def or  *)
(* an extern: besides, no [ or ( in it and no $ before it.                 *)
AliasName(kind) == ~Unaliasable(kind) /\ kind # "number"
DefName(kind) == AliasName(kind) /\ kind \notin {"list", "rest", "list:", "paren", "decls", "var"}

(* A declared variable: an identifier that is not reserved, with its type   *)
(* to follow when it ends in a colon.                                      *)
Variable(kind) ==
  kind \in {"word", "keyword", "number", "null", "else", "catch", "finally", "var", "name:"} \cup Exportable
Typed(kind) == kind = "name:"

(* The items of a type, read as one: a single known name. *)
Type(kinds) == kinds = <<"word">>

(* A closure, or a variable or subexpression that may hold one. *)
TryHandler(kind) == kind \in (Braces \ {"record"}) \cup {"var", "paren"}

KeywordName == Exportable \cup
  {"if", "match", "while", "loop", "try", "return", "break", "continue", "where", "for", "let", "mut",
   "export-env", "export"}

ItemKind == Braces \cup UnknownFlags \cup Exportable \cup
  {"word", "number", "list", "list:", "rest", "paren", "var", "name:", "keyword", "null", "else", "catch",
   "finally", "in", "*", "==", "=", "+=", ":", "->", "--", "--help"}

ASSUME StatementsAssumption == Statements \subseteq KeywordName \X Seq(ItemKind)

----------------------------------------------------------------------------
(* The parse of a statement (KeywordCall and Tokens).                      *)

Start(items, pos) ==
  [items |-> items, pos |-> pos, help |-> FALSE, used |-> {}, ignored |-> {}, out |-> "parsing"]

Kind(s, i) == IF i \in 1..Len(s.items) THEN s.items[i] ELSE "end"
Peek(s) == Kind(s, s.pos)
AtEnd(s) == s.pos > Len(s.items)
IsItem(s) == Peek(s) \notin NotItems
Remaining(s) == SubSeq(s.items, s.pos, Len(s.items))
Taken(s) == Kind(s, s.pos - 1)

Settle(s, out) == IF s.out = "parsing" THEN [s EXCEPT !.out = out] ELSE s

Require(s, condition) == IF s.out = "parsing" /\ ~condition THEN Settle(s, "error") ELSE s

(* Take the items up to and including position i into the tree. *)
TakeTo(s, i) == IF s.out = "parsing" THEN [s EXCEPT !.pos = i + 1, !.used = @ \cup (s.pos..i)] ELSE s

ExpectItem(s) == TakeTo(Require(s, IsItem(s)), s.pos)

ExpectEnd(s) == Require(s, AtEnd(s))

Ignore(s, where) == IF s.out = "parsing" THEN [s EXCEPT !.ignored = @ \cup where] ELSE s

(* The statement parsed again as an ordinary call, every item an argument   *)
(* of it, and the text the first parse ignored no longer ignored.          *)
HelpCall(s) ==
  IF s.out = "parsing" /\ \A i \in 1..Len(s.items) : Value(s.items[i])
  THEN [s EXCEPT !.out = "help", !.ignored = {}]
  ELSE Settle(s, "error")

(* Mutant: only the item before the position is looked at. *)
JustSeenEndOfOptions(s) == s.pos > 1 /\ s.items[s.pos - 1] = "--"

SeenEndOfOptions(s) == \E i \in 1..(s.pos - 1) : s.items[i] = "--"

(* Mutant: a flag the keyword does not have is left for the positional. *)
BoundaryUnchecked(s, endOfOptions) ==
  IF s.out # "parsing" \/ (endOfOptions /\ SeenEndOfOptions(s)) THEN s
  ELSE CASE Peek(s) = "--help" -> HelpCall(s)
         [] Peek(s) = "--" /\ endOfOptions -> [Ignore(s, {s.pos}) EXCEPT !.pos = @ + 1]
         [] OTHER -> s

(* The item at a positional boundary, looked at once: the keywords parsed   *)
(* by hand (module, use, let, alias) return their help call right away.    *)
Boundary(s, endOfOptions) ==
  IF s.out # "parsing" \/ (endOfOptions /\ SeenEndOfOptions(s)) THEN s
  ELSE CASE Peek(s) = "--help" -> HelpCall(s)
         [] Peek(s) = "--" /\ endOfOptions -> [Ignore(s, {s.pos}) EXCEPT !.pos = @ + 1]
         [] Peek(s) \in UnknownFlags -> Settle(s, "error")
         [] OTHER -> s

(* Every flag at a positional boundary: --help any number of times, then a  *)
(* marker, after which there are none.                                     *)
Flags(s, endOfOptions) ==
  LET past == CHOOSE p \in s.pos..(Len(s.items) + 1) :
                 Kind(s, p) # "--help" /\ \A i \in s.pos..(p - 1) : s.items[i] = "--help"
  IN IF s.out # "parsing" \/ (endOfOptions /\ SeenEndOfOptions(s)) THEN s
     ELSE Boundary([s EXCEPT !.pos = past, !.help = @ \/ past > s.pos], endOfOptions)

(* Mutant: --help forgives whatever follows it. *)
ForgiveAll(s, endOfOptions) ==
  LET t == Flags(s, endOfOptions) IN IF t.help THEN HelpCall(t) ELSE ExpectItem(t)

Positional(s, endOfOptions) ==
  LET t == Flags(s, endOfOptions)
  IN IF t.help /\ AtEnd(t) THEN HelpCall(t) ELSE ExpectItem(t)

End(s) == ExpectEnd(Flags(s, TRUE))

Finish(s) == IF s.help THEN HelpCall(s) ELSE Settle(s, "done")

BlockArgument(s) == Require(s, Taken(s) \in Blocks)

----------------------------------------------------------------------------
(* Control flow (parse_control_flow.rs).                                   *)

(* The position of the next item of that kind, past the end when there is none. *)
Until(s, kind) ==
  CHOOSE p \in s.pos..(Len(s.items) + 1) :
    /\ p <= Len(s.items) => s.items[p] = kind
    /\ \A i \in s.pos..(p - 1) : s.items[i] # kind

(* What follows else: a block or a value alone, or a whole element. *)
ElseBranch(s) ==
  LET rest == Remaining(s)
  IN TakeTo(Require(s, rest # <<>> /\ ((rest[1] \in Braces /\ Len(rest) = 1) \/ Element(rest))), Len(s.items))

ParseIf(start) ==
  LET s == Flags(start, TRUE)
      else == Until(s, "else")
      hasElse == else <= Len(s.items)
      then == SubSeq(s.items, s.pos, else - 1)
      block == Require(TakeTo(s, else - 1), Math(SubSeq(then, 1, Len(then) - 1)) /\ then[Len(then)] \in Blocks)
  IN CASE s.out # "parsing" -> s
       [] s.help /\ AtEnd(s) -> HelpCall(s)
       [] then = <<>> /\ hasElse -> Settle(s, "error")
       [] Len(then) > 1 -> Finish(IF hasElse THEN ElseBranch(TakeTo(block, else)) ELSE block)
       [] OTHER -> IF s.help THEN HelpCall(s) ELSE Settle(s, "error")

ParseMatch(start) ==
  LET value == Positional(start, TRUE)
      block == Positional(Require(value, Value(Taken(value))), TRUE)
  IN Finish(End(Require(block, Taken(block) \in {"arms", "empty", "closure", "record", "var", "paren"})))

(* Everything before the last item is the condition. *)
ParseWhile(start) ==
  LET s == Flags(start, TRUE)
      rest == Remaining(s)
  IN IF Len(rest) < 2
     THEN IF s.help THEN HelpCall(s) ELSE Settle(s, "error")
     ELSE Finish(BlockArgument(Require(TakeTo(s, Len(s.items)), Math(SubSeq(rest, 1, Len(rest) - 1)))))

ParseLoop(start) == Finish(End(BlockArgument(Positional(start, TRUE))))

(* One round of try's handlers, when there are items left. *)
Handler(s, room) ==
  LET t == Flags(s, TRUE)
      word == ExpectItem(Require(t, Peek(t) \in {"catch", "finally"} /\ room))
      handler == ExpectItem(word)
  IN IF AtEnd(t) THEN t ELSE Require(handler, TryHandler(Taken(handler)))

ParseTry(start) ==
  LET body == BlockArgument(Positional(start, TRUE))
  IN Finish(Handler(Handler(Handler(body, TRUE), TRUE), FALSE))

ParseReturn(start) ==
  LET s == Flags(start, TRUE)
      value == IF AtEnd(s) THEN s ELSE ExpectItem(s)
  IN Finish(End(Require(value, AtEnd(s) \/ Value(Taken(value)))))

ParseBreakOrContinue(start) == Finish(End(start))

ParseWhere(start) ==
  LET s == Flags(start, TRUE)
      rest == Remaining(s)
  IN IF rest = <<>> THEN IF s.help THEN HelpCall(s) ELSE Settle(s, "error")
     ELSE Finish(TakeTo(Require(s, (Len(rest) = 1 /\ rest[1] \in Braces) \/ Math(rest)), Len(s.items)))

----------------------------------------------------------------------------
(* Definitions (parse_def.rs, and the signatures of parse_signatures.rs).  *)

SignatureItem(kind) == kind \in {"list", "rest", "paren"}

(* input -> output pairs. *)
InputOutputTypes(kinds) ==
  /\ Len(kinds) % 3 = 0
  /\ \A i \in 1..Len(kinds) : kinds[i] = (IF i % 3 = 2 THEN "->" ELSE "word")

(* Mutant: the item after the signature is dropped without a trace. *)
FullSignatureDrops(s, last) ==
  [TakeTo(Require(s, SignatureItem(Peek(s))), s.pos) EXCEPT !.pos = last + 1]

(* The items from the position to `last`: a signature alone, a signature    *)
(* and a { ... } that is dropped, or a signature with its types after `:`.  *)
FullSignature(s, last) ==
  LET n == last + 1 - s.pos
      types == SubSeq(s.items, s.pos + (IF Peek(s) = "list:" THEN 1 ELSE 2), last)
  IN CASE n = 1 -> TakeTo(Require(s, SignatureItem(Peek(s))), last)
       [] n = 2 /\ Kind(s, last) \in Braces ->
            [Ignore(TakeTo(Require(s, SignatureItem(Peek(s))), s.pos), {last}) EXCEPT !.pos = last + 1]
       [] OTHER ->
            TakeTo(Require(s, /\ Peek(s) = "list:" \/ (SignatureItem(Peek(s)) /\ Kind(s, s.pos + 1) = ":")
                              /\ InputOutputTypes(types)), last)

(* The flags of a def, up to a --help, a marker or any other item. *)
ParseDefFlags(s) ==
  LET past == CHOOSE p \in s.pos..(Len(s.items) + 1) :
                 Kind(s, p) \notin DefFlags /\ \A i \in s.pos..(p - 1) : s.items[i] \in DefFlags
  IN TakeTo(s, past - 1)

ParseDef(start) ==
  LET name == Positional(ParseDefFlags(start), TRUE)
      s == Flags(ParseDefFlags(Require(name, DefName(Taken(name)))), TRUE)
      last == Len(s.items)
      n == Len(Remaining(s))
      wrapped == \E i \in s.used \ {name.pos - 1} : s.items[i] = "--wrapped"
      body == Kind(s, last)
      sig == FullSignature(s, IF n = 1 THEN last ELSE last - 1)
  IN IF s.out # "parsing" THEN s ELSE
     CASE n = 0 \/ (n = 1 /\ sig.out = "parsing") -> IF s.help THEN HelpCall(s) ELSE Settle(s, "error")
       [] n > 1 /\ sig.out = "parsing" /\ body = "--help" /\ ~SeenEndOfOptions(s) -> HelpCall(sig)
       [] OTHER -> Finish(TakeTo(Require(sig, body \in Braces /\ (wrapped => Peek(s) = "rest")), last))

ParseExtern(start) ==
  LET name == Positional(start, TRUE)
      s == Flags(Require(name, DefName(Taken(name))), TRUE)
  IN IF AtEnd(s) THEN IF s.help THEN HelpCall(s) ELSE Settle(s, "error")
     ELSE Finish(FullSignature(s, Len(s.items)))

ParseFor(start) ==
  LET name == Positional(start, TRUE)
      variable == Require(name, Variable(Taken(name)))
      type == SubSeq(variable.items, variable.pos, Until(variable, "in") - 1)
      typed == IF variable.out = "parsing" /\ Typed(Taken(variable))
               THEN TakeTo(Require(variable, Type(type)), Until(variable, "in") - 1)
               ELSE variable
      in == Positional(typed, TRUE)
      iterable == ExpectItem(Require(in, Taken(in) = "in" /\ Len(Remaining(in)) >= 2))
      block == Positional(Require(iterable, Value(Taken(iterable))), TRUE)
  IN Finish(End(BlockArgument(block)))

----------------------------------------------------------------------------
(* Bindings (parse_bindings.rs) and aliases (parse_alias.rs).              *)

Equals(s) == {i \in 1..Len(s.items) : s.items[i] \in {"=", "+="}}

ParseBinding(start, isLet) ==
  LET name == ExpectItem(Boundary(start, FALSE))
      equals == {i \in Equals(name) : \A j \in Equals(name) : i <= j}
      variable == Require(name, Variable(Taken(name)) /\ \A i \in equals : name.items[i] = "=")
      typed == Typed(Taken(variable))
      s == IF equals = {} /\ ~typed THEN Boundary(variable, TRUE) ELSE variable
      before == IF equals = {} THEN Len(s.items) ELSE (CHOOSE i \in equals : TRUE) - 1
      type == SubSeq(s.items, s.pos, before)
      annotated == TakeTo(Require(s, IF typed THEN Type(type) ELSE type = <<>>), before)
  IN Finish(IF equals = {} THEN Require(annotated, isLet)
            ELSE TakeTo(Require(annotated, before + 1 < Len(s.items)), Len(s.items)))

(* A --help right after the keyword or the name must be the last item. *)
AliasHelp(s) ==
  LET t == Boundary(s, FALSE)
  IN IF t.out = "help" /\ s.out = "parsing"
     THEN Settle(s, IF s.pos = Len(s.items) THEN "help" ELSE "error") ELSE t

ParseAlias(start, exported) ==
  LET name == ExpectItem(AliasHelp(start))
      s == AliasHelp(Require(name, Taken(name) \notin {"--"} \cup UnknownFlags))
      equals == TakeTo(Require(s, AliasName(Taken(s)) /\ Peek(s) = "="), s.pos)
      target == Peek(equals)
  IN Finish(IF equals.out = "parsing" /\ AtEnd(equals) THEN Require(equals, exported)
            ELSE TakeTo(Require(equals, /\ ~MathLike(target) /\ ~Unaliasable(target)
                                     /\ "list:" \notin {s.items[i] : i \in s.pos..Len(s.items)}), Len(s.items)))

----------------------------------------------------------------------------
(* Modules (parse_module.rs).                                              *)

(* The call nu makes first takes a -- as the marker, so a name must follow; *)
(* the statement itself then takes the -- as the name.                     *)
ParseModule(start) ==
  LET name == ExpectItem(Boundary(start, FALSE))
      named == Require(name, /\ Taken(name) = "--" => Peek(name) \notin Braces \cup {"end", "var", "paren"}
                             /\ Taken(name) \notin Braces \cup {"var", "paren", "null"})
      s == Boundary(named, FALSE)
      body == IF AtEnd(s) THEN s ELSE Require(TakeTo(s, s.pos), Peek(s) \in {"empty", "decls"})
  IN Finish(ExpectEnd(Boundary(body, FALSE)))

(* The members of an import pattern: names, `*` and lists; what else may    *)
(* stand there is parsed and dropped. After `use null` nothing is checked.  *)
ImportMember(kind, noop) ==
  \/ kind \in {"*", "list", "rest", "var", "paren", "record"}
  \/ kind # "list:" /\ (noop \/ kind \notin Braces \cup {"null", "number"})

ParseUse(start) ==
  LET flags == {i \in start.pos..Len(start.items) : start.items[i] \in {"--help"} \cup UnknownFlags}
      first == CHOOSE i \in flags : \A j \in flags : i <= j
      module == ExpectItem(Boundary(start, TRUE))
      members == {i \in module.pos..Len(start.items) : start.items[i] # "--"}
      noop == Taken(module) = "null"
  IN IF flags # {} THEN IF start.items[first] = "--help" THEN HelpCall(start) ELSE Settle(start, "error")
     ELSE Finish(
       LET s == Require(module, /\ Taken(module) \notin {"record", "empty", "block", "arms", "decls"}
                                /\ \A i \in members : ImportMember(start.items[i], noop)
                                /\ \A i, j \in members : i < j => start.items[i] \notin {"*", "list", "rest"})
           t == Ignore(s, (s.pos..Len(s.items)) \ members)
       IN IF t.out = "parsing" THEN [t EXCEPT !.pos = Len(s.items) + 1, !.used = @ \cup members] ELSE t)

(* The one argument is taken by position; what follows it is dropped. *)
ParseExportEnv(start) ==
  LET block == BlockArgument(Positional(start, FALSE))
  IN Finish([Ignore(block, block.pos..Len(block.items)) EXCEPT !.pos = Len(block.items) + 1])

ParseBuiltin(keyword, s, exported) ==
  CASE keyword = "if" -> ParseIf(s)
    [] keyword = "match" -> ParseMatch(s)
    [] keyword = "while" -> ParseWhile(s)
    [] keyword = "loop" -> ParseLoop(s)
    [] keyword = "try" -> ParseTry(s)
    [] keyword = "return" -> ParseReturn(s)
    [] keyword \in {"break", "continue"} -> ParseBreakOrContinue(s)
    [] keyword = "where" -> ParseWhere(s)
    [] keyword = "def" -> ParseDef(s)
    [] keyword = "extern" -> ParseExtern(s)
    [] keyword = "for" -> ParseFor(s)
    [] keyword \in {"let", "mut", "const"} -> ParseBinding(s, keyword = "let")
    [] keyword = "alias" -> ParseAlias(s, exported)
    [] keyword = "module" -> ParseModule(s)
    [] keyword = "use" -> ParseUse(s)
    [] keyword = "export-env" -> ParseExportEnv(s)

ParseExport(s) ==
  CASE Peek(s) \in Exportable -> ParseBuiltin(Peek(s), TakeTo(s, s.pos), TRUE)
    [] Peek(s) = "--help" /\ Len(s.items) = 1 -> HelpCall(s)
    [] OTHER -> Settle(s, "error")

ParseStatement(keyword, items) ==
  IF keyword = "export" THEN ParseExport(Start(items, 1)) ELSE ParseBuiltin(keyword, Start(items, 1), FALSE)

----------------------------------------------------------------------------
Unparsed == [Start(<<>>, 1) EXCEPT !.out = "none"]

Init ==
  /\ statement \in Statements
  /\ result = Unparsed

(* Parse the statement, or refuse it. *)
Parse ==
  /\ result = Unparsed
  /\ result' = ParseStatement(statement[1], statement[2])
  /\ UNCHANGED statement

Spec == Init /\ [][Parse]_vars

----------------------------------------------------------------------------
(* Properties.                                                             *)

Keyword == statement[1]
Items == statement[2]
Before(i) == {j \in 1..Len(Items) : j < i}
Finished == result.out = "done"

(* An item read before any end-of-options marker. *)
Unmarked(i) == \A j \in Before(i) : Items[j] # "--"

(* Every item ends up in the tree or among the ignored text, never in both: *)
(* parse_use, parse_full_signature, the boundary and export-env drop items, *)
(* a help call parses them all again, and a formatter that rebuilds the     *)
(* statement from tree and trivia must neither lose an item nor repeat one. *)
EveryItemAccountedFor ==
  /\ Finished => /\ result.used \cup result.ignored = 1..Len(Items)
                 /\ result.used \cap result.ignored = {}
  /\ result.out = "help" => result.ignored = {}

(* Keywords parsed with a KeywordCall that reads a -- marker. *)
TakesMarker ==
  {"if", "match", "while", "loop", "try", "return", "break", "continue", "where", "def", "extern", "for"}

(* After a marker nu looks for no flags at all (seen_end_of_options): a     *)
(* statement only turns into a help call by a --help before its marker.     *)
EndOfOptionsEndsFlags ==
  result.out = "help" /\ Keyword \in TakesMarker => \E i \in 1..Len(Items) : Items[i] = "--help" /\ Unmarked(i)

(* The same for use, which looks for its flags in a loop of its own. *)
EndOfOptionsEndsFlagsOfUse ==
  result.out = "help" /\ Keyword = "use" => \E i \in 1..Len(Items) : Items[i] = "--help" /\ Unmarked(i)

(* Where every item is a positional, no flag before the marker is taken for *)
(* one of them: it is the help flag or an error, wherever it stands.  (An   *)
(* arrow between the types of a signature is none.)                        *)
NoFlagIsPositional ==
  Finished /\ Keyword \in {"match", "loop", "try", "return", "break", "continue", "extern", "module"} =>
    \A i \in 1..Len(Items) : Unmarked(i) => Items[i] \notin {"--help", "-x"} \cup DefFlags

(* The positionals a keyword requires, each by one kind it takes. *)
Positionals(keyword) ==
  CASE keyword = "def" -> <<"word", "list", "empty">>
    [] keyword = "extern" -> <<"word", "list">>
    [] keyword = "for" -> <<"word", "in", "word", "empty">>
    [] keyword \in {"if", "match", "while"} -> <<"word", "empty">>
    [] keyword \in {"loop", "try"} -> <<"empty">>
    [] keyword = "where" -> <<"word">>
    [] OTHER -> <<>>

(* The items but those at the positions of flags. *)
Kept(items, flags) ==
  LET kept[n \in 0..Len(items)] ==
        IF n = 0 THEN <<>> ELSE IF n \in flags THEN kept[n - 1] ELSE Append(kept[n - 1], items[n])
  IN kept

Without(items, flags) == Kept(items, flags)[Len(items)]

(* The items, without some of their flags, make a statement once the        *)
(* positionals from one of `missing` on are put behind them.               *)
Completes(keyword, items, missing) ==
  \E flags \in SUBSET {i \in 1..Len(items) : items[i] \in {"--help"} \cup DefFlags}, n \in missing :
    LET more == SubSeq(Positionals(keyword), n, Len(Positionals(keyword)))
    IN ParseBuiltin(keyword, Start(Without(items, flags) \o more, 1), FALSE).out = "done"

(* A --help forgives the positionals that are missing and nothing else      *)
(* (KeywordCall): without its flags, and with the missing ones put behind   *)
(* it, the statement parses; only, of an if with no block before its else   *)
(* nothing behind that is parsed.  (What --wrapped asks of a signature is   *)
(* left out: it is no positional, and no help call gets to that check.)    *)
HelpForgivesOnlyMissing ==
  result.out = "help" /\ Keyword \in TakesMarker =>
    \/ Completes(Keyword, Items, 1..Len(Positionals(Keyword)) + 1)
    \/ Keyword = "if" /\ \E i \in 1..Len(Items) : Items[i] = "else" /\ Completes("if", SubSeq(Items, 1, i - 1), {2})
=============================================================================
