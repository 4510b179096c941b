------------------------------- MODULE Scopes -------------------------------
(***************************************************************************)
(* The working set (parser/working_set.rs) during one parse: the scopes of *)
(* declared names that blocks push and pop, the heads resolved in them,    *)
(* and the comments, ignored text and diagnostics collected on the side by *)
(* constructs of which some are parsed twice.                              *)
(*                                                                         *)
(* The source is a sequence of token texts; a brace or parenthesis opens   *)
(* an item that extends to its match and is lexed again from its interior. *)
(* The calls pending in the recursive descent are the stack work, the      *)
(* innermost first: an error returns through them to the statement being   *)
(* parsed by the nearest parse_block, which goes on with the next one.     *)
(***************************************************************************)
EXTENDS Integers, Sequences, FiniteSets, SequencesExt

CONSTANTS
  Sources,         \* the sources under study
  Tables,          \* the tables of configured commands: sets of names
  Quoted,          \* quoted text |-> the words between the quotes
  MaxCommandWords  \* how many words of a head are looked at

(* A name is the sequence of its words.                                    *)
ASSUME TablesAssumption == MaxCommandWords \in Nat \ {0} /\ \A table \in Tables : <<>> \notin table

ASSUME SourcesAssumption == \A texts \in Sources : Len(texts) \in Nat

VARIABLES
  source,    \* the texts of the tokens
  config,    \* the names of the configured commands
  work,      \* the calls pending, innermost first
  scopes,    \* WorkingSet.scopes, innermost last
  comments,  \* WorkingSet.comments, in the order recorded
  ignored,   \* WorkingSet.ignored, in the order recorded
  errors,    \* WorkingSet.parse_errors, in the order recorded
  heads,     \* the heads resolved: [from, words]
  garbage    \* the spans of the statements replaced by garbage

vars == <<source, config, work, scopes, comments, ignored, errors, heads, garbage>>

----------------------------------------------------------------------------
(* Tokens.                                                                 *)

Eol == "eol"
Comment == "#"
Separators == {Eol, ";"}
Openers == {"{", "("}
Closers == {"}", ")"}
Parameters == {"|p|", "|p"}    \* closure parameters, the second unclosed

(* The next position: part of an item left open, or an item of its own.   *)
LexNext(state, i) ==
  LET change == CASE source[i] \in Openers -> 1 [] source[i] \in Closers -> -1 [] OTHER -> 0
  IN [depth |-> state.depth + change,
      tokens |-> IF state.depth = 0
                 THEN Append(state.tokens, [text |-> source[i], from |-> i, to |-> i])
                 ELSE [state.tokens EXCEPT ![Len(state.tokens)].to = i]]

(* The items between two positions: what a brace encloses is part of it.   *)
Lexed(from, size) ==
  LET state[n \in 0..size] ==
        IF n = 0 THEN [depth |-> 0, tokens |-> <<>>] ELSE LexNext(state[n - 1], from + n - 1)
  IN state

Lex(from, to) ==
  LET size == IF from <= to THEN to - from + 1 ELSE 0
  IN Lexed(from, size)[size].tokens

ItemEnd(i) == Lex(i, Len(source))[1].to

Interior(token) == Lex(token.from + 1, token.to - 1)

Texts(tokens) == [i \in 1..Len(tokens) |-> tokens[i].text]

After(tokens, i) == SubSeq(tokens, i, Len(tokens))

(* The index of the first token from i on whose text is in texts, or the   *)
(* index after the last token.                                             *)
FirstOf(tokens, i, texts) ==
  LET found == {j \in i..Len(tokens) : tokens[j].text \in texts}
  IN IF found = {} THEN Len(tokens) + 1 ELSE CHOOSE j \in found : \A k \in found : j <= k

----------------------------------------------------------------------------
(* The names in scope.                                                     *)

EmptySet == [names |-> {}, prefixes |-> {}]

Insert(set, names) ==
  [names |-> set.names \cup names,
   prefixes |-> set.prefixes \cup {Head(name) : name \in {n \in names : Len(n) > 1}}]

Configured(table) == Insert(EmptySet, table)

IsDeclared(name) == \E i \in 1..Len(scopes) : name \in scopes[i].names

FindDecl(name) ==
  CASE IsDeclared(name) -> "declared"
    [] ~IsDeclared(name) /\ name \in config -> "builtin"
    [] OTHER -> "none"

IsDeclNamePrefix(word) ==
  word \in Configured(config).prefixes \/ \E i \in 1..Len(scopes) : word \in scopes[i].prefixes

Dashed == {"--", "--help"}

(* The word a quoted or bare item stands for.                              *)
NameOf(text) == IF text \in DOMAIN Quoted THEN Quoted[text] ELSE <<text>>

(* The indices of tokens that start a statement.                           *)
StartsLine(tokens, i) ==
  /\ tokens[i].text \notin Separators \cup {Comment}
  /\ \A j \in 1..i - 1 : tokens[j].text \notin Separators \cup {Comment} =>
       \E k \in j + 1..i - 1 : tokens[k].text \in Separators

(* What the statement at i declares: at most one name, and whether a       *)
(* signature follows it.                                                   *)
Predeclared(tokens, i) ==
  LET end == FirstOf(tokens, i, Separators \cup {Comment, "=", "|"}) - 1
      head == IF tokens[i].text = "export" THEN i + 1 ELSE i
      names == {j \in head + 1..end : tokens[j].text \notin Dashed}
      name == CHOOSE j \in names : \A k \in names : j <= k
  IN IF head > end \/ tokens[head].text \notin {"def", "extern", "alias"} \/ names = {} THEN {}
     ELSE {[name |-> NameOf(tokens[name].text), from |-> tokens[name].from,
            signed |-> tokens[head].text # "alias" /\ \E j \in name + 1..end : tokens[j].text \in {"[]", "("}]}

Declarations(tokens) == UNION {Predeclared(tokens, i) : i \in {j \in 1..Len(tokens) : StartsLine(tokens, j)}}

(* A definition with a signature whose name was declared with one before.  *)
Duplicates(tokens) ==
  {d \in Declarations(tokens) : d.signed /\
     \E e \in Declarations(tokens) : e.signed /\ e.name = d.name /\ e.from < d.from}

(* The head of the call tokens: how many words its name has.               *)
FindLongestDecl(tokens) ==
  LET most == IF Len(tokens) < MaxCommandWords THEN Len(tokens) ELSE MaxCommandWords
      known == {n \in 2..most : FindDecl(Texts(SubSeq(tokens, 1, n))) # "none"}
  IN IF ~IsDeclNamePrefix(tokens[1].text) \/ known = {} THEN 1
     ELSE CHOOSE n \in known : \A m \in known : m <= n

----------------------------------------------------------------------------
(* The calls pending: what is called, with which tokens.                   *)

Task(do, tokens) == [do |-> do, tokens |-> tokens]

Enter == Task("enter_scope", <<>>)
Exit == Task("exit_scope", <<>>)
Fail == Task("error", <<>>)
Block(tokens) == Task("parse_block", tokens)
Value(token) == Task("parse_value", <<token>>)
Ignore(token) == Task("add_ignored", <<token>>)

(* What the first tokens of a brace say about it.                          *)
BraceShape(token) ==
  LET inner == SelectSeq(Interior(token), LAMBDA t : t.text \notin {Eol, Comment})
  IN CASE inner = <<>> -> "Empty"
       [] inner # <<>> /\ inner[1].text \in Parameters -> "ClosureParams"
       [] inner # <<>> /\ inner[1].text = "k:" -> "Record"
       [] OTHER -> "Other"

Scoped(tokens) == <<Enter, Block(tokens), Exit>>

(* Mutant: the body is parsed once more to see whether it is a block.      *)
BodyTriedFirst(token) == Scoped(Interior(token)) \o Scoped(Interior(token))

BlockBodyUnchecked(token) == Scoped(Interior(token))

BlockBody(token) == IF BraceShape(token) \in {"ClosureParams", "Record"} THEN <<Fail>> ELSE BlockBodyUnchecked(token)

(* Parameters may follow line ends; unclosed ones fail before the scope is *)
(* entered.                                                                *)
ClosureParts(token) ==
  LET inner == Interior(token)
      lines == {i \in 1..Len(inner) : inner[i].text # Eol}
      first == CHOOSE i \in lines : \A j \in lines : i <= j
  IN CASE lines # {} /\ inner[first].text = "|p" -> <<Fail>>
       [] lines # {} /\ inner[first].text = "|p|" -> Scoped(After(inner, first + 1))
       [] OTHER -> Scoped(inner)

ParseValue(token) ==
  CASE token.text = "(" -> Scoped(Interior(token))
    [] token.text = "{" /\ BraceShape(token) \in {"ClosureParams", "Other"} -> ClosureParts(token)
    [] OTHER -> <<>>

Values(tokens) == [i \in 1..Len(tokens) |-> Value(tokens[i])]

BlockArgument(token) == IF token.text = "{" THEN BlockBody(token) ELSE <<Fail>>

(* Mutant: an error in the body returns before the scope is left.          *)
BodyThenExit(token) == <<Enter>> \o BlockBody(token) \o <<Exit>>

(* The scope of a module body is left before its error is returned.        *)
ModuleBody(token) ==
  <<Enter>> \o (IF BlockBody(token) = <<Fail>> THEN <<Exit, Fail>> ELSE BlockBody(token) \o <<Exit>>)

----------------------------------------------------------------------------
(* Keyword statements, as far as they parse blocks and record text.        *)

StatementKeywords ==
  {"def", "extern", "let", "mut", "const", "for", "alias", "module", "use", "export", "export-env"}

UnaliasableKeywords ==
  (StatementKeywords \cup {"loop", "while", "return", "break", "continue", "hide"})
    \cup {"source-env", "source", "run", "where"}

ParserKeywords == UnaliasableKeywords \cup {"if", "match", "try", "overlay"}

(* The flags at a positional boundary: a -- ends the options.              *)
IsFlag(tokens, i) == tokens[i].text \in Dashed /\ \A j \in 1..i - 1 : tokens[j].text # "--"

Flags(tokens, i) ==
  LET others == {j \in i..Len(tokens) : ~IsFlag(tokens, j)}
  IN IF others = {} THEN Len(tokens) + 1 ELSE CHOOSE j \in others : \A k \in others : j <= k

(* The -- among the flags of a boundary: the last of them, if there is one. *)
Markers(tokens, from, to) ==
  LET markers == {i \in from..to : tokens[i].text = "--"}
  IN IF markers = {} THEN <<>> ELSE <<Ignore(tokens[CHOOSE i \in markers : TRUE])>>

WantsHelp(tokens, to) == \E i \in 2..to : IsFlag(tokens, i) /\ tokens[i].text = "--help"

HelpCall(tokens) == <<Task("parse_help_call", tokens)>>

Finish(tokens, to) == IF WantsHelp(tokens, to) THEN HelpCall(tokens) ELSE <<>>

Missing(tokens, to) == IF WantsHelp(tokens, to) THEN HelpCall(tokens) ELSE <<Fail>>

ParseLoop(tokens) ==
  LET block == Flags(tokens, 2)
      end == Flags(tokens, block + 1)
  IN Markers(tokens, 2, block - 1) \o
     (IF block > Len(tokens) THEN Missing(tokens, Len(tokens))
      ELSE BlockArgument(tokens[block]) \o Markers(tokens, block + 1, end - 1) \o
           (IF end <= Len(tokens) THEN <<Fail>> ELSE Finish(tokens, Len(tokens))))

DefBody(token) == IF BraceShape(token) = "ClosureParams" THEN ClosureParts(token) ELSE BlockBodyUnchecked(token)

(* What follows a signature.  A brace between it and the body, and the     *)
(* body of an extern, are dropped without a look.                          *)
AfterDefSignature(tokens, signature) ==
  LET rest == After(tokens, signature + 1)
      last == rest[Len(rest)]
      dropped == SubSeq(rest, 1, Len(rest) - 1)
  IN CASE rest = <<>> -> Missing(tokens, signature)
       [] rest # <<>> /\ (Len(rest) > 2 \/ (dropped # <<>> /\ dropped[1].text # "{")) -> <<Fail>>
       [] OTHER ->
            [i \in 1..Len(dropped) |-> Ignore(dropped[i])] \o
            CASE last.text = "--help" /\ ~\E t \in ToSet(tokens) : t.text = "--" -> HelpCall(tokens)
              [] last.text = "{" -> DefBody(last) \o Finish(tokens, signature)
              [] OTHER -> <<Fail>>

AfterExternSignature(tokens, signature) ==
  LET rest == After(tokens, signature + 1)
  IN CASE Texts(rest) = <<"{">> -> <<Ignore(rest[1])>> \o Finish(tokens, signature)
       [] rest = <<>> -> Finish(tokens, signature)
       [] OTHER -> <<Fail>>

(* A definition, after its keyword: name, signature and body.              *)
Definition(keyword, tokens) ==
  LET name == Flags(tokens, 2)
      signature == Flags(tokens, name + 1)
  IN Markers(tokens, 2, name - 1) \o
     CASE name > Len(tokens) -> Missing(tokens, Len(tokens))
       [] name <= Len(tokens) /\ tokens[name].text \in ParserKeywords -> <<Fail>>
       [] OTHER ->
            Markers(tokens, name + 1, signature - 1) \o
            CASE signature > Len(tokens) -> Missing(tokens, Len(tokens))
              [] signature <= Len(tokens) /\ tokens[signature].text # "[]" -> <<Fail>>
              [] OTHER -> IF keyword = "def" THEN AfterDefSignature(tokens, signature)
                          ELSE AfterExternSignature(tokens, signature)

ParseAlias(tokens) ==
  CASE Len(tokens) = 2 /\ tokens[2].text = "--help" -> HelpCall(tokens)
    [] Len(tokens) > 3 /\ tokens[2].text \notin ParserKeywords \cup Dashed /\ tokens[3].text = "="
       /\ tokens[4].text \notin UnaliasableKeywords \cup Openers \cup {"$x", "[]"} ->
         <<Task("parse_call", After(tokens, 4))>>
    [] OTHER -> <<Fail>>

ParseModule(tokens) ==
  CASE Len(tokens) > 1 /\ tokens[2].text = "--help" -> HelpCall(tokens)
    [] Len(tokens) > 2 /\ tokens[2].text # "--help" /\ tokens[3].text = "{" ->
         ModuleBody(tokens[3]) \o <<Task("is_module_item", Interior(tokens[3]))>> \o
         (CASE Len(tokens) = 3 -> <<>>
            [] Len(tokens) > 3 /\ tokens[4].text = "--help" -> HelpCall(tokens)
            [] OTHER -> <<Fail>>)
    [] Len(tokens) = 2 /\ tokens[2].text # "--help" -> <<>>
    [] OTHER -> <<Fail>>

(* A keyword statement or a call: definitions shadow all but the statement *)
(* keywords.                                                               *)
BuiltinCommands(tokens) ==
  LET text == tokens[1].text
      head == IF text \in StatementKeywords \/ ~IsDeclared(<<text>>) THEN text ELSE ""
      exported == After(tokens, 2)
  IN CASE head \in {"def", "extern"} -> Definition(head, tokens)
       [] head = "alias" -> ParseAlias(tokens)
       [] head = "module" -> ParseModule(tokens)
       [] head = "loop" -> ParseLoop(tokens)
       [] head = "export" ->
            IF exported # <<>> /\ exported[1].text \in {"def", "extern", "alias", "module"}
            THEN <<Task("parse_builtin_commands", exported)>>
            ELSE IF Texts(exported) = <<"--help">> THEN HelpCall(tokens) ELSE <<Fail>>
       [] OTHER -> <<Task("parse_call", tokens)>>

----------------------------------------------------------------------------
(* Expressions.                                                            *)

(* The heads refused after a | or environment shorthand; the second item   *)
(* is that of the whole command.                                           *)
RefusedInPipeline(tokens, head) ==
  \/ tokens[head].text \in
       {"def", "extern", "for", "module", "use", "source", "alias", "export", "export-env", "hide", "const", "mut"}
  \/ tokens[head].text = "overlay" /\ (Len(tokens) > 1 => tokens[2].text # "list")
  \/ tokens[head].text = "plugin" /\ Len(tokens) > 1 /\ tokens[2].text = "use"

Assignable(tokens) == Len(tokens) = 1 /\ tokens[1].text \in {"$x", "("}

Assignment(tokens) ==
  LET equals == FirstOf(tokens, 1, {"="})
      lhs == SubSeq(tokens, 1, equals - 1)
      rhs == After(tokens, equals + 1)
  IN IF lhs = <<>> THEN <<Fail>>
     ELSE <<Task("element", lhs)>> \o
          (IF ~Assignable(lhs) \/ rhs = <<>> THEN <<Fail>> ELSE <<Block(rhs), Task("explicit_external", rhs)>>)

Shorthand == "V=1"

Expression(tokens, position) ==
  LET others == {i \in 1..Len(tokens) : tokens[i].text # Shorthand}
      head == CHOOSE i \in others : \A j \in others : i <= j
      rest == After(tokens, head)
  IN CASE position = "statement" /\ tokens[1].text \in StatementKeywords -> BuiltinCommands(tokens)
       [] others = {} -> <<Fail>>
       [] others # {} /\ ~(position = "statement" /\ tokens[1].text \in StatementKeywords) ->
            CASE (head > 1 \/ position = "element") /\ RefusedInPipeline(tokens, head) -> <<Fail>>
              [] OTHER ->
                   CASE FirstOf(rest, 1, {"="}) <= Len(rest) -> Assignment(rest)
                     [] FirstOf(rest, 1, {"="}) > Len(rest) /\ rest[1].text \in Openers \cup {"$x", "[]"} ->
                          <<Value(rest[1])>> \o (IF Len(rest) > 1 THEN <<Fail>> ELSE <<>>)
                     [] OTHER -> BuiltinCommands(rest)

----------------------------------------------------------------------------
(* The parse.                                                              *)

Init ==
  /\ source \in Sources
  /\ config \in Tables
  /\ work = <<Block(Lex(1, Len(source)))>>
  /\ scopes = <<EmptySet>>
  /\ comments = <<>> /\ ignored = <<>> /\ errors = <<>>
  /\ heads = {} /\ garbage = {}

(* The call on top of the stack is replaced by the calls it makes.         *)
Calling(do) == work # <<>> /\ work[1].do = do

Top == work[1].tokens

Span(token) == [from |-> token.from, to |-> token.to]

EnterScope ==
  /\ Calling("enter_scope")
  /\ scopes' = Append(scopes, EmptySet)
  /\ work' = Tail(work)
  /\ UNCHANGED <<source, config, comments, ignored, errors, heads, garbage>>

ExitScope ==
  /\ Calling("exit_scope")
  /\ scopes' = SubSeq(scopes, 1, Len(scopes) - 1)
  /\ work' = Tail(work)
  /\ UNCHANGED <<source, config, comments, ignored, errors, heads, garbage>>

(* The names of a block are declared before its first statement.           *)
ParseBlock ==
  /\ Calling("parse_block")
  /\ scopes' = [scopes EXCEPT ![Len(scopes)] = Insert(@, {d.name : d \in Declarations(Top)})]
  /\ errors' = errors \o SetToSeq({[what |-> "duplicate", from |-> d.from] : d \in Duplicates(Top)})
  /\ work' = <<Task("statements", Top)>> \o Tail(work)
  /\ UNCHANGED <<source, config, comments, ignored, heads, garbage>>

(* Line ends, semicolons and comments between statements.                  *)
Between ==
  /\ Calling("statements")
  /\ Top # <<>> => Top[1].text \in Separators \cup {Comment}
  /\ work' = IF Top = <<>> THEN Tail(work) ELSE <<Task("statements", Tail(Top))>> \o Tail(work)
  /\ comments' = IF Top # <<>> /\ Top[1].text = Comment THEN Append(comments, Span(Top[1])) ELSE comments
  /\ UNCHANGED <<source, config, scopes, ignored, errors, heads, garbage>>

(* The tokens without the comments among them.                             *)
Parts(tokens) ==
  LET parts[n \in 0..Len(tokens)] ==
        IF n = 0 THEN <<>>
        ELSE parts[n - 1] \o (IF tokens[n].text = Comment THEN <<>> ELSE <<tokens[n]>>)
  IN parts

(* The commands of a pipeline: after a = nothing ends one but the line.    *)
Pipes(tokens) == {i \in 1..FirstOf(tokens, 1, {"="}) - 1 : tokens[i].text = "|"}

ElementEnd(tokens, i) ==
  IF \E j \in Pipes(tokens) : j >= i THEN FirstOf(tokens, i, {"|"}) - 1 ELSE Len(tokens)

(* Where the first, the second ... command after the first one starts.     *)
ElementStarts(tokens) ==
  LET start[n \in 0..Cardinality(Pipes(tokens))] == IF n = 0 THEN 1 ELSE ElementEnd(tokens, start[n - 1]) + 2
  IN start

Elements(tokens) ==
  LET position == IF Pipes(tokens) = {} THEN "statement" ELSE "element"
      element(from) == Task(position, SubSeq(tokens, from, ElementEnd(tokens, from)))
  IN [n \in 1..Cardinality(Pipes(tokens)) + 1 |-> element(ElementStarts(tokens)[n - 1])]

(* The lite parse of a whole pipeline records its comments; then its       *)
(* elements are parsed.  Below them stays where an error is caught.        *)
Statement ==
  /\ Calling("statements")
  /\ Top # <<>> /\ Top[1].text \notin Separators \cup {Comment}
  /\ LET end == FirstOf(Top, 1, Separators)
         line == SubSeq(Top, 1, end - 1)
         recorded == SelectSeq(line, LAMBDA token : token.text = Comment)
     IN /\ comments' = comments \o [i \in 1..Len(recorded) |-> Span(recorded[i])]
        /\ work' = Elements(Parts(line)[Len(line)]) \o
                   <<Task("recover", line), Task("statements", After(Top, end))>> \o Tail(work)
  /\ UNCHANGED <<source, config, scopes, ignored, errors, heads, garbage>>

Recovered ==
  /\ Calling("recover")
  /\ work' = Tail(work)
  /\ UNCHANGED <<source, config, scopes, comments, ignored, errors, heads, garbage>>

(* The error drops every call up to the statement it is caught at.         *)
Recover ==
  LET caught == CHOOSE i \in 1..Len(work) :
        work[i].do = "recover" /\ \A j \in 1..i - 1 : work[j].do # "recover"
      line == work[caught].tokens
  IN /\ Calling("error")
     /\ work' = After(work, caught + 1)
     /\ errors' = Append(errors, [what |-> "error", from |-> line[1].from])
     /\ garbage' = garbage \cup {[from |-> line[1].from, to |-> line[Len(line)].to]}
     /\ UNCHANGED <<source, config, scopes, comments, ignored, heads>>

ParseExpression ==
  /\ Calling("statement") \/ Calling("element")
  /\ work' = Expression(Top, work[1].do) \o Tail(work)
  /\ UNCHANGED <<source, config, scopes, comments, ignored, errors, heads, garbage>>

ParseBuiltinCommands ==
  /\ Calling("parse_builtin_commands")
  /\ work' = BuiltinCommands(Top) \o Tail(work)
  /\ UNCHANGED <<source, config, scopes, comments, ignored, errors, heads, garbage>>

ParseCall ==
  /\ Calling("parse_call")
  /\ heads' = heads \cup {[from |-> Top[1].from, words |-> FindLongestDecl(Top)]}
  /\ work' = Values(After(Top, FindLongestDecl(Top) + 1)) \o Tail(work)
  /\ UNCHANGED <<source, config, scopes, comments, ignored, errors, garbage>>

ParseItem ==
  /\ Calling("parse_value")
  /\ work' = ParseValue(Top[1]) \o Tail(work)
  /\ UNCHANGED <<source, config, scopes, comments, ignored, errors, heads, garbage>>

AddIgnored ==
  /\ Calling("add_ignored")
  /\ ignored' = Append(ignored, Span(Top[1]))
  /\ work' = Tail(work)
  /\ UNCHANGED <<source, config, scopes, comments, errors, heads, garbage>>

(* Mutant: what the first parse dropped stays recorded.                    *)
KeepIgnored(spans, offset) == spans

RemoveIgnoredFrom(spans, offset) == SelectSeq(spans, LAMBDA span : span.from < offset)

(* The statement is parsed again, as an ordinary call.                     *)
ParseHelpCall ==
  /\ Calling("parse_help_call")
  /\ ignored' = RemoveIgnoredFrom(ignored, Top[1].from)
  /\ work' = <<Task("parse_call", Top)>> \o Tail(work)
  /\ UNCHANGED <<source, config, scopes, comments, errors, heads, garbage>>

InGarbage(p) == \E span \in garbage : span.from <= p /\ p <= span.to

(* A module body holds declarations only.                                  *)
ModuleItems ==
  LET isItem(i) ==
        /\ Top[i].text \in StatementKeywords \ {"let", "mut", "for"}
        /\ ~InGarbage(Top[i].from)
        /\ ~\E head \in heads : head.from = Top[i].from
  IN /\ Calling("is_module_item")
     /\ work' = (IF \A i \in 1..Len(Top) : StartsLine(Top, i) => isItem(i) THEN <<>> ELSE <<Fail>>) \o Tail(work)
     /\ UNCHANGED <<source, config, scopes, comments, ignored, errors, heads, garbage>>

(* An unknown head at the start of a value, when the commands are known.   *)
ExplicitExternal ==
  LET call == {head \in heads : head.from = Top[1].from}
      unknown == config # {} /\ FindDecl(<<Top[1].text>>) = "none"
  IN /\ Calling("explicit_external")
     /\ work' = (IF \E head \in call : head.words = 1 /\ unknown /\ ~InGarbage(head.from)
                 THEN <<Fail>> ELSE <<>>) \o Tail(work)
     /\ UNCHANGED <<source, config, scopes, comments, ignored, errors, heads, garbage>>

Next ==
  \/ EnterScope
  \/ ExitScope
  \/ ParseBlock
  \/ Between
  \/ Statement
  \/ Recovered
  \/ Recover
  \/ ParseExpression
  \/ ParseBuiltinCommands
  \/ ParseCall
  \/ ParseItem
  \/ AddIgnored
  \/ ParseHelpCall
  \/ ModuleItems
  \/ ExplicitExternal

Spec == Init /\ [][Next]_vars

(* What is handed out: sorted, and of equal neighbours one kept.           *)
Collected(spans) ==
  LET before(a, b) == a.from < b.from \/ (a.from = b.from /\ a.to < b.to)
      sorted == SortSeq(spans, before)
  IN FoldLeft(LAMBDA kept, span : IF kept # <<>> /\ Last(kept) = span THEN kept ELSE Append(kept, span), <<>>, sorted)

----------------------------------------------------------------------------
(* The source read without parsing it.                                     *)

(* The braces and parentheses around each position.                        *)
Around ==
  LET inside(outer, i) == IF i > 1 /\ source[i - 1] \in Openers THEN outer \cup {i - 1} ELSE outer
      leaving(open, i) == IF source[i] \in Closers THEN open \ {Max(open)} ELSE open
      step(around, i) == Append(around, leaving(inside(IF around = <<>> THEN {} ELSE Last(around), i), i))
  IN FoldLeft(step, <<>>, [i \in 1..Len(source) |-> i])

Assigned(p) == p > 1 /\ source[p - 1] = "="

(* Where a line, or the value of an assignment, begins.                    *)
Begins(p) == p = 1 \/ Assigned(p) \/ source[p - 1] \in Separators \cup Openers \cup {"|p|"}

Keyword(p) == IF source[p] = "export" THEN p + 1 ELSE p

Declares(p) == Begins(p) /\ Keyword(p) < Len(source) /\ source[Keyword(p)] \in {"def", "extern", "alias"}

NameAfter(p) == NameOf(source[CHOOSE i \in p + 1..Len(source) :
                   source[i] \notin Dashed /\ \A j \in p + 1..i - 1 : source[j] \in Dashed])

(* The names declared at the head of a line around p, before or after it,  *)
(* or at the head of an assigned value before it.                          *)
VisibleAt(around, p) ==
  {NameAfter(Keyword(i)) : i \in
     {j \in 1..Len(source) : Declares(j) /\ around[j] \subseteq around[p] /\ (Assigned(j) => j < p)}}

(* Once parsed, every head is the longest name that a declaration in a     *)
(* block around it, or the configured commands, give it: a name is in      *)
(* scope before and after its declaration and never outside of its block,  *)
(* whatever fails inside of the block.                                     *)
HeadsAreLexical ==
  LET words(p, names) ==
        {n \in 2..MaxCommandWords : p + n - 1 <= Len(source) /\ SubSeq(source, p, p + n - 1) \in names}
      lexical(around) ==
        \A head \in heads : head.words = Max({1} \cup words(head.from, VisibleAt(around, head.from) \cup config))
  IN work = <<>> => lexical(Around)

(* However deep in blocks an error is found, the scopes entered on the way *)
(* are left again: the outermost scope never is, and once parsed it is the *)
(* only one (enter_scope, exit_scope).                                     *)
ScopesAreLeft == Len(scopes) >= 1 /\ (work = <<>> => Len(scopes) = 1)

(* The head of the command p belongs to.                                   *)
HeadOf(around, p) ==
  Max({q \in 1..p : /\ Begins(q) \/ source[q - 1] = "|"
                   /\ source[q] \notin Closers /\ around[q] = around[p]})

(* What keyword statements drop: the end of their options, the body of an  *)
(* extern and a brace before the body of a def; a help call drops nothing. *)
Dropped(around, p) ==
  LET q == HeadOf(around, p)
      head == source[Keyword(q)]
      flags == {source[r] : r \in {i \in q..p - 1 : around[i] = around[p]}} \cap Dashed
      keywords == {"def", "extern"} \cup (IF <<"loop">> \in VisibleAt(around, p) THEN {} ELSE {"loop"})
  IN /\ "--help" \notin flags \/ "--" \in flags
     /\ \/ source[p] = "--" /\ head \in keywords /\ "--" \notin flags
        \/ source[p] = "{" /\ head = "extern"
        \/ source[p] = "{" /\ head = "def" /\ ItemEnd(p) < Len(source) /\ source[ItemEnd(p) + 1] = "{"

Ascending(spans) == \A i \in 2..Len(spans) : spans[i - 1].from < spans[i].from

(* A statement that asks for help: it may be parsed again, as a call.      *)
AsksForHelp(around, p) ==
  \E r \in 1..Len(source) :
    source[r] = "--help" /\ around[r] = around[p] /\ HeadOf(around, r) = HeadOf(around, p)

(* Once parsed, however often a construct was: the comments are those of   *)
(* the source, and the ignored text is what the statements that were       *)
(* accepted drop, each once and in source order, and nothing of a          *)
(* statement that turned out to be a help call.  Diagnostics are kept as   *)
(* reported (into_collected): the same one comes twice only from inside a  *)
(* statement that asks for help.                                           *)
CollectedOnce ==
  LET accepted == {p \in 1..Len(source) : ~InGarbage(p)}
      kept(spans) == {span.from : span \in ToSet(Collected(spans))} \cap accepted
      all(around, drops) ==
        /\ kept(comments) = {p \in accepted : source[p] = Comment /\ around[p] \cap drops = {}}
        /\ kept(ignored) = {p \in drops : around[p] \cap drops = {}}
      once(around) == all(around, {p \in accepted : source[p] \in {"--", "{"} /\ Dropped(around, p)})
      reported(around) ==
        \A i, j \in 1..Len(errors) :
          i # j /\ errors[i] = errors[j] => \E p \in around[errors[i].from] : AsksForHelp(around, p)
  IN work = <<>> => /\ Ascending(Collected(comments)) /\ Ascending(Collected(ignored))
                    /\ once(Around) /\ reported(Around)
=============================================================================
