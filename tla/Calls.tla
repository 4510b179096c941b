------------------------------- MODULE Calls -------------------------------
(***************************************************************************)
(* Calls (parser/parse_calls.rs): the argument an item stands for, the     *)
(* fixed signatures nu checks the keyword commands against, the four kinds *)
(* of head, and the words passed to external commands.                     *)
(*                                                                         *)
(* An item is a record of what the parsers look at in its text: what it    *)
(* leads with (--, -, ... or nothing), its body, and what stands after an  *)
(* =.  A word of an external command is a sequence of characters.          *)
(***************************************************************************)
EXTENDS Signatures

CONSTANTS
  Calls,           \* families of calls: [calls, kinds, most], calls and what items may follow
  SignatureTokens, \* families of signatures: [kinds, most, external], the tokens of each
  Parameters,      \* the parameters signatures are written from
  AttributeNames,  \* the names of attributes under study
  AttributeItems,  \* the items that may follow one
  Pieces,          \* the pieces of text words are written from
  MaxItems,        \* how many items an attribute may have
  MaxPieces,       \* how many pieces a word may have
  MaxWritten       \* how many parameters may be written

----------------------------------------------------------------------------
(* Arguments.                                                              *)

Item(lead, body, value) == [lead |-> lead, body |-> body, value |-> value]

Items == [lead : {"", "-", "--", "..."}, body : STRING, value : {"none", "missing", "given"}]

(* A call: a name of one word or more, or a sigil and a head, its items,    *)
(* whether it is an alias target, and what is known of the commands.       *)
CallRecords ==
  [sigil : {"", "^", "%"}, head : STRING, name : Seq(STRING), items : Seq(Items),
   lenient : BOOLEAN, table : BOOLEAN, known : BOOLEAN, builtin : BOOLEAN]

ASSUME CallsAssumption ==
  /\ \A family \in Calls : family.calls \subseteq CallRecords /\ family.kinds \subseteq Items /\ family.most \in Nat
  /\ AttributeNames \subseteq STRING /\ AttributeItems \subseteq Items /\ MaxItems \in Nat
  /\ \A family \in SignatureTokens : family.most \in Nat

Flag(name, long, value) == [kind |-> "flag", name |-> name, long |-> long, value |-> value]
Positional(item) == [kind |-> "positional", item |-> item]
Spread(item) == [kind |-> "spread", item |-> item]
EndOfOptions == [kind |-> "end"]

(* [a], [a].x, $v, (ls) and {a: 1}: what may follow the dots of a spread. *)
Lists == {"list", "list.x"}
SpreadHeads == Lists \cup {"$v", "(ls)", "{a:1}"}

NegativeNumberLike(item) == item.lead = "-" /\ item.body = "1"

IsSpread(item, heads) == item.lead = "..." /\ item.body \in heads

(* `--x=` lacks its value; every other item is some argument. *)
Valid(item) == ~(item.lead = "--" /\ item.value = "missing")

Argument(item) ==
  CASE item = Item("--", "", "none") -> EndOfOptions
    [] item.lead = "--" /\ item # Item("--", "", "none") -> Flag(item.body, TRUE, item.value)
    [] item.lead = "-" /\ item.body \notin {"", "..5"} /\ ~NegativeNumberLike(item) -> Flag(item.body, FALSE, "none")
    [] IsSpread(item, SpreadHeads) -> Spread(item)
    [] OTHER -> Positional(item)

Arguments(items) == [i \in 1..Len(items) |-> Argument(items[i])]

----------------------------------------------------------------------------
(* The keyword commands that are calls here (keyword_signature).           *)

NONE ==
  [required |-> 0, optional |-> 0, rest |-> FALSE, keyword |-> "", flags |-> {},
   allowsUnknownFlags |-> FALSE, acceptsNothing |-> FALSE]

NoSignature == [NONE EXCEPT !.keyword = "no_signature"]

Switch(long, short) == [long |-> long, short |-> short, takesValue |-> FALSE]
FlagWithValue(long, short) == [long |-> long, short |-> short, takesValue |-> TRUE]

KeywordSignature(name) ==
  CASE name = <<"hide">> -> [NONE EXCEPT !.required = 1, !.optional = 1]
    [] name \in {<<"source">>, <<"source-env">>} -> [NONE EXCEPT !.required = 1, !.acceptsNothing = TRUE]
    [] name = <<"run">> -> [NONE EXCEPT !.required = 1, !.rest = TRUE, !.flags = {Switch("full-reparse", "")},
                                        !.allowsUnknownFlags = TRUE, !.acceptsNothing = TRUE]
    [] name = <<"overlay", "new">> -> [NONE EXCEPT !.required = 1, !.flags = {Switch("reload", "r")}]
    [] name = <<"overlay", "use">> ->
         [NONE EXCEPT !.required = 1, !.keyword = "as", !.acceptsNothing = TRUE,
                      !.flags = {Switch("prefix", "p"), Switch("reload", "r")}]
    [] name = <<"overlay", "hide">> ->
         [NONE EXCEPT !.optional = 1, !.flags = {Switch("keep-custom", "k"), FlagWithValue("keep-env", "e")}]
    [] name = <<"overlay", "list">> -> NONE
    [] name = <<"plugin", "use">> -> [NONE EXCEPT !.required = 1, !.flags = {FlagWithValue("plugin-config", "")}]
    [] name \in {<<"attr", "category">>, <<"attr", "complete">>} -> [NONE EXCEPT !.required = 1]
    [] name = <<"attr", "deprecated">> ->
         [NONE EXCEPT !.optional = 1,
                      !.flags = {FlagWithValue(long, "") : long \in {"flag", "since", "remove", "report"}}]
    [] name = <<"attr", "example">> -> [NONE EXCEPT !.required = 2, !.flags = {FlagWithValue("result", "")}]
    [] name = <<"attr", "interactive">> -> NONE
    [] name = <<"attr", "search-terms">> -> [NONE EXCEPT !.rest = TRUE]
    [] OTHER -> NoSignature

(* A head of two words that was resolved as one: the subcommand is the     *)
(* first argument.                                                         *)
Subcommand(name, arguments) ==
  KeywordSignature(name) = NoSignature /\ name \in {<<"overlay">>, <<"plugin">>} /\
  arguments # <<>> /\ arguments[1].kind = "positional" /\ arguments[1].item.lead = ""

FullName(name, arguments) == IF Subcommand(name, arguments) THEN Append(name, arguments[1].item.body) ELSE name
Checked(name, arguments) == IF Subcommand(name, arguments) THEN Tail(arguments) ELSE arguments

UnknownFlag == Switch("", "")

KnownFlag(signature, flag) ==
  LET known == {f \in signature.flags : flag.name = (IF flag.long THEN f.long ELSE f.short)}
  IN IF known = {} THEN UnknownFlag ELSE CHOOSE f \in known : TRUE

Help(flag) == flag.name = (IF flag.long THEN "help" ELSE "h")

(* The kind of value an item is, for the first positional of the commands. *)
Nothing == {"null"}
NoString == {"true", "{a:1}", "{||}"}

(* Mutant: -1 is a number. *)
DashedWord(item) == item.lead = "-" /\ item.body \notin {"", "1", "..5"}

Dashed(item) == item.lead = "-" /\ item.body # ""

(* The check goes through the arguments once: how many positionals it has   *)
(* counted, whether the keyword was seen and the options are over, whether  *)
(* the next argument is already taken, and the reason to refuse the call.  *)
Counted(t) == [t EXCEPT !.positionals = @ + 1]
PositionalNext(as, i) == i < Len(as) /\ as[i + 1].kind = "positional"

CheckFlag(s, as, lenient, i, t) ==
  LET known == KnownFlag(s, as[i])
      satisfied == ~known.takesValue \/ as[i].value # "none"
  IN IF Help(as[i]) THEN [t EXCEPT !.out = "done"]
     ELSE IF known = UnknownFlag THEN IF s.allowsUnknownFlags THEN t ELSE Refuse(t, "unknown_flag")
     ELSE IF satisfied THEN t
     ELSE IF PositionalNext(as, i) THEN [t EXCEPT !.skip = TRUE]
     ELSE IF lenient THEN t ELSE Refuse(t, "missing_flag_value")

(* The keyword, which takes the argument after it, where a positional would *)
(* be one too many.                                                        *)
CheckKeyword(s, as, i, t) ==
  IF t.keywordSeen THEN Refuse(t, "extra_positional")
  ELSE IF as[i].item # Item("", s.keyword, "none") THEN Refuse(t, "expected_keyword")
  ELSE IF PositionalNext(as, i) THEN [t EXCEPT !.skip = TRUE, !.keywordSeen = TRUE]
  ELSE Refuse(t, "missing_keyword_argument")

CheckPositional(s, as, i, t) ==
  LET item == as[i].item
      last == s.required + s.optional
      noString == item.lead = "" /\ (item.body \in NoString \/ (item.body \in Nothing /\ ~s.acceptsNothing))
  IN IF ~t.ended /\ Dashed(item) /\ ~s.allowsUnknownFlags THEN Refuse(t, "unknown_flag")
     ELSE IF s.keyword # "" /\ t.positionals >= last /\ ~s.rest THEN CheckKeyword(s, as, i, t)
     ELSE IF t.positionals = 0 /\ noString THEN Refuse(t, "expected_string")
     ELSE IF ~s.rest /\ t.positionals + 1 > last THEN Refuse(t, "extra_positional")
     ELSE Counted(t)

CheckArgument(s, as, lenient, i, t) ==
  LET kind == as[i].kind
  IN CASE t.out # "checking" -> t
       [] t.out = "checking" /\ t.skip -> [t EXCEPT !.skip = FALSE]
       [] OTHER ->
            CASE kind = "end" -> [t EXCEPT !.ended = TRUE]
              [] kind = "flag" -> IF t.ended THEN Counted(t) ELSE CheckFlag(s, as, lenient, i, t)
              [] kind = "spread" -> [t EXCEPT !.positionals = s.required]
              [] kind = "positional" -> CheckPositional(s, as, i, t)

(* What the check makes of the arguments up to each. *)
CheckEach(s, as, lenient) ==
  LET start == [positionals |-> 0, keywordSeen |-> FALSE, ended |-> FALSE, skip |-> FALSE, out |-> "checking"]
      check[i \in 0..Len(as)] == IF i = 0 THEN start ELSE CheckArgument(s, as, lenient, i, check[i - 1])
  IN check

CheckEnd(s, lenient, t) ==
  IF t.out # "checking" THEN t.out
  ELSE IF t.positionals < s.required /\ ~lenient THEN "missing_positional" ELSE "done"

(* Mutant: every call is checked like an alias target. *)
AlwaysLenient(s, as, lenient) == CheckEnd(s, TRUE, CheckEach(s, as, TRUE)[Len(as)])

CheckCallArguments(s, as, lenient) == CheckEnd(s, lenient, CheckEach(s, as, lenient)[Len(as)])

(* Mutant: an alias target is not checked at all. *)
CheckCallUnlessLenient(name, arguments, lenient) ==
  LET signature == KeywordSignature(FullName(name, arguments))
  IN IF lenient \/ signature = NoSignature THEN "done"
     ELSE CheckCallArguments(signature, Checked(name, arguments), lenient)

CheckCall(name, arguments, lenient) ==
  LET signature == KeywordSignature(FullName(name, arguments))
  IN IF signature = NoSignature THEN "done"
     ELSE CheckCallArguments(signature, Checked(name, arguments), lenient)

----------------------------------------------------------------------------
(* The heads of a call.                                                    *)

(* Mutant: a spread list is not looked at. *)
PositionalListEnds(argument) == argument.kind = "positional" => argument.item.body # "list.x"

(* nu hands a list argument of an external command to its list parser,     *)
(* which needs a ] at the end.                                             *)
ListEnds(argument) == argument.kind \in {"positional", "spread"} => argument.item.body # "list.x"

(* The items of ^cmd: a spread takes no record, and every other item is a   *)
(* word as it is written, flags and dashes included.                       *)
ExternalArgument(item) == IF IsSpread(item, SpreadHeads \ {"{a:1}"}) THEN Spread(item) ELSE Positional(item)

ExternalCall(items) ==
  LET argument(i) == ExternalArgument(items[i])
      bare == {i \in 1..Len(items) : argument(i).kind = "spread" \/ argument(i).item.lead = ""}
  IN IF \A i \in bare : ListEnds(argument(i)) THEN "external" ELSE "unclosed"

(* %cmd, %$var and %(expr): the head is the rest of the item, or the next   *)
(* item after a bare %.                                                    *)
PercentCall(call) ==
  LET bare == call.head = ""
      next == call.items[1]
      head == IF ~bare THEN call.head ELSE IF next.lead = "" THEN next.body ELSE "word"
      rest == IF bare /\ call.items # <<>> THEN Tail(call.items) ELSE call.items
      arguments == IF \A i \in 1..Len(rest) : Valid(rest[i]) THEN "done" ELSE "missing_value"
  IN IF bare /\ call.items = <<>> THEN "no_command"
     ELSE CASE head \in {"$v", "(ls)"} -> IF arguments = "done" THEN "dynamic" ELSE arguments
            [] head \in Lists \cup {"{a:1}", "{||}", "quoted"} -> "no_command"
            [] OTHER -> IF call.table /\ ~call.builtin THEN "no_command" ELSE arguments

ParseCall(call) ==
  LET arguments == Arguments(call.items)
      check == CheckCall(call.name, arguments, call.lenient)
  IN CASE call.sigil = "^" -> ExternalCall(call.items)
       [] call.sigil = "%" -> PercentCall(call)
       [] OTHER ->
            CASE \E i \in 1..Len(call.items) : ~Valid(call.items[i]) -> "missing_value"
              [] check # "done" -> check
              [] call.table /\ ~call.known /\ \E i \in 1..Len(arguments) : ~ListEnds(arguments[i]) -> "unclosed"
              [] OTHER -> "done"

(* @name arguments, checked like a call of `attr name`. *)
ParseAttribute(name, items) ==
  CASE name = "" -> "no_name"
    [] \E i \in 1..Len(items) : ~Valid(items[i]) -> "missing_value"
    [] OTHER -> CheckCall(<<"attr", name>>, Arguments(items), FALSE)

----------------------------------------------------------------------------
(* The words passed to external commands (parse_external_string).          *)

Quotes == {"'", "\""}

Char(word, i) == IF i \in 1..Len(word) THEN word[i] ELSE "end"

(* Mutant: a quote after a backslash closes its string. *)
NeverEscapes(s, c) == FALSE

(* Whether a byte of a quoted string escapes the one after it. *)
Escapes(s, c) == c = "\\" /\ ~s.escaped /\ s.mode = "\""

(* One byte of the word, in a bare run, a quote, backticks or parentheses: *)
(* a $ before a quote belongs to the string it opens.                      *)
Step(word, s, i) ==
  LET c == word[i]
      dollar == c = "$" /\ Char(word, i + 1) \in Quotes
      open(mode) == [s EXCEPT !.segments = IF i > s.from THEN Append(@, <<s.from, i - 1>>) ELSE @,
                              !.from = i, !.mode = mode, !.skip = dollar, !.depth = 1]
      close == [s EXCEPT !.segments = Append(@, <<s.from, i>>), !.from = i + 1, !.mode = "bare"]
  IN CASE s.skip -> [s EXCEPT !.skip = FALSE]
       [] s.mode = "bare" /\ ~s.skip ->
            CASE dollar -> open(word[i + 1]) [] c \in Quotes \cup {"backtick", "("} -> open(c) [] OTHER -> s
       [] s.mode \in Quotes /\ ~s.skip ->
            IF c = s.mode /\ ~s.escaped THEN close
            ELSE [s EXCEPT !.escaped = Escapes(s, c)]
       [] s.mode = "backtick" -> IF c = "backtick" THEN close ELSE s
       [] s.mode = "(" -> IF c = ")" /\ s.depth = 1 THEN close
                          ELSE [s EXCEPT !.depth = CASE c = ")" -> @ - 1 [] c = "(" -> @ + 1 [] OTHER -> @]

Segments(word) ==
  LET start == [segments |-> <<>>, from |-> 1, mode |-> "bare", escaped |-> FALSE, depth |-> 0, skip |-> FALSE]
      s == FoldLeftDomain(LAMBDA t, i : Step(word, t, i), start, word)
  IN IF s.from <= Len(word) THEN Append(s.segments, <<s.from, Len(word)>>) ELSE s.segments

(* What a segment is parsed as: text, or an expression in parentheses of   *)
(* its own or of an interpolated string (where \( is text in double quotes). *)
SegmentKind(text) ==
  LET interpolates(i) == text[i] = "(" /\ (text[2] = "'" \/ text[i - 1] # "\\")
  IN IF text[1] = "(" \/ (text[1] = "$" /\ Char(text, 2) \in Quotes /\ \E i \in 3..Len(text) : interpolates(i))
     THEN "expression" ELSE "text"

(* A word of text alone is one string, any other an interpolation. *)
ExternalString(word) ==
  LET segments == [i \in 1..Len(Segments(word)) |-> SubSeq(word, Segments(word)[i][1], Segments(word)[i][2])]
  IN [segments |-> segments,
      out |-> IF \A i \in 1..Len(segments) : SegmentKind(segments[i]) = "text"
              THEN "string" ELSE "interpolation"]

----------------------------------------------------------------------------
Result(out) == [segments |-> <<>>, out |-> out]

Upto(n, kinds) == UNION {[1..k -> kinds] : k \in 0..n}

(* A bare $ before a quote is no piece of its own. *)
IsWord(pieces) == \A i \in 1..(Len(pieces) - 1) : pieces[i] = <<"$">> => pieces[i + 1][1] \notin Quotes

Init ==
  /\ \/ \E family \in Calls : \E call \in family.calls, items \in Upto(family.most, family.kinds) :
          input = <<"call", [call EXCEPT !.items = @ \o items]>>
     \/ \E name \in AttributeNames, items \in Upto(MaxItems, AttributeItems) : input = <<"attribute", <<name, items>>>>
     \/ \E pieces \in Upto(MaxPieces, Pieces) : IsWord(pieces) /\ input = <<"word", pieces>>
     \/ \E family \in SignatureTokens : \E tokens \in Upto(family.most, family.kinds), external \in BOOLEAN :
          input = <<"signature", tokens, external>>
     \/ \E params \in Upto(MaxWritten, Parameters) : input = <<"written", params>>
  /\ result = Unparsed

Call ==
  /\ result = Unparsed /\ input[1] = "call"
  /\ result' = Result(ParseCall(input[2]))
  /\ UNCHANGED input

Attribute ==
  /\ result = Unparsed /\ input[1] = "attribute"
  /\ result' = Result(ParseAttribute(input[2][1], input[2][2]))
  /\ UNCHANGED input

Word ==
  /\ result = Unparsed /\ input[1] = "word"
  /\ result' = ExternalString(FlattenSeq(input[2]))
  /\ UNCHANGED input

Next == Call \/ Attribute \/ Word \/ Signature \/ WrittenSignature

Spec == Init /\ [][Next]_vars

----------------------------------------------------------------------------
(* Properties.                                                             *)

Accepted == result.out \in {"done", "external", "dynamic"}

(* The checked call: its signature and arguments. *)
CheckedArguments ==
  IF input[1] = "call" THEN Checked(input[2].name, Arguments(input[2].items)) ELSE Arguments(input[2][2])
OwnSignature ==
  KeywordSignature(IF input[1] = "call" THEN FullName(input[2].name, Arguments(input[2].items))
                   ELSE <<"attr", input[2][1]>>)
IsChecked == input[1] \in {"call", "attribute"} /\ (input[1] = "call" => input[2].sigil = "") /\ OwnSignature # NoSignature

Unmarked(as, i) == \A j \in 1..(i - 1) : as[j].kind # "end"
AskedForHelp(as) == \E i \in 1..Len(as) : as[i].kind = "flag" /\ Help(as[i]) /\ Unmarked(as, i)

(* The flags that take the argument after them, and the other arguments    *)
(* that count as positionals: after a -- every flag is one.                *)
TakesNext(as, i) ==
  /\ as[i].kind = "flag" /\ as[i].value = "none" /\ Unmarked(as, i)
  /\ KnownFlag(OwnSignature, as[i]).takesValue

PositionalAt(as, i) ==
  \/ as[i].kind = "positional" /\ ~(i > 1 /\ TakesNext(as, i - 1))
  \/ as[i].kind = "flag" /\ ~Unmarked(as, i)

HasSpread(as) == \E i \in 1..Len(as) : as[i].kind = "spread"

(* A keyword command that is accepted without a spread or --help has the   *)
(* positionals its signature requires, and of those that are no flags it    *)
(* has no more than allowed, but for `as` and a name: counting a flag's     *)
(* value, a marker or the keyword the wrong way breaks it                   *)
(* (check_call_arguments).                                                 *)
PositionalsMatchSignature ==
  LET as == CheckedArguments
      positions == {i \in 1..Len(as) : PositionalAt(as, i)}
      plain == {i \in positions : as[i].kind = "positional"}
      extra == Cardinality(plain) - (OwnSignature.required + OwnSignature.optional)
      last == CHOOSE i \in plain : \A j \in plain : j <= i
  IN IsChecked /\ Accepted /\ ~AskedForHelp(as) /\ ~HasSpread(as) =>
       /\ Cardinality(positions) >= OwnSignature.required \/ (input[1] = "call" /\ input[2].lenient)
       /\ extra > 0 /\ ~OwnSignature.rest =>
            extra <= 2 /\ OwnSignature.keyword # "" /\ as[last - 1] = Positional(Item("", OwnSignature.keyword, "none"))

(* After a -- a flag is a positional (check_call_arguments says so): a      *)
(* command takes no more of the two kinds together than its signature has.  *)
FlagsAfterMarkerAreCounted ==
  LET as == CheckedArguments
  IN IsChecked /\ Accepted /\ ~AskedForHelp(as) /\ ~HasSpread(as) /\ ~OwnSignature.rest /\ OwnSignature.keyword = "" =>
       Cardinality({i \in 1..Len(as) : PositionalAt(as, i)}) <= OwnSignature.required + OwnSignature.optional

(* nu has no unknown flags (but for run): an item that reads as a flag      *)
(* before the marker is one the signature names, even -1 and -..5, unless   *)
(* it is the value of a flag or a --help comes first.                       *)
FlagsAreKnown ==
  LET as == CheckedArguments
      dashed(i) == as[i].kind = "positional" /\ as[i].item.lead = "-" /\ as[i].item.body # ""
  IN IsChecked /\ Accepted /\ ~AskedForHelp(as) /\ ~OwnSignature.allowsUnknownFlags =>
       \A i \in 1..Len(as) : Unmarked(as, i) /\ ~(i > 1 /\ TakesNext(as, i - 1)) =>
         /\ ~dashed(i) \/ (i > 1 /\ as[i - 1] = Positional(Item("", OwnSignature.keyword, "none")))
         /\ as[i].kind = "flag" => KnownFlag(OwnSignature, as[i]) # UnknownFlag

(* The arguments with the value of every flag that misses its own, and n    *)
(* more positionals.                                                       *)
Completed(as, n) ==
  LET word == Positional(Item("", "word", "none"))
      misses(i) == TakesNext(as, i) /\ ~(i < Len(as) /\ as[i + 1].kind = "positional")
  IN FlattenSeq([i \in 1..Len(as) |-> IF misses(i) THEN <<as[i], word>> ELSE <<as[i]>>]) \o [i \in 1..n |-> word]

(* An alias target may miss positionals and flag values and nothing else    *)
(* (the leniency of check_call): what is accepted as one is accepted as a   *)
(* call once they are put in, and every call is accepted as a target.       *)
LenientOnlyMisses ==
  IsChecked /\ input[1] = "call" =>
    LET check(as, lenient) == CheckCallArguments(OwnSignature, as, lenient)
    IN /\ result.out = "done" /\ input[2].lenient =>
            \E n \in 0..2 : check(Completed(CheckedArguments, n), FALSE) = "done"
       /\ result.out = "done" => check(CheckedArguments, TRUE) = "done"

(* No list with a cell path after it reaches nu's list parser: neither in   *)
(* ^cmd nor in a call nu takes for an external one, and neither as an       *)
(* argument of its own nor spread (check_external_list_argument).           *)
ExternalListsEndWithBracket ==
  Parsed("call") /\ Accepted /\ (input[2].sigil = "^" \/ (input[2].sigil = "" /\ input[2].table /\ ~input[2].known)) =>
    \A i \in 1..Len(input[2].items) :
      ~(input[2].items[i].lead \in {"", "..."} /\ input[2].items[i].body = "list.x")

(* The pieces of a word with the bare ones next to each other joined. *)
Bare(piece) == piece[1] \notin Quotes \cup {"backtick", "("} /\ ~(piece[1] = "$" /\ Char(piece, 2) \in Quotes)
Joined(pieces) ==
  FoldLeft(LAMBDA joined, piece :
             IF joined # <<>> /\ Bare(piece) /\ Bare(Last(joined))
             THEN Append(Front(joined), Last(joined) \o piece) ELSE Append(joined, piece),
           <<>>, pieces)

(* A word is cut exactly into the quoted, backticked, parenthesised and     *)
(* bare pieces it was written from: no piece ends early at a quote or a     *)
(* parenthesis inside another, and no character is lost between two.        *)
SegmentsAreThePieces == Parsed("word") => result.segments = Joined(input[2])
=============================================================================
