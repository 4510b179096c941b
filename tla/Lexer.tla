------------------------------- MODULE Lexer -------------------------------
(***************************************************************************)
(* The lexer, src/lex.rs: next_token and lex_n_tokens cut the text into    *)
(* tokens, and item_length measures an item byte by byte, because an       *)
(* item's end depends on the quotes and brackets open at each byte.        *)
(*                                                                         *)
(* One action is one arm of next_token's dispatch or of item_length's      *)
(* match.  Offsets count from 0, as in the code; `base` only shifts them   *)
(* and is 0 here.                                                          *)
(***************************************************************************)
EXTENDS Integers, Sequences

CONSTANT Inputs   (* the calls: the arguments of lex_n_tokens or of group_end *)

(***************************************************************************)
(* The bytes the lexer tells apart.  "a" is any byte without a meaning of  *)
(* its own; "o", "e" and "oe" stand for the spellings of the stream names  *)
(* (o/out, e/err, o+e/e+o/out+err/err+out), "op" for the + - * / ++ before *)
(* an = .  FF, the form feed, is white space to is_ascii_whitespace only.  *)
(***************************************************************************)
Byte ==
  {"SP", "TAB", "NL", "CR", "FF", "SQ", "DQ", "BT", "BS",
   "#", "|", ";", "$", "(", ")", "[", "]", "{", "}", "<", ">",
   ",", ":", "=", ".", "?", "!", "&", "1", "2", "r", "o", "e", "oe", "op", "a"}

LexOptions ==
  [additional_whitespace : SUBSET Byte, special_tokens : SUBSET Byte,
   skip_comments : BOOLEAN, in_signature : BOOLEAN]

(* One call.  lex passes usize::MAX for max_tokens; group_end is the call    *)
(* with first_group, and always scans with BLOCK.                           *)
Call == [text : Seq(Byte), options : LexOptions, max_tokens : Nat, first_group : BOOLEAN]

Opts(white, special, skip, sig) ==
  [additional_whitespace |-> white, special_tokens |-> special,
   skip_comments |-> skip, in_signature |-> sig]

BLOCK         == Opts({}, {}, FALSE, FALSE)
SUBEXPRESSION == Opts({"NL", "CR"}, {}, FALSE, FALSE)
LIST          == Opts({"NL", "CR", ","}, {}, FALSE, FALSE)
RECORD_KEY    == Opts({"NL", "CR", ","}, {":"}, FALSE, FALSE)
SIGNATURE     == Opts({"NL", "CR"}, {":", "=", ","}, FALSE, TRUE)
IO_TYPES      == Opts({"NL", "CR", ","}, {}, TRUE, TRUE)
CELL_PATH     == Opts({"NL", "CR"}, {".", "?", "!"}, TRUE, FALSE)
BRACE_PROBE   == Opts({"CR", "NL", "TAB"}, {":"}, TRUE, FALSE)

ASSUME InputsAssumption ==
  /\ Inputs \subseteq Call
  /\ \A i \in Inputs : i.first_group => i.options = BLOCK

VARIABLES
  text, options, max_tokens, first_group,   \* the call
  pc,                \* next_token / scan / end / done / failed
  at,                \* the read position: item_length's start + offset
  start,             \* where the item being scanned starts
  quote,             \* the quote we are inside, and where it opened
  quote_is_interp,
  interp_level,      \* delimiters open in a (...) of an interpolated string
  in_comment,
  brackets,
  previous,          \* the byte the last step of the scan looked at
  tokens,
  diagnostic

scanner == <<quote, quote_is_interp, interp_level, in_comment, brackets, previous>>
inputs  == <<text, options, max_tokens, first_group>>
outputs == <<tokens, diagnostic>>
vars    == <<text, options, max_tokens, first_group, pc, at, start, quote,
             quote_is_interp, interp_level, in_comment, brackets, previous, tokens, diagnostic>>

----------------------------------------------------------------------------
NoQuote == [byte |-> "none", at |-> 0]
NoError == [kind |-> "none", delimiter |-> "none", open |-> 0, at |-> 0]

ByteAt(i) == text[i + 1]
Size      == Len(text)

(* The bytes from i that are in S end at j: take_while, take_till. *)
Run(i, j, S) ==
  /\ i <= j
  /\ \A k \in i..(j - 1) : ByteAt(k) \in S
  /\ j < Size => ByteAt(j) \notin S

Whitespace      == {"SP", "TAB", "CR"} \union options.additional_whitespace
AsciiWhitespace == {"SP", "TAB", "NL", "CR", "FF"}
Terminators     == {"SP", "TAB", "NL", "CR", "|", ";"}
                     \union options.additional_whitespace
                     \union options.special_tokens

Top(stack) == stack[Len(stack)]
Pop(stack) == SubSeq(stack, 1, Len(stack) - 1)

(* Mutant: a terminator ends the item inside brackets too. *)
IsTerminatorAnywhere(b) == b \in Terminators

IsTerminator(b) == brackets = <<>> /\ b \in Terminators

Quotes  == {"SQ", "DQ", "BT"}
Openers == {"[", "{", "("} \union (IF options.in_signature THEN {"<"} ELSE {})
Closers == {"]", "}", ")"}
Opener(b) == CASE b = "]" -> "["
               [] b = "}" -> "{"
               [] b = ")" -> "("
               [] b = ">" -> "<"

Redirections == {<<s, ">">> : s \in {"o", "e", "oe"}}

ItemContents(item) ==
  IF item \in {<<"=">>, <<"op", "=">>} THEN "AssignmentOperator"
  ELSE IF item \in Redirections \union {<<s, ">", ">">> : s \in {"o", "e", "oe"}}
                     \union {<<s, ">", "|">> : s \in {"e", "oe"}} THEN "Redirection"
  ELSE IF item \in {<<"o", ">", "|">>, <<"&", "&">>, <<"2", ">">>, <<"2", ">", "&", "1">>} THEN "ShellSyntax"
  ELSE "Item"

Slice(i, j) == SubSeq(text, i + 1, j)

----------------------------------------------------------------------------
(***************************************************************************)
(* lex_n_tokens starts at the start of the text.  group_end runs           *)
(* item_length once, from the bracket the text must open with.             *)
(***************************************************************************)
FirstState ==
  IF ~ first_group THEN "next_token"
  ELSE IF text # <<>> /\ text[1] \in {"(", "[", "{"} THEN "scan"
  ELSE "failed"

Init ==
  /\ \E i \in Inputs :
       /\ text = i.text /\ options = i.options
       /\ max_tokens = i.max_tokens /\ first_group = i.first_group
  /\ pc = FirstState
  /\ at = 0 /\ start = 0
  /\ quote = NoQuote /\ quote_is_interp = FALSE
  /\ interp_level = <<>> /\ in_comment = FALSE
  /\ brackets = <<>> /\ previous = "none"
  /\ tokens = <<>> /\ diagnostic = NoError

----------------------------------------------------------------------------
(***************************************************************************)
(* next_token: p is where skip_whitespace stops.                           *)
(***************************************************************************)
Token(contents, s, e) == [contents |-> contents, start |-> s, end |-> e]

Skipped(p) == pc = "next_token" /\ Run(at, p, Whitespace)

(* The loop of lex_n_tokens goes on, and b is the byte lex_token peeks. *)
Peeks(p, b) == Skipped(p) /\ Len(tokens) < max_tokens /\ p < Size /\ ByteAt(p) = b

Emits(contents, s, e) ==
  /\ tokens' = Append(tokens, Token(contents, s, e))
  /\ at' = e
  /\ pc' = "next_token"
  /\ UNCHANGED <<inputs, start, scanner, diagnostic>>

LexEof(p) ==
  /\ Skipped(p)
  /\ p = Size \/ Len(tokens) >= max_tokens
  /\ tokens' = Append(tokens, Token("Eof", p, p))
  /\ at' = p
  /\ pc' = "done"
  /\ UNCHANGED <<inputs, start, scanner, diagnostic>>

LexNewline(p) == Peeks(p, "NL") /\ Emits("Eol", p, p + 1)

LexSemicolon(p) == Peeks(p, ";") /\ Emits("Semicolon", p, p + 1)

LexPipe(p) ==
  /\ Peeks(p, "|")
  /\ IF p + 1 < Size /\ ByteAt(p + 1) = "|"
     THEN Emits("PipePipe", p, p + 2)
     ELSE Emits("Pipe", p, p + 1)

(* Mutant: a CR ends the comment. *)
LexCommentToCR(p, e) ==
  /\ Peeks(p, "#")
  /\ Run(p, e, Byte \ {"NL", "CR"})
  /\ ~ options.skip_comments
  /\ Emits("Comment", p, e)

(* A comment runs to the newline; a CR is part of it. *)
LexComment(p, e) ==
  /\ Peeks(p, "#")
  /\ Run(p, e, Byte \ {"NL"})
  /\ ~ options.skip_comments
  /\ Emits("Comment", p, e)

(* Mutant: the skipped comment is read again. *)
SkipCommentStays(p, e) ==
  /\ Peeks(p, "#")
  /\ Run(p, e, Byte \ {"NL"})
  /\ options.skip_comments
  /\ at' = p
  /\ UNCHANGED <<inputs, pc, start, scanner, outputs>>

SkipComment(p, e) ==
  /\ Peeks(p, "#")
  /\ Run(p, e, Byte \ {"NL"})
  /\ options.skip_comments
  /\ at' = e
  /\ UNCHANGED <<inputs, pc, start, scanner, outputs>>

(* item_length's locals, as lex_item calls it at p. *)
BeginItem(p) ==
  /\ Skipped(p)
  /\ Len(tokens) < max_tokens
  /\ p < Size /\ ByteAt(p) \notin {"NL", "#", "|", ";"}
  /\ pc' = "scan"
  /\ at' = p /\ start' = p
  /\ quote' = NoQuote
  /\ quote_is_interp' = FALSE
  /\ interp_level' = <<>>
  /\ in_comment' = FALSE
  /\ brackets' = <<>>
  /\ previous' = "none"
  /\ UNCHANGED <<inputs, outputs>>

----------------------------------------------------------------------------
(***************************************************************************)
(* item_length: one step of its while loop per action.                     *)
(***************************************************************************)
Scanning == pc = "scan" /\ at < Size

Step(n) ==
  /\ at' = at + n
  /\ previous' = ByteAt(at)
  /\ UNCHANGED <<inputs, pc, start, outputs>>

(* `break` with the item ending at e. *)
Break(e) ==
  /\ at' = e
  /\ pc' = "end"
  /\ UNCHANGED <<inputs, start, previous, outputs>>

Fails(kind, delimiter, open, where) ==
  /\ diagnostic' = [kind |-> kind, delimiter |-> delimiter, open |-> open, at |-> where]
  /\ pc' = "failed"
  /\ UNCHANGED <<inputs, at, start, scanner, tokens>>

(* -- inside $"... ( ... )": interp_subexpr_step ------------------------- *)
InInterp == Scanning /\ quote # NoQuote /\ interp_level # <<>>

Expected == Top(interp_level).byte

(* Mutant: the escaped byte is skipped without looking for the end. *)
InterpEscapeTwo ==
  /\ InInterp
  /\ Expected = "DQ" /\ ByteAt(at) = "BS"
  /\ Step(2)
  /\ UNCHANGED <<quote, quote_is_interp, interp_level, in_comment, brackets>>

InterpEscape ==
  /\ InInterp
  /\ Expected = "DQ" /\ ByteAt(at) = "BS"
  /\ Step(IF at + 1 < Size THEN 2 ELSE 1)
  /\ UNCHANGED <<quote, quote_is_interp, interp_level, in_comment, brackets>>

InterpClose ==
  /\ InInterp
  /\ ByteAt(at) = Expected
  /\ Step(1)
  /\ interp_level' = Pop(interp_level)
  /\ UNCHANGED <<quote, quote_is_interp, in_comment, brackets>>

InterpOpen ==
  /\ InInterp
  /\ Expected = ")" /\ ByteAt(at) \in Quotes \union {"("}
  /\ Step(1)
  /\ interp_level' = Append(interp_level,
        [byte |-> IF ByteAt(at) = "(" THEN ")" ELSE ByteAt(at), at |-> at])
  /\ UNCHANGED <<quote, quote_is_interp, in_comment, brackets>>

InterpText ==
  /\ InInterp
  /\ ByteAt(at) # Expected
  /\ ~ (Expected = "DQ" /\ ByteAt(at) = "BS")
  /\ ~ (Expected = ")" /\ ByteAt(at) \in Quotes \union {"("})
  /\ Step(1)
  /\ UNCHANGED <<quote, quote_is_interp, interp_level, in_comment, brackets>>

(* -- inside a quote ----------------------------------------------------- *)
InQuote == Scanning /\ quote # NoQuote /\ interp_level = <<>>

QuoteEscape ==
  /\ InQuote
  /\ quote.byte = "DQ" /\ ByteAt(at) = "BS"
  /\ IF at + 1 >= Size
     THEN Fails("Unclosed", quote.byte, quote.at, at + 1)
     ELSE /\ Step(2)
          /\ UNCHANGED <<quote, quote_is_interp, interp_level, in_comment, brackets>>

QuoteClose ==
  /\ InQuote
  /\ ByteAt(at) = quote.byte
  /\ Step(1)
  /\ quote' = NoQuote
  /\ UNCHANGED <<quote_is_interp, interp_level, in_comment, brackets>>

(* Mutant: every string is interpolated. *)
AnyQuoteSubexpression ==
  /\ InQuote
  /\ ByteAt(at) = "("
  /\ Step(1)
  /\ interp_level' = <<[byte |-> ")", at |-> at]>>
  /\ UNCHANGED <<quote, quote_is_interp, in_comment, brackets>>

QuoteSubexpression ==
  /\ InQuote
  /\ quote_is_interp /\ ByteAt(at) = "("
  /\ Step(1)
  /\ interp_level' = <<[byte |-> ")", at |-> at]>>
  /\ UNCHANGED <<quote, quote_is_interp, in_comment, brackets>>

QuoteText ==
  /\ InQuote
  /\ ByteAt(at) # quote.byte
  /\ ~ (quote.byte = "DQ" /\ ByteAt(at) = "BS")
  /\ ~ (quote_is_interp /\ ByteAt(at) = "(")
  /\ Step(1)
  /\ UNCHANGED <<quote, quote_is_interp, interp_level, in_comment, brackets>>

(* -- outside quotes: the arms of the match, in their order --------------- *)
Outside == Scanning /\ quote = NoQuote

QuotingUnchanged == UNCHANGED <<quote, quote_is_interp, interp_level>>

(* Mutant: every # starts a comment. *)
AnyHash ==
  /\ Outside
  /\ ByteAt(at) = "#" /\ ~ in_comment
  /\ in_comment' = TRUE
  /\ Step(1)
  /\ UNCHANGED brackets /\ QuotingUnchanged

(* A # after white space starts a comment: outside brackets white space     *)
(* has already ended the item (but for a form feed).                        *)
Hash ==
  /\ Outside
  /\ ByteAt(at) = "#" /\ ~ in_comment
  /\ in_comment' = (previous \in {"none"} \union AsciiWhitespace)
  /\ Step(1)
  /\ UNCHANGED brackets /\ QuotingUnchanged

(* Mutant: a comment in a group goes on to the next line. *)
LineBreakInComment ==
  /\ Outside
  /\ ByteAt(at) \in {"NL", "CR"}
  /\ IF IsTerminator(ByteAt(at)) THEN Break(at) ELSE Step(1)
  /\ UNCHANGED <<in_comment, brackets>> /\ QuotingUnchanged

LineBreak ==
  /\ Outside
  /\ ByteAt(at) \in {"NL", "CR"}
  /\ in_comment' = FALSE
  /\ IF IsTerminator(ByteAt(at)) THEN Break(at) ELSE Step(1)
  /\ UNCHANGED brackets /\ QuotingUnchanged

CommentText ==
  /\ Outside
  /\ in_comment /\ ByteAt(at) \notin {"NL", "CR"}
  /\ IF IsTerminator(ByteAt(at)) THEN Break(at) ELSE Step(1)
  /\ UNCHANGED <<in_comment, brackets>> /\ QuotingUnchanged

(* A special byte that opens the item is an item of its own. *)
SpecialHere == at = start /\ brackets = <<>> /\ ByteAt(at) \in options.special_tokens

SpecialItem ==
  /\ Outside /\ ~ in_comment
  /\ SpecialHere
  /\ Break(at + 1)
  /\ UNCHANGED <<in_comment, brackets>> /\ QuotingUnchanged

(* Mutant: the text of a comment is code. *)
CodeOrComment(b) == Outside /\ ~ SpecialHere /\ ByteAt(at) = b

Code(b) == Outside /\ ~ in_comment /\ ~ SpecialHere /\ ByteAt(at) = b

QuoteOpen(b) ==
  /\ b \in Quotes
  /\ Code(b)
  /\ quote' = [byte |-> b, at |-> at]
  /\ quote_is_interp' = (b # "BT" /\ previous = "$")
  /\ Step(1)
  /\ UNCHANGED <<interp_level, in_comment, brackets>>

BracketOpen(b) ==
  /\ b \in Openers
  /\ Code(b)
  /\ brackets' = Append(brackets, [byte |-> b, at |-> at])
  /\ Step(1)
  /\ UNCHANGED in_comment /\ QuotingUnchanged

AngleClose ==
  /\ Code(">") /\ options.in_signature
  /\ brackets' = IF brackets # <<>> /\ Top(brackets).byte = "<" THEN Pop(brackets) ELSE brackets
  /\ Step(1)
  /\ UNCHANGED in_comment /\ QuotingUnchanged

(* Mutant: the first closing bracket ends the group. *)
BracketCloseFirst(b) ==
  /\ b \in Closers
  /\ Code(b)
  /\ brackets # <<>> /\ Top(brackets).byte = Opener(b)
  /\ brackets' = Pop(brackets)
  /\ IF first_group THEN Break(at + 1) ELSE Step(1)
  /\ UNCHANGED in_comment /\ QuotingUnchanged

(* close_bracket finds its opener; with first_group, that may end the scan. *)
BracketClose(b) ==
  /\ b \in Closers
  /\ Code(b)
  /\ brackets # <<>> /\ Top(brackets).byte = Opener(b)
  /\ brackets' = Pop(brackets)
  /\ IF first_group /\ brackets' = <<>> THEN Break(at + 1) ELSE Step(1)
  /\ UNCHANGED in_comment /\ QuotingUnchanged

(* A stray ] is ordinary text. *)
BracketStray(b) ==
  /\ b \in Closers
  /\ Code(b)
  /\ brackets = <<>>
  /\ IF b = "]"
     THEN Step(1) /\ UNCHANGED <<in_comment, brackets>> /\ QuotingUnchanged
     ELSE Fails("Unbalanced", b, at, at)

BracketMismatch(b) ==
  /\ b \in Closers
  /\ Code(b)
  /\ brackets # <<>> /\ Top(brackets).byte # Opener(b)
  /\ Fails("Unbalanced", b, Top(brackets).at, at)

(* lex_raw_string: q is the offset of the quote after r and its hashes. *)
RawStringAt(q) ==
  /\ Code("r")
  /\ at + 1 < Size /\ ByteAt(at + 1) = "#"
  /\ Run(at + 1, q, {"#"})

(* The quote at j is followed by as many hashes as opened the raw string. *)
RawCloses(q, j) ==
  /\ j \in (q + 1)..(Size - 1)
  /\ ByteAt(j) = "SQ"
  /\ j + (q - at - 1) < Size
  /\ \A k \in (j + 1)..(j + (q - at - 1)) : ByteAt(k) = "#"

RawString(q) ==
  /\ RawStringAt(q)
  /\ IF q = Size \/ ByteAt(q) # "SQ" THEN Fails("Expected", "SQ", q, q)
     ELSE IF \A j \in (q + 1)..Size : ~ RawCloses(q, j)
     THEN Fails("Unclosed", "SQ", at, Size)
     ELSE /\ \E j \in (q + 1)..Size :
               /\ RawCloses(q, j)
               /\ \A k \in (q + 1)..(j - 1) : ~ RawCloses(q, k)
               /\ at' = j + (q - at)
          /\ previous' = "#"
          /\ UNCHANGED <<inputs, pc, start, outputs>>
          /\ UNCHANGED <<in_comment, brackets>> /\ QuotingUnchanged

(* `e>|` is one token although a | normally ends the item. *)
RedirectionPipe ==
  /\ Code("|")
  /\ Slice(start, at) \in Redirections
  /\ Break(at + 1)
  /\ UNCHANGED <<in_comment, brackets>> /\ QuotingUnchanged

(* Every other byte of code: it ends the item, or belongs to it. *)
Plain(b) ==
  /\ b \notin {"#", "NL", "CR"} \union Quotes \union Openers \union Closers
  /\ Code(b)
  /\ ~ (b = ">" /\ options.in_signature)
  /\ ~ (b = "r" /\ at + 1 < Size /\ ByteAt(at + 1) = "#")
  /\ ~ (b = "|" /\ Slice(start, at) \in Redirections)
  /\ IF IsTerminator(b) THEN Break(at) ELSE Step(1)
  /\ UNCHANGED <<in_comment, brackets>> /\ QuotingUnchanged

----------------------------------------------------------------------------
(***************************************************************************)
(* After the loop: what is still open is an error, innermost scanner state *)
(* first; then lex_item classifies the text and the token is pushed.       *)
(***************************************************************************)
EndOfText ==
  /\ pc = "scan" /\ at = Size
  /\ pc' = "end"
  /\ UNCHANGED <<inputs, at, start, scanner, outputs>>

UnclosedInterp ==
  /\ pc = "end"
  /\ interp_level # <<>>
  /\ Fails("Unclosed", interp_level[1].byte, interp_level[1].at, at)

UnclosedQuote ==
  /\ pc = "end"
  /\ interp_level = <<>> /\ quote # NoQuote
  /\ Fails("Unclosed", quote.byte, quote.at, at)

UnclosedBracket ==
  /\ pc = "end"
  /\ interp_level = <<>> /\ quote = NoQuote /\ brackets # <<>>
  /\ Fails("Unclosed", Top(brackets).byte, Top(brackets).at, at)

Measured == pc = "end" /\ interp_level = <<>> /\ quote = NoQuote /\ brackets = <<>>

LexItem ==
  /\ Measured /\ ~ first_group
  /\ LET contents == ItemContents(Slice(start, at))
     IN  IF at = start THEN Fails("UnexpectedEof", "none", at, at)
         ELSE IF contents = "ShellSyntax" THEN Fails("ShellSyntax", "none", start, at)
         ELSE Emits(contents, start, at)

(* group_end returns at - 1. *)
GroupEnd ==
  /\ Measured /\ first_group
  /\ pc' = "done"
  /\ UNCHANGED <<inputs, at, start, scanner, outputs>>

NextToken ==
  \E p \in at..Size :
    \/ LexEof(p) \/ LexNewline(p) \/ LexSemicolon(p) \/ LexPipe(p)
    \/ (\E e \in p..Size : LexComment(p, e) \/ SkipComment(p, e))
    \/ BeginItem(p)

ScanQuoted ==
  \/ InterpEscape \/ InterpClose \/ InterpOpen \/ InterpText
  \/ QuoteEscape \/ QuoteClose \/ QuoteSubexpression \/ QuoteText

ScanCode ==
  \/ Hash \/ LineBreak \/ CommentText \/ SpecialItem \/ AngleClose \/ RedirectionPipe
  \/ (\E b \in Byte : \/ QuoteOpen(b) \/ BracketOpen(b) \/ BracketClose(b)
                      \/ BracketStray(b) \/ BracketMismatch(b) \/ Plain(b))
  \/ (\E q \in at..Size : RawString(q))

ItemEnd ==
  \/ EndOfText \/ UnclosedInterp \/ UnclosedQuote \/ UnclosedBracket
  \/ LexItem \/ GroupEnd

Next == NextToken \/ ScanQuoted \/ ScanCode \/ ItemEnd

(* A thread runs the loop to its end: nothing else is needed to progress. *)
Fairness == WF_vars(Next)

Spec == Init /\ [][Next]_vars /\ Fairness

----------------------------------------------------------------------------
(***************************************************************************)
(* Properties.                                                             *)
(***************************************************************************)
Delimiter == [byte : Byte, at : Nat]

TokenContents == {"Item", "AssignmentOperator", "Redirection", "Comment", "Eol",
                  "Semicolon", "Pipe", "PipePipe", "Eof"}
Tokens        == [contents : TokenContents, start : Nat, end : Nat]
Diagnostics   == [kind : {"none", "Unclosed", "Unbalanced", "Expected", "UnexpectedEof", "ShellSyntax"},
                  delimiter : Byte \union {"none"}, open : Nat, at : Nat]

InputsOK ==
  /\ text \in Seq(Byte) /\ options \in LexOptions
  /\ max_tokens \in Nat /\ first_group \in BOOLEAN

PositionOK ==
  /\ pc \in {"next_token", "scan", "end", "done", "failed"}
  /\ start \in Nat /\ at \in start..Size

ScannerOK ==
  /\ quote \in Delimiter \union {NoQuote}
  /\ quote_is_interp \in BOOLEAN /\ in_comment \in BOOLEAN
  /\ interp_level \in Seq(Delimiter) /\ brackets \in Seq(Delimiter)
  /\ previous \in Byte \union {"none"}

OutputsOK == tokens \in Seq(Tokens) /\ diagnostic \in Diagnostics

(* The shape of every variable of the lexer: the one type invariant. *)
TypeOK == InputsOK /\ PositionOK /\ ScannerOK /\ OutputsOK

(* Delimiters of the item the scan has read; open(d) is the byte d was opened by. *)
OpenerOf(closer) == IF closer = ")" THEN "(" ELSE closer

BracketsRead == {d \in [byte : {"[", "{", "(", "<"}, at : start..(at - 1)] : ByteAt(d.at) = d.byte}
QuotesRead   == {d \in [byte : Quotes, at : start..(at - 1)] : ByteAt(d.at) = d.byte}
InterpRead   == {d \in [byte : Quotes \union {")"}, at : start..(at - 1)] :
                   ByteAt(d.at) = OpenerOf(d.byte)}

Increasing(stack) == \A i \in 1..(Len(stack) - 1) : stack[i].at < stack[i + 1].at

BracketsNest == brackets \in Seq(BracketsRead) /\ Increasing(brackets)

QuoteNests ==
  quote # NoQuote =>
    /\ quote \in QuotesRead
    /\ \A i \in 1..Len(brackets) : brackets[i].at < quote.at

InterpNests ==
  /\ interp_level \in Seq(InterpRead) /\ Increasing(interp_level)
  /\ interp_level # <<>> => quote # NoQuote /\ quote_is_interp
  /\ \A i \in 1..Len(interp_level) : quote.at < interp_level[i].at
  /\ \A i \in 1..(Len(interp_level) - 1) : interp_level[i].byte = ")"

Nests == BracketsNest /\ QuoteNests /\ InterpNests

(* The stacks of item_length (brackets, the quote, the delimiters of an      *)
(* interpolated subexpression) hold delimiters of this item that really are  *)
(* in the text, innermost last: what the unclosed-delimiter diagnostics and  *)
(* the mismatch help text of close_bracket point at.                         *)
NestingInv == pc \in {"scan", "end"} => Nests

(* item_length sees a comment only inside brackets: outside them the white  *)
(* space before the # has ended the item, so the # opens a comment token.   *)
(* (A form feed is white space for the one test and not for the other.)     *)
CommentInBrackets ==
  pc = "scan" /\ in_comment /\ (\A i \in 1..Size : text[i] # "FF") => brackets # <<>>

(* The loop of item_length breaks only where nothing is open, so the three   *)
(* unclosed-delimiter errors after it mean that the text has run out: every  *)
(* Unclosed diagnostic is at the end of the text and names a delimiter that  *)
(* is in the text, before that end.                                          *)
UnclosedMeansTextEnded ==
  /\ pc = "end" /\ at < Size => brackets = <<>> /\ quote = NoQuote /\ interp_level = <<>>
  /\ diagnostic.kind = "Unclosed" =>
       /\ diagnostic.at = Size
       /\ diagnostic.open \in start..(Size - 1)
       /\ ByteAt(diagnostic.open) \in
            {"r"} \union (IF diagnostic.delimiter = ")" THEN {"("} ELSE {diagnostic.delimiter})

(* A comment and a quoted string are opaque to the bracket scan: no step    *)
(* taken inside one opens or closes a bracket (a bracket in a comment is    *)
(* text, src/lex.rs's test comments_inside_brackets_are_part_of_item).      *)
OpaqueText ==
  [][(in_comment \/ quote # NoQuote) /\ pc = "scan" => UNCHANGED brackets]_vars

(* next_token and item_length end on every text: each turn of either loop   *)
(* reads a byte or leaves the loop.                                         *)
Terminates == <>(pc \in {"done", "failed"})

(* The lexer is a tokenizer: see module Tokenizer for the promise.  (A call *)
(* of group_end makes no tokens.)                                           *)
Status == IF first_group THEN "failed"
          ELSE IF pc \in {"done", "failed"} THEN pc ELSE "running"

Abstract == INSTANCE Tokenizer WITH status <- Status

RefinesTokenizer == Abstract!Spec
============================================================================
