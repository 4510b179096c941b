-------------------------- MODULE LexerReference ---------------------------
(***************************************************************************)
(* A second, independent definition of where an item ends: the grammar the *)
(* head of src/lex.rs describes (items are runs of text in which quotes    *)
(* and brackets are balanced), read by recursive descent instead of by     *)
(* item_length's single loop with its stacks and flags.                    *)
(*                                                                         *)
(* XFrom(.., i) is the offset after the X whose text starts at i, or NoEnd *)
(* when it does not end properly.  Checked by TLC only.                    *)
(***************************************************************************)
EXTENDS Lexer

NoEnd == Size + 1

(* A string, after its opening quote q. *)
RECURSIVE StringFrom(_, _, _), SubexpressionFrom(_)
StringFrom(q, interp, i) ==
  IF i >= Size THEN NoEnd
  ELSE IF ByteAt(i) = q THEN i + 1
  ELSE IF q = "DQ" /\ ByteAt(i) = "BS" THEN StringFrom(q, interp, i + 2)
  ELSE IF interp /\ ByteAt(i) = "(" THEN StringFrom(q, interp, SubexpressionFrom(i + 1))
  ELSE StringFrom(q, interp, i + 1)

(* The (...) of an interpolated string, after its parenthesis. *)
SubexpressionFrom(i) ==
  IF i >= Size THEN NoEnd
  ELSE IF ByteAt(i) = ")" THEN i + 1
  ELSE IF ByteAt(i) = "(" THEN SubexpressionFrom(SubexpressionFrom(i + 1))
  ELSE IF ByteAt(i) \in Quotes THEN SubexpressionFrom(StringFrom(ByteAt(i), FALSE, i + 1))
  ELSE SubexpressionFrom(i + 1)

(* r#'...'#, from its r. *)
RawFrom(i) ==
  LET q      == CHOOSE j \in (i + 1)..Size : Run(i + 1, j, {"#"})
      closes == {j \in (q + 1)..(Size - 1) :
                   ByteAt(j) = "SQ" /\ j + (q - i) <= Size
                     /\ \A k \in (j + 1)..(j + q - i - 1) : ByteAt(k) = "#"}
  IN  IF q = Size \/ ByteAt(q) # "SQ" \/ closes = {} THEN NoEnd
      ELSE (CHOOSE j \in closes : \A k \in closes : j <= k) + (q - i)

StartsComment(i) == ByteAt(i) = "#" /\ ByteAt(i - 1) \in AsciiWhitespace
LineEndFrom(i)   == CHOOSE j \in i..Size : Run(i, j, Byte \ {"NL", "CR"})

CloserOf(b) == CHOOSE c \in {")", "]", "}", ">"} : Opener(c) = b

(* A piece of code: a string, a group, a raw string or one byte; and the    *)
(* inside of a group that closer c ends.                                    *)
RECURSIVE PieceFrom(_), GroupFrom(_, _)
PieceFrom(i) ==
  LET b == ByteAt(i) IN
  IF b \in Quotes THEN StringFrom(b, b # "BT" /\ i > 0 /\ ByteAt(i - 1) = "$", i + 1)
  ELSE IF b \in Openers THEN GroupFrom(CloserOf(b), i + 1)
  ELSE IF b = "r" /\ i + 1 < Size /\ ByteAt(i + 1) = "#" THEN RawFrom(i)
  ELSE i + 1

GroupFrom(c, i) ==
  IF i >= Size THEN NoEnd
  ELSE IF StartsComment(i) THEN GroupFrom(c, LineEndFrom(i))
  ELSE IF ByteAt(i) = c THEN i + 1
  ELSE IF ByteAt(i) \in Closers THEN NoEnd
  ELSE GroupFrom(c, PieceFrom(i))

(* The rest, from i, of the item that starts at s. *)
RECURSIVE RestFrom(_, _)
RestFrom(s, i) ==
  IF i >= Size THEN i
  ELSE IF ByteAt(i) = "|" /\ Slice(s, i) \in Redirections THEN i + 1
  ELSE IF ByteAt(i) \in Terminators THEN i
  ELSE IF ByteAt(i) \in {")", "}"} THEN NoEnd
  ELSE RestFrom(s, PieceFrom(i))

ItemFrom(s) == IF ByteAt(s) \in options.special_tokens THEN s + 1 ELSE RestFrom(s, s)

----------------------------------------------------------------------------
ItemKinds == {"Item", "AssignmentOperator", "Redirection"}

(* Every item token ends where the grammar says, and item_length refuses an *)
(* item exactly when the grammar gives it no end.                           *)
ItemsMatchGrammar ==
  /\ pc = "end" /\ ~ first_group =>
       IF brackets = <<>> /\ quote = NoQuote /\ interp_level = <<>>
       THEN ItemFrom(start) = at ELSE ItemFrom(start) = NoEnd
  /\ ~ first_group /\ diagnostic.kind \in {"Unclosed", "Unbalanced", "Expected"} =>
       ItemFrom(start) = NoEnd

(* group_end answers the bracket that closes the group the text opens with, *)
(* and no offset when the group does not close.                             *)
GroupEndMatchesGrammar ==
  first_group =>
    /\ pc = "done" => PieceFrom(0) = at
    /\ pc = "failed" => text = <<>> \/ text[1] \notin {"(", "[", "{"} \/ PieceFrom(0) = NoEnd

(* Brackets and quotes are balanced in the text of an item (the head of     *)
(* src/lex.rs).  Brackets in a string of the item, or in a comment inside   *)
(* its brackets (lex_item's "comments inside brackets"), are text: what the *)
(* grammar above reads as code balances, and ends where the item ends.      *)
ItemsAreBalanced ==
  \A n \in 1..Len(tokens) :
    tokens[n].contents = "Item" => ItemFrom(tokens[n].start) = tokens[n].end
============================================================================
