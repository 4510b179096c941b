---------------------------- MODULE Lexer_proofs ----------------------------
(***************************************************************************)
(* Theorems about module Lexer, for every set of calls.                    *)
(***************************************************************************)
EXTENDS Lexer, SequenceTheorems, TLAPS

LEMMA PopType ==
  ASSUME NEW S, NEW s \in Seq(S), s # <<>>
  PROVE  /\ Pop(s) \in Seq(S)
         /\ Len(Pop(s)) = Len(s) - 1
         /\ \A i \in 1..Len(Pop(s)) : Pop(s)[i] = s[i]
         /\ Top(s) \in S
<1>1. Len(s) \in Nat /\ Len(s) # 0
  OBVIOUS
<1>2. Top(s) \in S
  BY <1>1 DEF Top
<1>3. \A i \in 1..(Len(s) - 1) : s[i] \in S
  BY <1>1
<1>4. /\ SubSeq(s, 1, Len(s) - 1) \in Seq(S)
      /\ Len(SubSeq(s, 1, Len(s) - 1)) = IF 1 <= Len(s) - 1 THEN Len(s) - 1 - 1 + 1 ELSE 0
      /\ \A i \in 1..(Len(s) - 1 - 1 + 1) : SubSeq(s, 1, Len(s) - 1)[i] = s[1 + i - 1]
  <2>1. 1 \in Int /\ Len(s) - 1 \in Int
    BY <1>1
  <2> QED BY <1>3, <2>1, SubSeqProperties
<1>5. Len(Pop(s)) = Len(s) - 1
  <2>1. \A n \in Nat : n # 0 => (IF 1 <= n - 1 THEN n - 1 - 1 + 1 ELSE 0) = n - 1
    OBVIOUS
  <2> QED BY <1>1, <1>4, <2>1, Zenon DEF Pop
<1>6. \A i \in 1..(Len(s) - 1) : Pop(s)[i] = s[i]
  BY <1>1, <1>4 DEF Pop
<1>7. Pop(s) \in Seq(S)
  BY <1>4 DEF Pop
<1> QED BY <1>2, <1>5, <1>6, <1>7

LEMMA InitType == Init => TypeOK
<1> SUFFICES ASSUME Init PROVE TypeOK
  OBVIOUS
<1>1. PICK i \in Inputs : /\ text = i.text /\ options = i.options
                          /\ max_tokens = i.max_tokens /\ first_group = i.first_group
  BY DEF Init
<1>2. i \in Call
  BY InputsAssumption
<1>3. text \in Seq(Byte) /\ options \in LexOptions /\ max_tokens \in Nat /\ first_group \in BOOLEAN
  BY <1>1, <1>2 DEF Call
<1>4. Size \in Nat
  BY <1>3 DEF Size
<1>5. start \in Nat /\ at \in start..Size
  BY <1>4 DEF Init
<1>6. pc \in {"next_token", "scan", "end", "done", "failed"}
  BY DEF Init, FirstState
<1>7. /\ quote \in Delimiter \union {NoQuote}
      /\ quote_is_interp \in BOOLEAN /\ in_comment \in BOOLEAN
      /\ interp_level \in Seq(Delimiter) /\ brackets \in Seq(Delimiter)
      /\ previous \in Byte \union {"none"}
  BY EmptySeq DEF Init
<1>8. tokens \in Seq(Tokens)
  BY EmptySeq, Zenon DEF Init
<1>9. diagnostic \in Diagnostics
  BY DEF Init, NoError, Diagnostics
<1> QED BY <1>3, <1>5, <1>6, <1>7, <1>8, <1>9 DEF TypeOK, InputsOK, PositionOK, ScannerOK, OutputsOK

----------------------------------------------------------------------------
(***************************************************************************)
(* The pieces the actions are made of keep the types.                      *)
(***************************************************************************)
LEMMA ByteAtType ==
  ASSUME TypeOK, NEW i \in Nat, i < Size
  PROVE  ByteAt(i) \in Byte
<1>1. text \in Seq(Byte) /\ i + 1 \in 1..Len(text)
  BY DEF TypeOK, InputsOK, Size
<1> QED BY <1>1 DEF ByteAt

LEMMA SizeType == TypeOK => Size \in Nat
BY DEF TypeOK, InputsOK, Size

(* A step of the scan that reads n bytes. *)
LEMMA StepType ==
  ASSUME TypeOK, Scanning, NEW n \in Nat, at + n <= Size, Step(n),
         quote' \in Delimiter \union {NoQuote}, quote_is_interp' \in BOOLEAN,
         interp_level' \in Seq(Delimiter), in_comment' \in BOOLEAN, brackets' \in Seq(Delimiter)
  PROVE  TypeOK'
<1>1. InputsOK' /\ OutputsOK'
  BY DEF TypeOK, InputsOK, OutputsOK, Step, inputs, outputs
<1>2. PositionOK'
  BY SizeType DEF TypeOK, InputsOK, PositionOK, Step, inputs, Size
<1>3. previous' \in Byte \union {"none"}
  <2>1. at \in Nat /\ at < Size
    BY SizeType DEF TypeOK, PositionOK, Scanning
  <2> QED BY <2>1, ByteAtType DEF Step
<1>4. ScannerOK'
  BY <1>3 DEF ScannerOK
<1> QED BY <1>1, <1>2, <1>4 DEF TypeOK

(* The scan stops with the item ending at e. *)
LEMMA BreakType ==
  ASSUME TypeOK, NEW e \in at..Size, Break(e), brackets' \in Seq(Delimiter),
         in_comment' \in BOOLEAN, QuotingUnchanged
  PROVE  TypeOK'
<1>1. InputsOK' /\ OutputsOK'
  BY DEF TypeOK, InputsOK, OutputsOK, Break, inputs, outputs
<1>2. PositionOK'
  BY SizeType DEF TypeOK, InputsOK, PositionOK, Break, inputs, Size
<1>3. ScannerOK'
  BY DEF TypeOK, ScannerOK, Break, QuotingUnchanged
<1> QED BY <1>1, <1>2, <1>3 DEF TypeOK

LEMMA FailsType ==
  ASSUME TypeOK, NEW kind, NEW delimiter, NEW open, NEW where,
         kind \in {"Unclosed", "Unbalanced", "Expected", "UnexpectedEof", "ShellSyntax"},
         delimiter \in Byte \union {"none"}, open \in Nat, where \in Nat,
         Fails(kind, delimiter, open, where)
  PROVE  TypeOK'
<1>1. InputsOK' /\ PositionOK' /\ ScannerOK'
  BY DEF TypeOK, InputsOK, PositionOK, ScannerOK, Fails, inputs, scanner, Size
<1>2. OutputsOK'
  BY DEF TypeOK, OutputsOK, Fails, Diagnostics
<1> QED BY <1>1, <1>2 DEF TypeOK

(* A token is pushed. *)
LEMMA EmitsType ==
  ASSUME TypeOK, NEW contents \in TokenContents, NEW s \in Nat, NEW e \in start..Size,
         Emits(contents, s, e)
  PROVE  TypeOK'
<1>0. e \in Nat
  BY SizeType DEF TypeOK, PositionOK
<1>1. InputsOK' /\ ScannerOK'
  BY DEF TypeOK, InputsOK, ScannerOK, Emits, inputs, scanner
<1>2. PositionOK'
  BY SizeType DEF TypeOK, InputsOK, PositionOK, Emits, inputs, Size
<1>3. Token(contents, s, e) \in Tokens
  BY <1>0 DEF Token, Tokens
<1>4. OutputsOK'
  BY <1>3, AppendProperties DEF TypeOK, OutputsOK, Emits
<1> QED BY <1>1, <1>2, <1>4 DEF TypeOK

----------------------------------------------------------------------------
(***************************************************************************)
(* Every action keeps the types.                                           *)
(***************************************************************************)
LEMMA NextTokenType == TypeOK /\ NextToken => TypeOK'
<1> SUFFICES ASSUME TypeOK, NEW p \in at..Size,
                    \/ LexEof(p) \/ LexNewline(p) \/ LexSemicolon(p) \/ LexPipe(p)
                    \/ (\E e \in p..Size : LexComment(p, e) \/ SkipComment(p, e))
                    \/ BeginItem(p)
             PROVE  TypeOK'
  BY DEF NextToken
<1>1. /\ p \in Nat /\ p \in start..Size /\ Size \in Nat /\ start \in Nat /\ at \in Nat
      /\ p < Size => p + 1 \in start..Size
      /\ p + 1 < Size => p + 2 \in start..Size
  BY SizeType DEF TypeOK, PositionOK
<1>2. CASE LexEof(p)
  <2>1. InputsOK' /\ ScannerOK'
    BY <1>2 DEF LexEof, TypeOK, InputsOK, ScannerOK, inputs, scanner
  <2>2. PositionOK'
    BY <1>1, <1>2 DEF LexEof, TypeOK, InputsOK, PositionOK, inputs, Size
  <2>3. Token("Eof", p, p) \in Tokens
    BY <1>1 DEF Token, Tokens, TokenContents
  <2>4. OutputsOK'
    BY <1>2, <2>3, AppendProperties DEF LexEof, TypeOK, OutputsOK
  <2> QED BY <2>1, <2>2, <2>4 DEF TypeOK
<1>3. CASE LexNewline(p)
  BY <1>1, <1>3, EmitsType DEF LexNewline, Peeks, TokenContents
<1>4. CASE LexSemicolon(p)
  BY <1>1, <1>4, EmitsType DEF LexSemicolon, Peeks, TokenContents
<1>5. CASE LexPipe(p)
  <2>1. CASE p + 1 < Size /\ ByteAt(p + 1) = "|"
    BY <1>1, <1>5, <2>1, EmitsType DEF LexPipe, Peeks, TokenContents
  <2>2. CASE ~ (p + 1 < Size /\ ByteAt(p + 1) = "|")
    BY <1>1, <1>5, <2>2, EmitsType DEF LexPipe, Peeks, TokenContents
  <2> QED BY <2>1, <2>2
<1>6. ASSUME NEW e \in p..Size, LexComment(p, e)
      PROVE  TypeOK'
  BY <1>1, <1>6, EmitsType DEF LexComment, TokenContents
<1>7. ASSUME NEW e \in p..Size, SkipComment(p, e)
      PROVE  TypeOK'
  <2>1. InputsOK' /\ ScannerOK' /\ OutputsOK'
    BY <1>7 DEF SkipComment, TypeOK, InputsOK, ScannerOK, OutputsOK, inputs, scanner, outputs
  <2>2. PositionOK'
    BY <1>1, <1>7 DEF SkipComment, TypeOK, InputsOK, PositionOK, inputs, Size
  <2> QED BY <2>1, <2>2 DEF TypeOK
<1>8. CASE BeginItem(p)
  <2>1. InputsOK' /\ OutputsOK'
    BY <1>8 DEF BeginItem, TypeOK, InputsOK, OutputsOK, inputs, outputs
  <2>2. at' \in start'..Size' /\ start' \in Nat
    <3>1. at' = p /\ start' = p /\ Size' = Size
      BY <1>8 DEF BeginItem, inputs, Size
    <3>2. p \in p..Size
      BY <1>1
    <3> QED BY <1>1, <3>1, <3>2
  <2>3. PositionOK'
    BY <1>8, <2>2 DEF BeginItem, PositionOK
  <2>4. ScannerOK'
    BY <1>8, EmptySeq DEF BeginItem, ScannerOK
  <2> QED BY <2>1, <2>3, <2>4 DEF TypeOK
<1> QED BY <1>2, <1>3, <1>4, <1>5, <1>6, <1>7, <1>8

(* What every action of the scan starts from. *)
LEMMA ScanningType ==
  ASSUME TypeOK, Scanning
  PROVE  /\ at \in Nat /\ start \in Nat /\ Size \in Nat /\ at < Size /\ start <= at
         /\ at + 1 <= Size /\ at \in at..Size /\ at + 1 \in at..Size
         /\ ByteAt(at) \in Byte
         /\ [byte |-> ByteAt(at), at |-> at] \in Delimiter
         /\ quote \in Delimiter \union {NoQuote} /\ quote_is_interp \in BOOLEAN
         /\ in_comment \in BOOLEAN
         /\ interp_level \in Seq(Delimiter) /\ brackets \in Seq(Delimiter)
<1>1. at \in Nat /\ start \in Nat /\ Size \in Nat /\ at < Size /\ start <= at
  BY SizeType DEF TypeOK, PositionOK, Scanning
<1>2. ByteAt(at) \in Byte
  BY <1>1, ByteAtType
<1> QED BY <1>1, <1>2 DEF TypeOK, ScannerOK, Delimiter

LEMMA ScanQuotedType == TypeOK /\ ScanQuoted => TypeOK'
<1> SUFFICES ASSUME TypeOK, ScanQuoted PROVE TypeOK'
  OBVIOUS
<1>0. Scanning
  BY DEF ScanQuoted, InterpEscape, InterpClose, InterpOpen, InterpText, QuoteEscape, QuoteClose,
         QuoteSubexpression, QuoteText, InInterp, InQuote
<1>1. CASE InterpEscape
  <2>1. /\ (IF at + 1 < Size THEN 2 ELSE 1) \in Nat
        /\ at + (IF at + 1 < Size THEN 2 ELSE 1) <= Size
    BY <1>0, ScanningType
  <2> QED BY <1>0, <1>1, <2>1, ScanningType, StepType DEF InterpEscape
<1>2. CASE InterpClose
  <2>1. interp_level' \in Seq(Delimiter)
    BY <1>0, <1>2, ScanningType, PopType DEF InterpClose, InInterp
  <2> QED BY <1>0, <1>2, <2>1, ScanningType, StepType DEF InterpClose
<1>3. CASE InterpOpen
  <2>1. [byte |-> IF ByteAt(at) = "(" THEN ")" ELSE ByteAt(at), at |-> at] \in Delimiter
    <3>1. ")" \in Byte
      BY DEF Byte
    <3> QED BY <1>0, <3>1, ScanningType DEF Delimiter
  <2>2. interp_level' \in Seq(Delimiter)
    BY <1>0, <1>3, <2>1, ScanningType, AppendProperties DEF InterpOpen
  <2> QED BY <1>0, <1>3, <2>2, ScanningType, StepType DEF InterpOpen
<1>4. CASE InterpText
  BY <1>0, <1>4, ScanningType, StepType DEF InterpText
<1>5. CASE QuoteEscape
  <2>1. CASE at + 1 >= Size
    <3>1. quote \in Delimiter
      BY <1>0, <1>5, ScanningType DEF QuoteEscape, InQuote
    <3>2. quote.byte \in Byte /\ quote.at \in Nat
      BY <3>1 DEF Delimiter
    <3>3. Fails("Unclosed", quote.byte, quote.at, at + 1)
      BY <1>5, <2>1 DEF QuoteEscape
    <3>4. at + 1 \in Nat
      BY <1>0, ScanningType
    <3> QED BY <3>2, <3>3, <3>4, FailsType
  <2>2. CASE ~ (at + 1 >= Size)
    <3>1. at + 2 <= Size
      BY <1>0, <2>2, ScanningType
    <3> QED BY <1>0, <1>5, <2>2, <3>1, ScanningType, StepType DEF QuoteEscape
  <2> QED BY <2>1, <2>2
<1>6. CASE QuoteClose
  BY <1>0, <1>6, ScanningType, StepType DEF QuoteClose
<1>7. CASE QuoteSubexpression
  <2>1. [byte |-> ")", at |-> at] \in Delimiter
    BY <1>0, ScanningType DEF Delimiter, Byte
  <2>2. interp_level' \in Seq(Delimiter)
    BY <1>7, <2>1 DEF QuoteSubexpression
  <2> QED BY <1>0, <1>7, <2>2, ScanningType, StepType DEF QuoteSubexpression
<1>8. CASE QuoteText
  BY <1>0, <1>8, ScanningType, StepType DEF QuoteText
<1> QED BY <1>1, <1>2, <1>3, <1>4, <1>5, <1>6, <1>7, <1>8 DEF ScanQuoted

LEMMA ScanCodeType == TypeOK /\ ScanCode => TypeOK'
<1> SUFFICES ASSUME TypeOK, ScanCode PROVE TypeOK'
  OBVIOUS
<1>0. Scanning
  BY DEF ScanCode, Hash, LineBreak, CommentText, SpecialItem, AngleClose, RedirectionPipe,
         QuoteOpen, BracketOpen, BracketClose, BracketStray, BracketMismatch, Plain,
         RawString, RawStringAt, Code, Outside
<1>1. CASE Hash
  BY <1>0, <1>1, ScanningType, StepType DEF Hash, QuotingUnchanged
<1>2. CASE LineBreak
  <2>1. CASE IsTerminator(ByteAt(at))
    BY <1>0, <1>2, <2>1, ScanningType, BreakType DEF LineBreak
  <2>2. CASE ~ IsTerminator(ByteAt(at))
    BY <1>0, <1>2, <2>2, ScanningType, StepType DEF LineBreak, QuotingUnchanged
  <2> QED BY <2>1, <2>2
<1>3. CASE CommentText
  <2>1. CASE IsTerminator(ByteAt(at))
    BY <1>0, <1>3, <2>1, ScanningType, BreakType DEF CommentText
  <2>2. CASE ~ IsTerminator(ByteAt(at))
    BY <1>0, <1>3, <2>2, ScanningType, StepType DEF CommentText, QuotingUnchanged
  <2> QED BY <2>1, <2>2
<1>4. CASE SpecialItem
  BY <1>0, <1>4, ScanningType, BreakType DEF SpecialItem
<1>5. CASE AngleClose
  <2>1. brackets' \in Seq(Delimiter)
    BY <1>0, <1>5, ScanningType, PopType DEF AngleClose
  <2> QED BY <1>0, <1>5, <2>1, ScanningType, StepType DEF AngleClose, QuotingUnchanged
<1>6. CASE RedirectionPipe
  BY <1>0, <1>6, ScanningType, BreakType DEF RedirectionPipe
<1>7. ASSUME NEW b \in Byte, QuoteOpen(b)
      PROVE  TypeOK'
  <2>1. quote' \in Delimiter /\ quote_is_interp' \in BOOLEAN
    BY <1>0, <1>7, ScanningType DEF QuoteOpen, Delimiter
  <2> QED BY <1>0, <1>7, <2>1, ScanningType, StepType DEF QuoteOpen
<1>8. ASSUME NEW b \in Byte, BracketOpen(b)
      PROVE  TypeOK'
  <2>1. [byte |-> b, at |-> at] \in Delimiter
    BY <1>0, ScanningType DEF Delimiter
  <2>2. brackets' \in Seq(Delimiter)
    BY <1>0, <1>8, <2>1, ScanningType, AppendProperties DEF BracketOpen
  <2> QED BY <1>0, <1>8, <2>2, ScanningType, StepType DEF BracketOpen, QuotingUnchanged
<1>9. ASSUME NEW b \in Byte, BracketClose(b)
      PROVE  TypeOK'
  <2>1. brackets' \in Seq(Delimiter)
    BY <1>0, <1>9, ScanningType, PopType DEF BracketClose
  <2>2. CASE first_group /\ brackets' = <<>>
    BY <1>0, <1>9, <2>1, <2>2, ScanningType, BreakType DEF BracketClose
  <2>3. CASE ~ (first_group /\ brackets' = <<>>)
    BY <1>0, <1>9, <2>1, <2>3, ScanningType, StepType DEF BracketClose, QuotingUnchanged
  <2> QED BY <2>2, <2>3
<1>10. ASSUME NEW b \in Byte, BracketStray(b)
       PROVE  TypeOK'
  <2>1. CASE b = "]"
    BY <1>0, <1>10, <2>1, ScanningType, StepType DEF BracketStray, QuotingUnchanged
  <2>2. CASE b # "]"
    BY <1>0, <1>10, <2>2, ScanningType, FailsType DEF BracketStray
  <2> QED BY <2>1, <2>2
<1>11. ASSUME NEW b \in Byte, BracketMismatch(b)
       PROVE  TypeOK'
  <2>1. Top(brackets) \in Delimiter
    BY <1>0, <1>11, ScanningType, PopType DEF BracketMismatch
  <2>2. Top(brackets).at \in Nat
    BY <2>1 DEF Delimiter
  <2> QED BY <1>0, <1>11, <2>2, ScanningType, FailsType DEF BracketMismatch
<1>12. ASSUME NEW b \in Byte, Plain(b)
       PROVE  TypeOK'
  <2>1. CASE IsTerminator(b)
    BY <1>0, <1>12, <2>1, ScanningType, BreakType DEF Plain
  <2>2. CASE ~ IsTerminator(b)
    BY <1>0, <1>12, <2>2, ScanningType, StepType DEF Plain, QuotingUnchanged
  <2> QED BY <2>1, <2>2
<1>13. ASSUME NEW q \in at..Size, RawString(q)
       PROVE  TypeOK'
  <2>1. q \in Nat /\ at < q
    BY <1>0, <1>13, ScanningType DEF RawString, RawStringAt, Run
  <2>0. "SQ" \in Byte
    BY DEF Byte
  <2>2. CASE q = Size \/ ByteAt(q) # "SQ"
    <3>1. Fails("Expected", "SQ", q, q)
      BY <1>13, <2>2 DEF RawString
    <3> QED BY <2>0, <2>1, <3>1, FailsType
  <2>3. CASE ~ (q = Size \/ ByteAt(q) # "SQ") /\ \A j \in (q + 1)..Size : ~ RawCloses(q, j)
    <3>1. Fails("Unclosed", "SQ", at, Size)
      BY <1>13, <2>3 DEF RawString
    <3> QED BY <1>0, <2>0, <3>1, ScanningType, FailsType
  <2>4. CASE ~ (q = Size \/ ByteAt(q) # "SQ") /\ ~ \A j \in (q + 1)..Size : ~ RawCloses(q, j)
    <3>1. PICK j \in (q + 1)..Size : RawCloses(q, j) /\ at' = j + (q - at)
      BY <1>13, <2>4 DEF RawString
    <3>2. at' \in at..Size
      BY <1>0, <2>1, <3>1, ScanningType DEF RawCloses
    <3>3. InputsOK' /\ OutputsOK'
      BY <1>13, <2>4 DEF RawString, TypeOK, InputsOK, OutputsOK, inputs, outputs
    <3>4. pc' = pc /\ start' = start /\ Size' = Size
      BY <1>13, <2>4 DEF RawString, inputs, Size
    <3>5. PositionOK'
      BY <1>0, <3>2, <3>4, ScanningType DEF TypeOK, PositionOK
    <3>6. ScannerOK'
      BY <1>13, <2>4 DEF RawString, TypeOK, ScannerOK, QuotingUnchanged, Byte
    <3> QED BY <3>3, <3>5, <3>6 DEF TypeOK
  <2> QED BY <2>2, <2>3, <2>4
<1> QED BY <1>1, <1>2, <1>3, <1>4, <1>5, <1>6, <1>7, <1>8, <1>9, <1>10, <1>11, <1>12, <1>13
        DEF ScanCode

LEMMA ItemEndType == TypeOK /\ ItemEnd => TypeOK'
<1> SUFFICES ASSUME TypeOK, ItemEnd PROVE TypeOK'
  OBVIOUS
<1>0. /\ at \in Nat /\ start \in Nat /\ Size \in Nat /\ at \in start..Size
      /\ interp_level \in Seq(Delimiter) /\ brackets \in Seq(Delimiter)
      /\ quote \in Delimiter \union {NoQuote}
  BY SizeType DEF TypeOK, PositionOK, ScannerOK
<1>1. CASE EndOfText
  BY <1>1 DEF EndOfText, TypeOK, InputsOK, PositionOK, ScannerOK, OutputsOK,
              inputs, scanner, outputs, Size
<1>2. CASE UnclosedInterp
  <2>1. interp_level[1] \in Delimiter
    BY <1>0, <1>2, EmptySeq DEF UnclosedInterp
  <2> QED BY <1>0, <1>2, <2>1, FailsType DEF UnclosedInterp, Delimiter
<1>3. CASE UnclosedQuote
  BY <1>0, <1>3, FailsType DEF UnclosedQuote, Delimiter
<1>4. CASE UnclosedBracket
  <2>1. Top(brackets) \in Delimiter
    BY <1>0, <1>4, PopType DEF UnclosedBracket
  <2> QED BY <1>0, <1>4, <2>1, FailsType DEF UnclosedBracket, Delimiter
<1>5. CASE LexItem
  <2> DEFINE contents == ItemContents(Slice(start, at))
  <2>1. CASE at = start
    BY <1>0, <1>5, <2>1, FailsType DEF LexItem
  <2>2. CASE at # start /\ contents = "ShellSyntax"
    BY <1>0, <1>5, <2>2, FailsType DEF LexItem
  <2>3. CASE at # start /\ contents # "ShellSyntax"
    <3>1. contents \in TokenContents
      BY <2>3 DEF ItemContents, TokenContents
    <3>2. Emits(contents, start, at)
      BY <1>5, <2>3 DEF LexItem
    <3> QED BY <1>0, <3>1, <3>2, EmitsType
  <2> QED BY <2>1, <2>2, <2>3
<1>6. CASE GroupEnd
  BY <1>6 DEF GroupEnd, TypeOK, InputsOK, PositionOK, ScannerOK, OutputsOK,
              inputs, scanner, outputs, Size
<1> QED BY <1>1, <1>2, <1>3, <1>4, <1>5, <1>6 DEF ItemEnd

LEMMA NextType == TypeOK /\ [Next]_vars => TypeOK'
<1>1. TypeOK /\ UNCHANGED vars => TypeOK'
  BY DEF vars, TypeOK, InputsOK, PositionOK, ScannerOK, OutputsOK, Size
<1> QED BY <1>1, NextTokenType, ScanQuotedType, ScanCodeType, ItemEndType DEF Next

(* The lexer's variables keep their types in every reachable state: the read *)
(* position never leaves the text, whatever is in it.                        *)
THEOREM TypeCorrect == Spec => []TypeOK
BY InitType, NextType, PTL DEF Spec

----------------------------------------------------------------------------
(***************************************************************************)
(* NestingInv.  It is inductive: the scan only moves forward, so a stack   *)
(* stays in order when it is left alone, pushed at the read position, or   *)
(* popped.                                                                 *)
(***************************************************************************)

LEMMA IncreasingPush ==
  ASSUME NEW s \in Seq(Delimiter), Increasing(s), NEW d \in Delimiter,
         \A i \in 1..Len(s) : s[i].at < d.at
  PROVE  Increasing(Append(s, d))
<1>1. Len(s) \in Nat /\ Len(Append(s, d)) = Len(s) + 1
  OBVIOUS
<1>2. \A i \in 1..Len(s) : Append(s, d)[i] = s[i]
  OBVIOUS
<1>3. Append(s, d)[Len(s) + 1] = d
  OBVIOUS
<1>4. \A i \in 1..Len(s) : Append(s, d)[i].at < Append(s, d)[i + 1].at
  <2> SUFFICES ASSUME NEW i \in 1..Len(s) PROVE Append(s, d)[i].at < Append(s, d)[i + 1].at
    OBVIOUS
  <2>1. CASE i = Len(s)
    BY <1>1, <1>2, <1>3, <2>1
  <2>2. CASE i # Len(s)
    <3>1. i \in 1..(Len(s) - 1) /\ i + 1 \in 1..Len(s)
      BY <1>1, <2>2
    <3> QED BY <1>2, <3>1 DEF Increasing
  <2> QED BY <2>1, <2>2
<1> QED BY <1>1, <1>4 DEF Increasing

LEMMA IncreasingPop ==
  ASSUME NEW S, NEW s \in Seq(S), s # <<>>, Increasing(s)
  PROVE  Increasing(Pop(s))
<1>1. /\ Len(s) \in Nat /\ Len(Pop(s)) = Len(s) - 1
      /\ \A i \in 1..(Len(s) - 1) : Pop(s)[i] = s[i]
  BY PopType
<1> QED BY <1>1 DEF Increasing

LEMMA SeqMono ==
  ASSUME NEW S, NEW T, S \subseteq T, NEW s \in Seq(S)
  PROVE  s \in Seq(T)
OBVIOUS

(* The scan reads on in the same item. *)
Forward == start' = start /\ text' = text /\ at' \in Nat /\ at <= at'

LEMMA ReadMono ==
  ASSUME TypeOK, Forward
  PROVE  BracketsRead \subseteq BracketsRead' /\ QuotesRead \subseteq QuotesRead'
         /\ InterpRead \subseteq InterpRead'
<1>1. at \in Nat /\ start \in Nat /\ at' \in Nat /\ at <= at' /\ start' = start
  BY SizeType DEF Forward, TypeOK, PositionOK
<1>2. \A i \in start..(at - 1) : i \in start'..(at' - 1)
  <2>1. \A lo, hi, n \in Nat : hi <= n => \A i \in lo..(hi - 1) : i \in lo..(n - 1)
    OBVIOUS
  <2> QED BY <1>1, <2>1, Zenon
<1>3. \A i : ByteAt(i)' = ByteAt(i)
  BY DEF Forward, ByteAt
<1>4. BracketsRead \subseteq BracketsRead'
  BY <1>2, <1>3 DEF BracketsRead
<1>5. QuotesRead \subseteq QuotesRead'
  BY <1>2, <1>3 DEF QuotesRead, Quotes
<1>6. InterpRead \subseteq InterpRead'
  BY <1>2, <1>3 DEF InterpRead, Quotes, OpenerOf
<1> QED BY <1>4, <1>5, <1>6

LEMMA BracketsKeep ==
  ASSUME TypeOK, BracketsNest, Forward, UNCHANGED brackets
  PROVE  BracketsNest'
<1>1. brackets' \in Seq(BracketsRead')
  BY ReadMono, SeqMono DEF BracketsNest
<1> QED BY <1>1 DEF BracketsNest, Increasing

LEMMA BracketsPop ==
  ASSUME TypeOK, BracketsNest, Forward, brackets # <<>>, brackets' = Pop(brackets)
  PROVE  BracketsNest'
<1>1. brackets \in Seq(BracketsRead')
  BY ReadMono, SeqMono DEF BracketsNest
<1>2. Pop(brackets) \in Seq(BracketsRead')
  BY <1>1, PopType
<1>3. Increasing(Pop(brackets))
  BY IncreasingPop DEF BracketsNest
<1> QED BY <1>2, <1>3 DEF BracketsNest, Increasing

LEMMA QuoteKeep ==
  ASSUME TypeOK, QuoteNests, Forward, UNCHANGED <<quote, brackets>>
  PROVE  QuoteNests'
BY ReadMono DEF QuoteNests, NoQuote

LEMMA InterpKeep ==
  ASSUME TypeOK, InterpNests, Forward, UNCHANGED <<quote, quote_is_interp, interp_level>>
  PROVE  InterpNests'
<1>1. interp_level' \in Seq(InterpRead')
  BY ReadMono, SeqMono DEF InterpNests
<1> QED BY <1>1 DEF InterpNests, Increasing, NoQuote

(* Most actions move the read position and leave the stacks alone. *)
LEMMA NestsKeep ==
  ASSUME TypeOK, Nests, Forward,
         UNCHANGED <<quote, quote_is_interp, interp_level, brackets>>
  PROVE  Nests'
BY BracketsKeep, QuoteKeep, InterpKeep DEF Nests

(* Outside quotes no subexpression of a string is open. *)
LEMMA NoInterpOutside ==
  ASSUME InterpNests, quote = NoQuote
  PROVE  interp_level = <<>>
BY DEF InterpNests

(* Outside quotes, the stacks nest when the brackets do. *)
LEMMA NestsOutside ==
  ASSUME TypeOK, Nests, quote = NoQuote, QuotingUnchanged, BracketsNest'
  PROVE  Nests'
<1>1. interp_level' = <<>>
  BY NoInterpOutside DEF Nests, QuotingUnchanged
<1>2. InterpNests'
  BY <1>1, EmptySeq DEF InterpNests, Increasing
<1>3. QuoteNests'
  BY DEF QuotingUnchanged, QuoteNests, NoQuote
<1> QED BY <1>2, <1>3 DEF Nests

----------------------------------------------------------------------------
LEMMA StepForward ==
  ASSUME TypeOK, Scanning, NEW n \in Nat, Step(n)
  PROVE  Forward
BY ScanningType DEF Step, Forward, inputs

LEMMA BreakForward ==
  ASSUME TypeOK, Scanning, NEW e \in at..Size, Break(e)
  PROVE  Forward
BY ScanningType DEF Break, Forward, inputs

(* Arithmetic of the offsets of the bytes read, start .. at - 1. *)
LEMMA Offsets ==
  /\ \A lo, hi \in Nat : \A k \in lo..(hi - 1) : k < hi
  /\ \A lo, hi, n \in Nat : lo <= hi /\ hi < n => hi \in lo..(n - 1)
OBVIOUS

LEMMA SeqElement ==
  ASSUME NEW S, NEW s \in Seq(S), NEW i \in 1..Len(s)
  PROVE  s[i] \in S
OBVIOUS

LEMMA PushBracket ==
  ASSUME TypeOK, Scanning, BracketsNest, Forward, at < at',
         NEW b \in {"[", "{", "(", "<"}, ByteAt(at) = b
  PROVE  /\ Append(brackets, [byte |-> b, at |-> at]) \in Seq(BracketsRead')
         /\ Increasing(Append(brackets, [byte |-> b, at |-> at]))
<1> DEFINE d == [byte |-> b, at |-> at]
<1>1. d \in Delimiter /\ brackets \in Seq(Delimiter) /\ brackets \in Seq(BracketsRead)
  BY ScanningType DEF BracketsNest
<1>2. \A i \in 1..Len(brackets) : brackets[i].at < at
  <2> SUFFICES ASSUME NEW i \in 1..Len(brackets) PROVE brackets[i].at < at
    OBVIOUS
  <2>1. brackets[i] \in BracketsRead
    BY <1>1, SeqElement, Zenon
  <2>2. brackets[i].at \in start..(at - 1)
    BY <2>1 DEF BracketsRead
  <2> QED BY <2>2, ScanningType, Offsets, Zenon
<1>3. Increasing(Append(brackets, d))
  BY <1>1, <1>2, IncreasingPush DEF BracketsNest
<1>4. d \in BracketsRead'
  <2>1. at \in start'..(at' - 1)
    <3>1. start' = start /\ at' \in Nat
      BY DEF Forward
    <3> QED BY <3>1, ScanningType, Offsets, Zenon
  <2>2. text'[at + 1] = b
    BY DEF Forward, ByteAt
  <2> QED BY <2>1, <2>2 DEF BracketsRead, ByteAt
<1>5. brackets \in Seq(BracketsRead')
  BY <1>1, ReadMono, SeqMono
<1>6. Append(brackets, d) \in Seq(BracketsRead')
  BY <1>4, <1>5, AppendProperties
<1> QED BY <1>3, <1>6

LEMMA ScanQuotedNests == TypeOK /\ Nests /\ ScanQuoted /\ pc' # "failed" => Nests'
<1> SUFFICES ASSUME TypeOK, Nests, ScanQuoted, pc' # "failed" PROVE Nests'
  OBVIOUS
<1>0. Scanning
  BY DEF ScanQuoted, InterpEscape, InterpClose, InterpOpen, InterpText, QuoteEscape, QuoteClose,
         QuoteSubexpression, QuoteText, InInterp, InQuote
<1>1. CASE InterpEscape
  BY <1>0, <1>1, StepForward, NestsKeep DEF InterpEscape
<1>2. CASE InterpClose
  <2>1. Forward /\ BracketsNest' /\ QuoteNests'
    BY <1>0, <1>2, StepForward, BracketsKeep, QuoteKeep DEF InterpClose, Nests
  <2>2. /\ interp_level \in Seq(InterpRead') /\ interp_level # <<>>
        /\ interp_level' = Pop(interp_level)
    BY <1>2, <2>1, ReadMono, SeqMono DEF Nests, InterpNests, InterpClose, InInterp
  <2>3. /\ interp_level' \in Seq(InterpRead')
        /\ Len(interp_level) \in Nat /\ Len(interp_level') = Len(interp_level) - 1
        /\ \A i \in 1..(Len(interp_level) - 1) : interp_level'[i] = interp_level[i]
    BY <2>2, PopType
  <2>4. Increasing(interp_level')
    BY <2>2, IncreasingPop DEF Nests, InterpNests
  <2>5. quote' = quote /\ quote_is_interp' = quote_is_interp
    BY <1>2 DEF InterpClose
  <2>6. InterpNests'
    BY <2>2, <2>3, <2>4, <2>5 DEF Nests, InterpNests, Increasing, NoQuote
  <2> QED BY <2>1, <2>6 DEF Nests
<1>3. CASE InterpOpen
  <2> DEFINE d == [byte |-> IF ByteAt(at) = "(" THEN ")" ELSE ByteAt(at), at |-> at]
  <2>1. Forward /\ BracketsNest' /\ QuoteNests'
    BY <1>0, <1>3, StepForward, BracketsKeep, QuoteKeep DEF InterpOpen, Nests
  <2>2. /\ interp_level \in Seq(Delimiter) /\ interp_level # <<>>
        /\ interp_level \in Seq(InterpRead) /\ interp_level \in Seq(InterpRead')
        /\ interp_level' = Append(interp_level, d)
    BY <1>0, <1>3, <2>1, ScanningType, ReadMono, SeqMono
       DEF Nests, InterpNests, InterpOpen, InInterp
  <2>3. d \in Delimiter
    BY <1>0, ScanningType DEF Delimiter, Byte
  <2>4. d \in InterpRead'
    <3>1. d.byte \in Quotes \union {")"} /\ text'[at + 1] = OpenerOf(d.byte)
      <4>1. text'[at + 1] = ByteAt(at) /\ ByteAt(at) \in {"SQ", "DQ", "BT", "("}
        BY <1>3, <2>1 DEF InterpOpen, Quotes, Forward, ByteAt
      <4>2. CASE ByteAt(at) = "("
        BY <4>1, <4>2 DEF Quotes, OpenerOf
      <4>3. CASE ByteAt(at) # "("
        BY <4>1, <4>3 DEF Quotes, OpenerOf
      <4> QED BY <4>2, <4>3
    <3>2. at \in start'..(at' - 1)
      BY <1>0, <1>3, ScanningType DEF InterpOpen, Step, TypeOK, PositionOK
    <3>3. d.at = at /\ d = [byte |-> d.byte, at |-> at]
      OBVIOUS
    <3>4. d \in [byte : Quotes \union {")"}, at : start'..(at' - 1)]
      BY <3>1, <3>2, <3>3
    <3> HIDE DEF d
    <3> QED BY <3>1, <3>3, <3>4 DEF InterpRead, Quotes, OpenerOf, ByteAt
  <2>5. \A i \in 1..Len(interp_level) : interp_level[i].at < d.at
    BY <1>0, <2>2, ScanningType DEF InterpRead
  <2>6. Increasing(interp_level')
    BY <2>2, <2>3, <2>5, IncreasingPush DEF Nests, InterpNests
  <2>7. /\ interp_level' \in Seq(InterpRead')
        /\ Len(interp_level) \in Nat /\ Len(interp_level) # 0
        /\ Len(interp_level') = Len(interp_level) + 1
        /\ \A i \in 1..Len(interp_level) : interp_level'[i] = interp_level[i]
        /\ interp_level'[Len(interp_level) + 1] = d
    BY <2>2, <2>4, AppendProperties
  <2>8. /\ quote' = quote /\ quote_is_interp' = quote_is_interp
        /\ quote # NoQuote /\ quote_is_interp
        /\ \A i \in 1..Len(interp_level) : quote.at < interp_level[i].at
        /\ \A i \in 1..(Len(interp_level) - 1) : interp_level[i].byte = ")"
        /\ interp_level[Len(interp_level)].byte = ")"
    BY <1>3, <2>2 DEF InterpOpen, InInterp, Expected, Top, Nests, InterpNests
  <2>9. quote.at < d.at
    <3>1. quote.at \in start..(at - 1)
      BY <2>8 DEF Nests, QuoteNests, QuotesRead
    <3> QED BY <1>0, <3>1, ScanningType
  <2>10. \A i \in 1..Len(interp_level') : quote'.at < interp_level'[i].at
    BY <2>7, <2>8, <2>9
  <2>11. \A i \in 1..(Len(interp_level') - 1) : interp_level'[i].byte = ")"
    BY <2>7, <2>8
  <2>12. InterpNests'
    BY <2>6, <2>7, <2>8, <2>10, <2>11 DEF InterpNests, Increasing, NoQuote
  <2> QED BY <2>1, <2>12 DEF Nests
<1>4. CASE InterpText
  BY <1>0, <1>4, StepForward, NestsKeep DEF InterpText
<1>5. CASE QuoteEscape
  <2>1. Step(2) /\ UNCHANGED <<quote, quote_is_interp, interp_level, in_comment, brackets>>
    BY <1>5 DEF QuoteEscape, Fails
  <2> QED BY <1>0, <2>1, StepForward, NestsKeep
<1>6. CASE QuoteClose
  <2>1. Forward /\ BracketsNest'
    BY <1>0, <1>6, StepForward, BracketsKeep DEF QuoteClose, Nests
  <2>2. quote' = NoQuote /\ interp_level' = <<>>
    BY <1>6 DEF QuoteClose, InQuote
  <2> QED BY <2>1, <2>2, EmptySeq DEF Nests, QuoteNests, InterpNests, Increasing, NoQuote
<1>7. CASE QuoteSubexpression
  <2>1. Forward /\ BracketsNest' /\ QuoteNests'
    BY <1>0, <1>7, StepForward, BracketsKeep, QuoteKeep DEF QuoteSubexpression, Nests
  <2>2. /\ interp_level' = <<[byte |-> ")", at |-> at]>>
        /\ quote' = quote /\ quote # NoQuote /\ quote_is_interp' /\ at' = at + 1
        /\ ByteAt(at) = "("
    BY <1>7 DEF QuoteSubexpression, InQuote, Step
  <2>3. [byte |-> ")", at |-> at] \in InterpRead'
    BY <1>0, <2>1, <2>2, ScanningType
       DEF InterpRead, Quotes, OpenerOf, Forward, ByteAt, TypeOK, PositionOK
  <2>4. quote.at < at
    <3>1. quote.at \in start..(at - 1)
      BY <2>2 DEF Nests, QuoteNests, QuotesRead
    <3> QED BY <1>0, <3>1, ScanningType
  <2>5. InterpNests'
    BY <2>2, <2>3, <2>4 DEF InterpNests, Increasing, NoQuote
  <2> QED BY <2>1, <2>5 DEF Nests
<1>8. CASE QuoteText
  BY <1>0, <1>8, StepForward, NestsKeep DEF QuoteText
<1> QED BY <1>1, <1>2, <1>3, <1>4, <1>5, <1>6, <1>7, <1>8 DEF ScanQuoted

LEMMA ScanCodeScans == ScanCode => Outside
BY DEF ScanCode, Hash, LineBreak, CommentText, SpecialItem, AngleClose, RedirectionPipe,
       QuoteOpen, BracketOpen, BracketClose, BracketStray, BracketMismatch, Plain,
       RawString, RawStringAt, Code

(* The scan stops or reads on, the brackets as they were. *)
LEMMA NestsOnward ==
  ASSUME TypeOK, Nests, Scanning, UNCHANGED brackets, QuotingUnchanged,
         Break(at) \/ Break(at + 1) \/ Step(1)
  PROVE  Nests'
<1>1. at \in at..Size /\ at + 1 \in at..Size
  BY ScanningType
<1>2. Forward
  BY <1>1, StepForward, BreakForward
<1> QED BY <1>2, NestsKeep DEF QuotingUnchanged

LEMMA ScanCodeNests == TypeOK /\ Nests /\ ScanCode /\ pc' # "failed" => Nests'
<1> SUFFICES ASSUME TypeOK, Nests, ScanCode, pc' # "failed" PROVE Nests'
  OBVIOUS
<1>0. Scanning /\ quote = NoQuote
  BY ScanCodeScans DEF Outside
<1>1. CASE Hash
  BY <1>0, <1>1, NestsOnward DEF Hash
<1>2. CASE LineBreak
  BY <1>0, <1>2, NestsOnward DEF LineBreak
<1>3. CASE CommentText
  BY <1>0, <1>3, NestsOnward DEF CommentText
<1>4. CASE SpecialItem
  BY <1>0, <1>4, NestsOnward DEF SpecialItem
<1>5. CASE AngleClose
  <2>1. Forward /\ QuotingUnchanged
    BY <1>0, <1>5, StepForward DEF AngleClose
  <2>2. BracketsNest'
    BY <1>5, <2>1, BracketsPop, BracketsKeep DEF AngleClose, Nests
  <2> QED BY <1>0, <2>1, <2>2, NestsOutside
<1>6. CASE RedirectionPipe
  BY <1>0, <1>6, NestsOnward DEF RedirectionPipe
<1>7. ASSUME NEW b \in Byte, QuoteOpen(b)
      PROVE  Nests'
  <2>1. /\ Forward /\ BracketsNest' /\ interp_level' = <<>>
        /\ quote' = [byte |-> b, at |-> at] /\ b \in Quotes /\ ByteAt(at) = b
        /\ brackets' = brackets /\ at < at'
    BY <1>0, <1>7, StepForward, BracketsKeep, NoInterpOutside, ScanningType
       DEF QuoteOpen, Code, Nests, Step
  <2>2. quote' \in QuotesRead'
    <3>1. at \in start'..(at' - 1)
      <4>1. start' = start /\ at' \in Nat
        BY <2>1 DEF Forward
      <4> QED BY <1>0, <2>1, <4>1, ScanningType, Offsets, Zenon
    <3>2. text'[at + 1] = b
      BY <2>1 DEF Forward, ByteAt
    <3> QED BY <2>1, <3>1, <3>2 DEF QuotesRead, Quotes, ByteAt
  <2>3. \A i \in 1..Len(brackets) : brackets[i].at < at
    <3> SUFFICES ASSUME NEW i \in 1..Len(brackets) PROVE brackets[i].at < at
      OBVIOUS
    <3>1. brackets[i] \in BracketsRead
      BY SeqElement, Zenon DEF Nests, BracketsNest
    <3>2. brackets[i].at \in start..(at - 1)
      BY <3>1 DEF BracketsRead
    <3> QED BY <1>0, <3>2, ScanningType, Offsets, Zenon
  <2>4. QuoteNests'
    BY <2>1, <2>2, <2>3 DEF QuoteNests
  <2>5. InterpNests'
    BY <2>1, EmptySeq DEF InterpNests, Increasing
  <2> QED BY <2>1, <2>4, <2>5 DEF Nests
<1>8. ASSUME NEW b \in Byte, BracketOpen(b)
      PROVE  Nests'
  <2>1. /\ Forward /\ at < at' /\ b \in {"[", "{", "(", "<"} /\ ByteAt(at) = b /\ QuotingUnchanged
    <3>1. Forward /\ QuotingUnchanged /\ ByteAt(at) = b /\ at' = at + 1
      BY <1>0, <1>8, StepForward DEF BracketOpen, Code, Step
    <3>2. b \in {"[", "{", "(", "<"}
      BY <1>8, Zenon DEF BracketOpen, Openers
    <3>3. at < at'
      BY <1>0, <3>1, ScanningType
    <3> QED BY <3>1, <3>2, <3>3
  <2>2. /\ Append(brackets, [byte |-> b, at |-> at]) \in Seq(BracketsRead')
        /\ Increasing(Append(brackets, [byte |-> b, at |-> at]))
    BY <1>0, <2>1, PushBracket DEF Nests
  <2>3. BracketsNest'
    BY <1>8, <2>2, Zenon DEF BracketOpen, BracketsNest, Increasing
  <2> QED BY <1>0, <2>1, <2>3, NestsOutside
<1>9. ASSUME NEW b \in Byte, BracketClose(b)
      PROVE  Nests'
  <2>1. Forward /\ QuotingUnchanged
    BY <1>0, <1>9, StepForward, BreakForward, ScanningType DEF BracketClose
  <2>2. BracketsNest'
    BY <1>9, <2>1, BracketsPop DEF BracketClose, Nests
  <2> QED BY <1>0, <2>1, <2>2, NestsOutside
<1>10. ASSUME NEW b \in Byte, BracketStray(b)
       PROVE  Nests'
  BY <1>0, <1>10, NestsOnward DEF BracketStray, Fails
<1>11. ASSUME NEW b \in Byte, BracketMismatch(b)
       PROVE  Nests'
  BY <1>11 DEF BracketMismatch, Fails
<1>12. ASSUME NEW b \in Byte, Plain(b)
       PROVE  Nests'
  BY <1>0, <1>12, NestsOnward DEF Plain
<1>13. ASSUME NEW q \in at..Size, RawString(q)
       PROVE  Nests'
  <2>1. /\ \E j \in (q + 1)..Size : RawCloses(q, j) /\ at' = j + (q - at)
        /\ UNCHANGED <<inputs, start, brackets>> /\ QuotingUnchanged
    BY <1>13 DEF RawString, Fails
  <2>2. Forward
    <3>1. PICK j \in (q + 1)..Size : at' = j + (q - at)
      BY <2>1
    <3>2. at' \in Nat /\ at <= at'
      BY <1>0, <3>1, ScanningType
    <3> QED BY <2>1, <3>2 DEF Forward, inputs
  <2> QED BY <2>1, <2>2, NestsKeep DEF QuotingUnchanged
<1> QED BY <1>1, <1>2, <1>3, <1>4, <1>5, <1>6, <1>7, <1>8, <1>9, <1>10, <1>11, <1>12, <1>13
        DEF ScanCode

LEMMA InitNests == Init => NestingInv
<1> SUFFICES ASSUME Init PROVE Nests
  BY DEF NestingInv
<1> QED BY EmptySeq DEF Init, Nests, BracketsNest, QuoteNests, InterpNests, Increasing

LEMMA NextNests == TypeOK /\ NestingInv /\ [Next]_vars => NestingInv'
<1> SUFFICES ASSUME TypeOK, NestingInv, [Next]_vars, pc' \in {"scan", "end"} PROVE Nests'
  BY DEF NestingInv
<1>1. CASE UNCHANGED vars
  <2>1. Nests
    BY <1>1 DEF vars, NestingInv
  <2>2. Forward
    BY <1>1, SizeType DEF vars, Forward, TypeOK, PositionOK
  <2> QED BY <1>1, <2>1, <2>2, NestsKeep DEF vars
<1>2. CASE NextToken
  <2>1. PICK p \in at..Size : BeginItem(p)
    BY <1>2 DEF NextToken, LexEof, LexNewline, LexSemicolon, LexPipe, LexComment, SkipComment,
                Peeks, Skipped, Emits
  <2>2. quote' = NoQuote /\ interp_level' = <<>> /\ brackets' = <<>>
    BY <2>1 DEF BeginItem
  <2> QED BY <2>2, EmptySeq DEF Nests, BracketsNest, QuoteNests, InterpNests, Increasing, NoQuote
<1>3. CASE ScanQuoted
  <2>1. Nests
    BY <1>3 DEF NestingInv, ScanQuoted, InterpEscape, InterpClose, InterpOpen, InterpText, QuoteEscape,
                QuoteClose, QuoteSubexpression, QuoteText, InInterp, InQuote, Scanning
  <2> QED BY <1>3, <2>1, ScanQuotedNests
<1>4. CASE ScanCode
  BY <1>4, ScanCodeScans, ScanCodeNests DEF NestingInv, Outside, Scanning
<1>5. CASE ItemEnd
  <2>1. EndOfText
    BY <1>5 DEF ItemEnd, UnclosedInterp, UnclosedQuote, UnclosedBracket, LexItem, GroupEnd, Fails, Emits
  <2>2. Nests /\ Forward
    BY <2>1, SizeType DEF EndOfText, NestingInv, Forward, inputs, TypeOK, PositionOK
  <2> QED BY <2>1, <2>2, NestsKeep DEF EndOfText, scanner
<1> QED BY <1>1, <1>2, <1>3, <1>4, <1>5 DEF Next

(* The delimiter stacks of item_length name, in order, bytes of the item     *)
(* that really are there: every text, every option, every nesting depth.     *)
THEOREM NestingCorrect == Spec => []NestingInv
BY InitType, NextType, InitNests, NextNests, PTL DEF Spec

----------------------------------------------------------------------------
(***************************************************************************)
(* OpaqueText: the actions inside quotes leave the brackets alone, and the *)
(* ones that move brackets read code.                                      *)
(***************************************************************************)
LEMMA NextOpaque ==
  Next /\ pc = "scan" /\ (in_comment \/ quote # NoQuote) => UNCHANGED brackets
<1> SUFFICES ASSUME Next, pc = "scan", in_comment \/ quote # NoQuote PROVE UNCHANGED brackets
  OBVIOUS
<1>1. CASE NextToken
  BY <1>1 DEF NextToken, LexEof, LexNewline, LexSemicolon, LexPipe, LexComment, SkipComment,
              BeginItem, Peeks, Skipped
<1>2. CASE ScanQuoted
  BY <1>2 DEF ScanQuoted, InterpEscape, InterpClose, InterpOpen, InterpText, QuoteEscape,
              QuoteClose, QuoteSubexpression, QuoteText, Fails, scanner
<1>3. CASE ScanCode
  BY <1>3 DEF ScanCode, Hash, LineBreak, CommentText, SpecialItem, AngleClose, RedirectionPipe,
              QuoteOpen, BracketOpen, BracketClose, BracketStray, BracketMismatch, Plain,
              RawString, RawStringAt, Code, Outside
<1>4. CASE ItemEnd
  BY <1>4 DEF ItemEnd, EndOfText, UnclosedInterp, UnclosedQuote, UnclosedBracket, Measured,
              LexItem, GroupEnd, scanner
<1> QED BY <1>1, <1>2, <1>3, <1>4 DEF Next

(* No bracket is opened or closed inside a comment or a string, whatever the *)
(* text.                                                                     *)
THEOREM TextIsOpaque == Spec => OpaqueText
<1>1. [Next]_vars => [(in_comment \/ quote # NoQuote) /\ pc = "scan" => UNCHANGED brackets]_vars
  BY NextOpaque
<1> QED BY <1>1, PTL DEF Spec, OpaqueText

----------------------------------------------------------------------------
(***************************************************************************)
(* UnclosedMeansTextEnded.  Breaking out of the loop needs an empty bracket *)
(* stack; for the | of a redirection that is because the item so far is a  *)
(* redirection, and holds no bracket.                                      *)
(***************************************************************************)
NothingOpen == brackets = <<>> /\ quote = NoQuote /\ interp_level = <<>>

StopsClean == pc = "end" /\ at < Size => NothingOpen

ErrorMeansFailed == diagnostic # NoError => pc = "failed"

UnclosedAtEnd ==
  diagnostic.kind = "Unclosed" =>
    /\ diagnostic.at = Size
    /\ diagnostic.open \in start..(Size - 1)
    /\ ByteAt(diagnostic.open) \in
         {"r"} \union (IF diagnostic.delimiter = ")" THEN {"("} ELSE {diagnostic.delimiter})

LEMMA UnclosedParts == UnclosedMeansTextEnded <=> StopsClean /\ UnclosedAtEnd
BY DEF UnclosedMeansTextEnded, StopsClean, UnclosedAtEnd, NothingOpen

(* The text of a redirection holds no bracket. *)
LEMMA RedirectionHasNoBracket ==
  ASSUME TypeOK, Nests, pc = "scan", Slice(start, at) \in Redirections
  PROVE  brackets = <<>>
<1> SUFFICES ASSUME brackets # <<>> PROVE FALSE
  OBVIOUS
<1>1. /\ start \in Nat /\ at \in Nat /\ start <= at /\ at <= Size
      /\ text \in Seq(Byte) /\ Size = Len(text) /\ Size \in Nat
  BY SizeType DEF TypeOK, PositionOK, InputsOK, Size
<1>2. brackets[1] \in BracketsRead
  <2>1. brackets \in Seq(BracketsRead) /\ 1 \in 1..Len(brackets)
    BY EmptySeq DEF Nests, BracketsNest
  <2> QED BY <2>1, SeqElement, Zenon
<1>3. PICK k \in start..(at - 1) : ByteAt(k) \in {"[", "{", "(", "<"}
  <2>1. /\ brackets[1].at \in start..(at - 1)
        /\ ByteAt(brackets[1].at) \in {"[", "{", "(", "<"}
    BY <1>2 DEF BracketsRead
  <2> QED BY <2>1
<1>4. /\ Len(SubSeq(text, start + 1, at)) = at - start
      /\ \A i \in 1..(at - start) : SubSeq(text, start + 1, at)[i] = text[start + i]
  BY <1>1
<1>5. k - start + 1 \in 1..(at - start) /\ text[start + (k - start + 1)] = text[k + 1]
  BY <1>1
<1>6. SubSeq(text, start + 1, at)[k - start + 1] \in {"[", "{", "(", "<"}
  BY <1>3, <1>4, <1>5 DEF ByteAt
<1>7. \A item \in Redirections : Len(item) = 2 /\ item[1] \in {"o", "e", "oe"} /\ item[2] = ">"
  BY DEF Redirections
<1>8. k - start + 1 \in {1, 2}
  <2>1. at - start = 2
    BY <1>4, <1>7 DEF Slice
  <2> QED BY <1>1, <1>5, <2>1
<1> QED BY <1>6, <1>7, <1>8 DEF Slice

(* A break out of the loop: nothing is open. *)
LEMMA ScanStopsClean ==
  ASSUME TypeOK, Nests, ScanCode, pc' = "end"
  PROVE  NothingOpen'
<1>0. Scanning /\ quote = NoQuote /\ interp_level = <<>>
  BY ScanCodeScans, NoInterpOutside DEF Outside, Nests
<1>1. /\ ~ Hash /\ ~ AngleClose
      /\ \A b \in Byte : ~ QuoteOpen(b) /\ ~ BracketOpen(b) /\ ~ BracketMismatch(b) /\ ~ BracketStray(b)
      /\ \A q \in at..Size : ~ RawString(q)
  BY <1>0 DEF Scanning, Hash, AngleClose, QuoteOpen, BracketOpen, BracketMismatch, BracketStray,
              RawString, Step, Fails
<1>2. CASE LineBreak
  BY <1>0, <1>2 DEF LineBreak, Step, Scanning, IsTerminator, NothingOpen, QuotingUnchanged
<1>3. CASE CommentText
  BY <1>0, <1>3 DEF CommentText, Step, Scanning, IsTerminator, NothingOpen, QuotingUnchanged
<1>4. CASE SpecialItem
  BY <1>0, <1>4 DEF SpecialItem, SpecialHere, NothingOpen, QuotingUnchanged
<1>5. CASE RedirectionPipe
  BY <1>0, <1>5, RedirectionHasNoBracket
     DEF RedirectionPipe, NothingOpen, QuotingUnchanged, Scanning
<1>6. ASSUME NEW b \in Byte, BracketClose(b)
      PROVE  NothingOpen'
  BY <1>0, <1>6 DEF BracketClose, Step, Scanning, NothingOpen, QuotingUnchanged
<1>7. ASSUME NEW b \in Byte, Plain(b)
      PROVE  NothingOpen'
  BY <1>0, <1>7 DEF Plain, Step, Scanning, IsTerminator, NothingOpen, QuotingUnchanged
<1> QED BY <1>1, <1>2, <1>3, <1>4, <1>5, <1>6, <1>7 DEF ScanCode

LEMMA NextStopsClean ==
  TypeOK /\ NestingInv /\ StopsClean /\ [Next]_vars => StopsClean'
<1> SUFFICES ASSUME TypeOK, NestingInv, StopsClean, [Next]_vars, pc' = "end", at' < Size'
             PROVE  NothingOpen'
  BY DEF StopsClean
<1>1. CASE UNCHANGED vars
  BY <1>1 DEF vars, StopsClean, NothingOpen, Size
<1>2. CASE NextToken
  BY <1>2 DEF NextToken, LexEof, LexNewline, LexSemicolon, LexPipe, LexComment, SkipComment,
              BeginItem, Peeks, Skipped, Emits
<1>3. CASE ScanQuoted
  BY <1>3 DEF ScanQuoted, InterpEscape, InterpClose, InterpOpen, InterpText, QuoteEscape,
              QuoteClose, QuoteSubexpression, QuoteText, InInterp, InQuote, Scanning, Step, Fails
<1>4. CASE ScanCode
  <2>1. Nests
    BY <1>4, ScanCodeScans DEF NestingInv, Outside, Scanning
  <2> QED BY <1>4, <2>1, ScanStopsClean
<1>5. CASE ItemEnd
  <2>1. EndOfText
    BY <1>5 DEF ItemEnd, UnclosedInterp, UnclosedQuote, UnclosedBracket, LexItem, GroupEnd, Fails, Emits
  <2> QED BY <2>1, SizeType DEF EndOfText, inputs, Size
<1> QED BY <1>1, <1>2, <1>3, <1>4, <1>5 DEF Next

(* An action that fails has the diagnostic of Fails; the others leave it. *)
LEMMA NextErrorMeansFailed ==
  ErrorMeansFailed /\ [Next]_vars => ErrorMeansFailed'
<1> SUFFICES ASSUME ErrorMeansFailed, [Next]_vars, diagnostic' # NoError PROVE pc' = "failed"
  BY DEF ErrorMeansFailed, NoError
<1>1. CASE UNCHANGED vars
  BY <1>1 DEF vars, ErrorMeansFailed
<1>2. CASE NextToken
  BY <1>2 DEF NextToken, LexEof, LexNewline, LexSemicolon, LexPipe, LexComment, SkipComment,
              BeginItem, Peeks, Skipped, Emits, outputs, ErrorMeansFailed
<1>3. CASE ScanQuoted
  BY <1>3 DEF ScanQuoted, InterpEscape, InterpClose, InterpOpen, InterpText, QuoteEscape,
              QuoteClose, QuoteSubexpression, QuoteText, InInterp, InQuote, Scanning, Step, Fails,
              outputs, ErrorMeansFailed
<1>4. CASE ScanCode
  BY <1>4 DEF ScanCode, Hash, LineBreak, CommentText, SpecialItem, AngleClose, RedirectionPipe,
              QuoteOpen, BracketOpen, BracketClose, BracketStray, BracketMismatch, Plain,
              RawString, RawStringAt, Code, Outside, Scanning, Step, Break, Fails,
              outputs, ErrorMeansFailed
<1>5. CASE ItemEnd
  BY <1>5 DEF ItemEnd, EndOfText, UnclosedInterp, UnclosedQuote, UnclosedBracket, LexItem,
              GroupEnd, Measured, Fails, Emits, outputs, ErrorMeansFailed
<1> QED BY <1>1, <1>2, <1>3, <1>4, <1>5 DEF Next

LEMMA UnclosedFails ==
  ASSUME TypeOK, NEW delimiter, NEW open \in start..(Size - 1), NEW where, where = Size,
         ByteAt(open) \in {"r"} \union (IF delimiter = ")" THEN {"("} ELSE {delimiter}),
         Fails("Unclosed", delimiter, open, where)
  PROVE  UnclosedAtEnd'
<1>1. /\ diagnostic'.at = where /\ diagnostic'.open = open /\ diagnostic'.delimiter = delimiter
      /\ start' = start /\ text' = text
  BY DEF Fails, inputs
<1> QED BY <1>1 DEF UnclosedAtEnd, Size, ByteAt

(* The actions that report an unclosed delimiter, at the end of the text. *)
LEMMA QuoteEscapeUnclosed ==
  ASSUME TypeOK, Nests, QuoteEscape, pc' = "failed"
  PROVE  UnclosedAtEnd'
<1>0. Scanning
  BY DEF QuoteEscape, InQuote
<1>1. quote \in QuotesRead
  BY DEF QuoteEscape, InQuote, Nests, QuoteNests
<1>2. quote.at \in start..(at - 1) /\ ByteAt(quote.at) = quote.byte /\ quote.byte # ")"
  BY <1>1 DEF QuotesRead, Quotes
<1>3. at + 1 >= Size /\ Fails("Unclosed", quote.byte, quote.at, at + 1)
  BY <1>0 DEF QuoteEscape, Step, Scanning
<1>4. at + 1 = Size
  BY <1>0, <1>3, ScanningType
<1>5. quote.at \in start..(Size - 1)
  BY <1>0, <1>2, <1>4, ScanningType
<1> QED BY <1>2, <1>3, <1>4, <1>5, UnclosedFails

LEMMA RawStringUnclosed ==
  ASSUME TypeOK, UnclosedAtEnd, NEW q \in at..Size, RawString(q), diagnostic'.kind = "Unclosed"
  PROVE  UnclosedAtEnd'
<1>0. Scanning /\ ByteAt(at) = "r"
  BY DEF RawString, RawStringAt, Code, Outside
<1>1. CASE Fails("Unclosed", "SQ", at, Size)
  <2>1. at \in start..(Size - 1)
    BY <1>0, ScanningType
  <2> QED BY <1>0, <1>1, <2>1, UnclosedFails
<1>2. CASE Fails("Expected", "SQ", q, q)
  BY <1>2 DEF Fails
<1>3. CASE UNCHANGED outputs /\ UNCHANGED <<inputs, start>>
  BY <1>3 DEF outputs, inputs, UnclosedAtEnd, Size, ByteAt
<1> QED BY <1>1, <1>2, <1>3 DEF RawString

LEMMA EndUnclosed ==
  ASSUME TypeOK, Nests, StopsClean, UnclosedInterp \/ UnclosedQuote \/ UnclosedBracket
  PROVE  UnclosedAtEnd'
<1>0. /\ at \in Nat /\ start \in Nat /\ Size \in Nat /\ at <= Size /\ pc = "end"
  BY SizeType DEF TypeOK, PositionOK, UnclosedInterp, UnclosedQuote, UnclosedBracket
<1>1. at = Size
  <2>1. ~ NothingOpen
    BY DEF NothingOpen, UnclosedInterp, UnclosedQuote, UnclosedBracket
  <2> QED BY <1>0, <2>1 DEF StopsClean
<1>2. CASE UnclosedInterp
  <2>1. interp_level[1] \in InterpRead
    <3>1. interp_level \in Seq(InterpRead) /\ 1 \in 1..Len(interp_level)
      BY <1>2, EmptySeq DEF UnclosedInterp, Nests, InterpNests
    <3> QED BY <3>1, SeqElement, Zenon
  <2>2. /\ interp_level[1].at \in start..(Size - 1)
        /\ ByteAt(interp_level[1].at) = OpenerOf(interp_level[1].byte)
    BY <1>1, <2>1 DEF InterpRead
  <2> QED BY <1>1, <1>2, <2>2, UnclosedFails DEF UnclosedInterp, OpenerOf
<1>3. CASE UnclosedQuote
  <2>1. quote \in QuotesRead
    BY <1>3 DEF UnclosedQuote, Nests, QuoteNests
  <2>2. quote.at \in start..(Size - 1) /\ ByteAt(quote.at) = quote.byte /\ quote.byte # ")"
    BY <1>1, <2>1 DEF QuotesRead, Quotes
  <2> QED BY <1>1, <1>3, <2>2, UnclosedFails DEF UnclosedQuote
<1>4. CASE UnclosedBracket
  <2>1. Top(brackets) \in BracketsRead
    BY <1>4, PopType DEF UnclosedBracket, Nests, BracketsNest
  <2>2. /\ Top(brackets).at \in start..(Size - 1)
        /\ ByteAt(Top(brackets).at) = Top(brackets).byte /\ Top(brackets).byte # ")"
    BY <1>1, <2>1 DEF BracketsRead
  <2> QED BY <1>1, <1>4, <2>2, UnclosedFails DEF UnclosedBracket
<1> QED BY <1>2, <1>3, <1>4

LEMMA NextUnclosed ==
  TypeOK /\ NestingInv /\ StopsClean /\ ErrorMeansFailed /\ UnclosedAtEnd /\ [Next]_vars
    => UnclosedAtEnd'
<1> SUFFICES ASSUME TypeOK, NestingInv, StopsClean, ErrorMeansFailed, UnclosedAtEnd, [Next]_vars,
                    diagnostic'.kind = "Unclosed"
             PROVE  UnclosedAtEnd'
  BY DEF UnclosedAtEnd
<1>1. CASE UNCHANGED vars
  BY <1>1 DEF vars, UnclosedAtEnd, Size, ByteAt
<1>2. pc # "failed" => diagnostic' # diagnostic
  BY DEF ErrorMeansFailed, NoError
<1>3. CASE NextToken
  BY <1>2, <1>3 DEF NextToken, LexEof, LexNewline, LexSemicolon, LexPipe, LexComment, SkipComment,
              BeginItem, Peeks, Skipped, Emits, outputs
<1>4. CASE ScanQuoted
  <2>1. pc = "scan" /\ Nests
    BY <1>4 DEF NestingInv, ScanQuoted, InterpEscape, InterpClose, InterpOpen, InterpText, QuoteEscape,
                QuoteClose, QuoteSubexpression, QuoteText, InInterp, InQuote, Scanning
  <2>2. QuoteEscape /\ pc' = "failed"
    BY <1>2, <1>4, <2>1
       DEF ScanQuoted, InterpEscape, InterpClose, InterpOpen, InterpText, QuoteEscape,
           QuoteClose, QuoteSubexpression, QuoteText, Step, Fails, outputs
  <2> QED BY <2>1, <2>2, QuoteEscapeUnclosed
<1>5. CASE ScanCode
  <2>1. pc = "scan"
    BY <1>5, ScanCodeScans DEF Outside, Scanning
  <2>2. diagnostic' # diagnostic /\ diagnostic'.kind = "Unclosed"
    BY <1>2, <2>1
  <2>3. ~ (Hash \/ LineBreak \/ CommentText \/ SpecialItem \/ AngleClose \/ RedirectionPipe)
    BY <2>2 DEF Hash, LineBreak, CommentText, SpecialItem, AngleClose, RedirectionPipe,
                Step, Break, outputs
  <2>4. ASSUME NEW b \in Byte
        PROVE  ~ (QuoteOpen(b) \/ BracketOpen(b) \/ BracketClose(b) \/ Plain(b))
    BY <2>2 DEF QuoteOpen, BracketOpen, BracketClose, Plain, Step, Break, outputs
  <2>5. ASSUME NEW b \in Byte
        PROVE  ~ (BracketStray(b) \/ BracketMismatch(b))
    BY <2>2 DEF BracketStray, BracketMismatch, Step, Fails, outputs
  <2>6. PICK q \in at..Size : RawString(q)
    BY <1>5, <2>3, <2>4, <2>5 DEF ScanCode
  <2> QED BY <2>2, <2>6, RawStringUnclosed
<1>6. CASE ItemEnd
  <2>1. (UnclosedInterp \/ UnclosedQuote \/ UnclosedBracket) /\ pc = "end"
    <3>1. pc # "failed"
      BY <1>6 DEF ItemEnd, EndOfText, UnclosedInterp, UnclosedQuote, UnclosedBracket, LexItem,
                  GroupEnd, Measured
    <3>2. ~ EndOfText /\ ~ GroupEnd
      BY <1>2, <3>1 DEF EndOfText, GroupEnd, outputs
    <3>3. ~ LexItem
      BY <1>2, <3>1 DEF LexItem, Fails, Emits
    <3> QED BY <1>6, <3>2, <3>3 DEF ItemEnd, UnclosedInterp, UnclosedQuote, UnclosedBracket
  <2>2. Nests
    BY <2>1 DEF NestingInv
  <2> QED BY <2>1, <2>2, EndUnclosed
<1> QED BY <1>1, <1>3, <1>4, <1>5, <1>6 DEF Next

(* An unclosed-delimiter error is at the end of the text and points at a     *)
(* delimiter that is in it, for every text and every set of options.         *)
THEOREM UnclosedCorrect == Spec => []UnclosedMeansTextEnded
<1>1. Init => StopsClean /\ ErrorMeansFailed /\ UnclosedAtEnd
  <2> SUFFICES ASSUME Init PROVE StopsClean /\ ErrorMeansFailed /\ UnclosedAtEnd
    OBVIOUS
  <2>1. diagnostic = NoError /\ pc # "end"
    BY DEF Init, FirstState
  <2>2. StopsClean
    BY <2>1 DEF StopsClean
  <2>3. ErrorMeansFailed
    BY <2>1 DEF ErrorMeansFailed
  <2>4. UnclosedAtEnd
    BY <2>1 DEF UnclosedAtEnd, NoError
  <2> QED BY <2>2, <2>3, <2>4
<1>2. StopsClean /\ UnclosedAtEnd => UnclosedMeansTextEnded
  BY UnclosedParts
<1> QED BY <1>1, <1>2, InitType, NextType, InitNests, NextNests, NextStopsClean,
           NextErrorMeansFailed, NextUnclosed, PTL DEF Spec

----------------------------------------------------------------------------
(***************************************************************************)
(* Comments.  Outside brackets and quotes the last byte read is never      *)
(* white space, because white space ends the item there; so a # met there  *)
(* is not taken for a comment.                                             *)
(***************************************************************************)
NoFormFeed == \A i \in 1..Size : text[i] # "FF"

CommentFree ==
  pc = "scan" /\ brackets = <<>> /\ NoFormFeed =>
    /\ ~ in_comment
    /\ quote = NoQuote =>
         /\ previous \notin AsciiWhitespace
         /\ previous = "none" /\ at < Size => ByteAt(at) # "#"

LEMMA CommentFreeSuffices == CommentFree => CommentInBrackets
BY DEF CommentFree, CommentInBrackets, NoFormFeed

(* The call does not change. *)
LEMMA InputsKept == [Next]_vars => UNCHANGED inputs
<1> SUFFICES ASSUME [Next]_vars PROVE UNCHANGED inputs
  OBVIOUS
<1>1. CASE UNCHANGED vars
  BY <1>1 DEF vars, inputs
<1>2. CASE NextToken
  BY <1>2 DEF NextToken, LexEof, LexNewline, LexSemicolon, LexPipe, LexComment, SkipComment,
              BeginItem, Emits
<1>3. CASE ScanQuoted
  BY <1>3 DEF ScanQuoted, InterpEscape, InterpClose, InterpOpen, InterpText, QuoteEscape,
              QuoteClose, QuoteSubexpression, QuoteText, Step, Fails
<1>4. CASE ScanCode
  BY <1>4 DEF ScanCode, Hash, LineBreak, CommentText, SpecialItem, AngleClose, RedirectionPipe,
              QuoteOpen, BracketOpen, BracketClose, BracketStray, BracketMismatch, Plain,
              RawString, Step, Break, Fails
<1>5. CASE ItemEnd
  BY <1>5 DEF ItemEnd, EndOfText, UnclosedInterp, UnclosedQuote, UnclosedBracket, LexItem,
              GroupEnd, Fails, Emits
<1> QED BY <1>1, <1>2, <1>3, <1>4, <1>5 DEF Next

LEMMA InitCommentFree == Init => CommentFree
<1> SUFFICES ASSUME Init, pc = "scan" PROVE CommentFree
  BY DEF CommentFree
<1>0. at = 0
  BY DEF Init
<1>1. ~ in_comment /\ previous = "none" /\ text[1] # "#"
  BY DEF Init, FirstState
<1>2. ByteAt(at) # "#"
  <2>1. 0 + 1 = 1
    OBVIOUS
  <2> QED BY <1>0, <1>1, <2>1, Zenon DEF ByteAt
<1> QED BY <1>1, <1>2 DEF CommentFree, AsciiWhitespace

(* A byte of code that is read outside brackets is not white space. *)
LEMMA ReadCodeFree ==
  ASSUME TypeOK, NoFormFeed, Scanning, NEW b, b = ByteAt(at), b \notin Terminators
  PROVE  b \notin AsciiWhitespace /\ b # "none"
<1>1. at \in Nat /\ Size \in Nat /\ at < Size
  BY ScanningType DEF Scanning
<1>2. b # "FF" /\ b # "none"
  <2>1. at + 1 \in 1..Size
    BY <1>1
  <2>2. b \in Byte
    BY <1>1, ByteAtType
  <2> QED BY <2>1, <2>2 DEF NoFormFeed, ByteAt, Byte
<1> QED BY <1>2 DEF Terminators, AsciiWhitespace

LEMMA ScanCodeCommentFree ==
  ASSUME TypeOK, CommentFree, ScanCode, pc' = "scan", brackets' = <<>>, NoFormFeed
  PROVE  /\ ~ in_comment'
         /\ quote' = NoQuote => previous' \notin AsciiWhitespace /\ previous' # "none"
<1>0. Outside /\ Scanning /\ quote = NoQuote /\ at < Size /\ pc = "scan"
  BY ScanCodeScans DEF Outside, Scanning
<1>1. brackets = <<>> => ~ in_comment /\ previous \notin AsciiWhitespace
                         /\ (previous = "none" => ByteAt(at) # "#")
  BY <1>0 DEF CommentFree
<1>2. CASE Hash
  <2>1. brackets = <<>> /\ previous' = "#" /\ ByteAt(at) = "#"
    BY <1>2 DEF Hash, Step
  <2> QED BY <1>1, <1>2, <2>1 DEF Hash, AsciiWhitespace
<1>3. CASE LineBreak
  BY <1>0, <1>3 DEF LineBreak, Step, Break, IsTerminator, Terminators
<1>4. CASE CommentText
  BY <1>0, <1>1, <1>4 DEF CommentText
<1>5. CASE SpecialItem \/ RedirectionPipe
  BY <1>5 DEF SpecialItem, RedirectionPipe, Break
<1>6. CASE AngleClose
  BY <1>6 DEF AngleClose, Code, Step, AsciiWhitespace
<1>7. ASSUME NEW b \in Byte, QuoteOpen(b)
      PROVE  quote' # NoQuote /\ ~ in_comment'
  BY <1>7 DEF QuoteOpen, Code, Quotes, NoQuote
<1>8. ASSUME NEW b \in Byte, BracketClose(b)
      PROVE  ~ in_comment' /\ previous' \notin AsciiWhitespace /\ previous' # "none"
  BY <1>8 DEF BracketClose, Code, Closers, Step, Break, AsciiWhitespace
<1>9. ASSUME NEW b \in Byte, BracketStray(b)
      PROVE  ~ in_comment' /\ previous' \notin AsciiWhitespace /\ previous' # "none"
  BY <1>9 DEF BracketStray, Code, Step, Fails, AsciiWhitespace
<1>10. ASSUME NEW b \in Byte, BracketOpen(b) \/ BracketMismatch(b)
       PROVE  FALSE
  <2>1. CASE BracketMismatch(b)
    BY <2>1 DEF BracketMismatch, Fails
  <2>2. CASE BracketOpen(b)
    <3>1. brackets \in Seq(Delimiter)
      BY DEF TypeOK, ScannerOK
    <3> QED BY <2>2, <3>1 DEF BracketOpen
  <2> QED BY <1>10, <2>1, <2>2
<1>11. ASSUME NEW b \in Byte, Plain(b)
       PROVE  ~ in_comment' /\ previous' \notin AsciiWhitespace /\ previous' # "none"
  <2>1. brackets = <<>> /\ b = ByteAt(at) /\ ~ in_comment'
    BY <1>11 DEF Plain, Code
  <2>2. b \notin Terminators /\ previous' = b
    BY <1>11, <2>1 DEF Plain, IsTerminator, Step, Break
  <2> QED BY <1>0, <2>1, <2>2, ReadCodeFree
<1>12. ASSUME NEW q \in at..Size, RawString(q)
       PROVE  ~ in_comment' /\ previous' \notin AsciiWhitespace /\ previous' # "none"
  BY <1>12 DEF RawString, RawStringAt, Code, Fails, AsciiWhitespace
<1> QED BY <1>0, <1>2, <1>3, <1>4, <1>5, <1>6, <1>7, <1>8, <1>9, <1>10, <1>11, <1>12 DEF ScanCode

LEMMA ScanQuotedCommentFree ==
  ASSUME TypeOK, NestingInv, CommentFree, ScanQuoted, pc' = "scan", brackets' = <<>>, NoFormFeed
  PROVE  /\ ~ in_comment'
         /\ quote' = NoQuote => previous' \notin AsciiWhitespace /\ previous' # "none"
<1>0. pc = "scan" /\ quote # NoQuote /\ brackets = <<>> /\ in_comment' = in_comment
  BY DEF ScanQuoted, InterpEscape, InterpClose, InterpOpen, InterpText, QuoteEscape, QuoteClose,
         QuoteSubexpression, QuoteText, InInterp, InQuote, Scanning, Fails
<1>1. ~ in_comment'
  BY <1>0 DEF CommentFree
<1>2. quote' = NoQuote => QuoteClose
  BY <1>0 DEF ScanQuoted, InterpEscape, InterpClose, InterpOpen, InterpText, QuoteEscape,
              QuoteSubexpression, QuoteText, Fails
<1>3. QuoteClose => previous' \in Quotes
  <2>1. quote.byte \in Quotes
    BY <1>0 DEF NestingInv, Nests, QuoteNests, QuotesRead
  <2> QED BY <2>1 DEF QuoteClose, Step
<1> QED BY <1>1, <1>2, <1>3 DEF Quotes, AsciiWhitespace

LEMMA NextCommentFree ==
  TypeOK /\ NestingInv /\ CommentFree /\ [Next]_vars => CommentFree'
<1> SUFFICES ASSUME TypeOK, NestingInv, CommentFree, [Next]_vars,
                    pc' = "scan", brackets' = <<>>, NoFormFeed'
             PROVE  /\ ~ in_comment'
                    /\ quote' = NoQuote =>
                         /\ previous' \notin AsciiWhitespace
                         /\ previous' = "none" /\ at' < Size' => ByteAt(at)' # "#"
  BY DEF CommentFree, AsciiWhitespace
<1>0. CASE UNCHANGED vars
  BY <1>0 DEF vars, CommentFree, NoFormFeed, Size, ByteAt
<1>1. NoFormFeed
  BY InputsKept DEF inputs, NoFormFeed, Size
<1>2. CASE NextToken
  <2>1. PICK p \in at..Size : BeginItem(p)
    BY <1>2 DEF NextToken, LexEof, LexNewline, LexSemicolon, LexPipe, LexComment, SkipComment,
                Peeks, Skipped, Emits
  <2>2. at' = p /\ text' = text /\ ByteAt(p) # "#" /\ ~ in_comment' /\ previous' = "none"
    BY <2>1 DEF BeginItem, inputs
  <2>3. ByteAt(at)' # "#"
    BY <2>2 DEF ByteAt
  <2> QED BY <2>2, <2>3 DEF AsciiWhitespace
<1>3. CASE ScanQuoted
  BY <1>1, <1>3, ScanQuotedCommentFree
<1>4. CASE ScanCode
  BY <1>1, <1>4, ScanCodeCommentFree
<1>5. CASE ItemEnd
  BY <1>5 DEF ItemEnd, EndOfText, UnclosedInterp, UnclosedQuote, UnclosedBracket, LexItem,
              GroupEnd, Fails, Emits
<1> QED BY <1>0, <1>2, <1>3, <1>4, <1>5 DEF Next

(* In a text without a form feed, item_length is in a comment only inside    *)
(* brackets, for every text and every set of options.                       *)
THEOREM CommentsAreBracketed == Spec => []CommentInBrackets
<1> QED BY InitType, NextType, InitNests, NextNests, InitCommentFree, NextCommentFree,
           CommentFreeSuffices, PTL DEF Spec

----------------------------------------------------------------------------
(***************************************************************************)
(* The lexer implements the tokenizer: what module Tokenizer promises of   *)
(* the tokens of a text holds of the tokens the byte loops make, for every *)
(* set of calls.                                                           *)
(***************************************************************************)

(* group_end makes no tokens: it never comes to next_token. *)
GroupMakesNoTokens == first_group => pc # "next_token"

(* Between tokens: all since the last one is blank. *)
BetweenTokens ==
  pc = "next_token" => Abstract!Blank(Abstract!LastEnd, at) /\ Len(tokens) <= max_tokens

(* In an item: it started where a token may, and there is room for it. *)
ItemBegun ==
  ~ first_group /\ pc \in {"scan", "end"} =>
    /\ Abstract!Blank(Abstract!LastEnd, start) /\ Len(tokens) < max_tokens
    /\ start < Size
    /\ ByteAt(start) \notin Whitespace \union {"NL", ";", "|", "#"}

(* After an item: it ended where an item may. *)
ItemEnded == ~ first_group /\ pc = "end" => Abstract!MayEnd(start, at)

TokensInv == GroupMakesNoTokens /\ BetweenTokens /\ ItemBegun /\ ItemEnded

----------------------------------------------------------------------------
(* The two modules read the text alike. *)
LEMMA SameReading ==
  /\ \A i : Abstract!ByteAt(i) = ByteAt(i)
  /\ Abstract!Size = Size
  /\ Abstract!Whitespace = Whitespace
  /\ Abstract!Terminators = Terminators
BY DEF Abstract!ByteAt, ByteAt, Abstract!Size, Size, Abstract!Whitespace, Whitespace,
       Abstract!Terminators, Terminators

LEMMA BlankRun ==
  ASSUME NEW lo \in Nat, NEW mid \in Nat, NEW hi \in Nat,
         Abstract!Blank(lo, mid), Run(mid, hi, Whitespace)
  PROVE  Abstract!Blank(lo, hi)
<1>1. lo <= mid /\ mid <= hi
  BY DEF Abstract!Blank, Run
<1>2. ASSUME NEW i \in lo..(hi - 1)
      PROVE  Abstract!ByteAt(i) \in Abstract!Whitespace \/ Abstract!InSkippedComment(lo, i)
  <2>1. CASE i < mid
    <3>1. i \in lo..(mid - 1)
      BY <2>1
    <3> QED BY <3>1 DEF Abstract!Blank
  <2>2. CASE ~ (i < mid)
    <3>1. i \in mid..(hi - 1)
      BY <2>2
    <3>2. ByteAt(i) \in Whitespace
      BY <3>1 DEF Run
    <3> QED BY <3>2, SameReading
  <2> QED BY <2>1, <2>2
<1>3. lo <= hi
  BY <1>1
<1> QED BY <1>2, <1>3 DEF Abstract!Blank

LEMMA BlankComment ==
  ASSUME NEW lo \in Nat, NEW mid \in Nat, NEW hi \in Nat, Abstract!Blank(lo, mid),
         mid < Size, ByteAt(mid) = "#", Run(mid, hi, Byte \ {"NL"}), options.skip_comments
  PROVE  Abstract!Blank(lo, hi)
<1>1. lo <= mid /\ mid <= hi
  BY DEF Abstract!Blank, Run
<1>2. ASSUME NEW i \in lo..(hi - 1)
      PROVE  Abstract!ByteAt(i) \in Abstract!Whitespace \/ Abstract!InSkippedComment(lo, i)
  <2>1. CASE i < mid
    <3>1. i \in lo..(mid - 1)
      BY <2>1
    <3> QED BY <3>1 DEF Abstract!Blank
  <2>2. CASE ~ (i < mid)
    <3>1. mid \in lo..i
      BY <1>1, <2>2
    <3>2. \A k \in mid..(i + 1 - 1) : ByteAt(k) # "NL"
      <4>1. \A k \in mid..(i + 1 - 1) : k \in mid..(hi - 1)
        OBVIOUS
      <4> QED BY <4>1 DEF Run
    <3>3. "NL" \notin Abstract!Bytes(mid, i + 1)
      BY <3>2, SameReading DEF Abstract!Bytes
    <3> QED BY <3>1, <3>3, SameReading DEF Abstract!InSkippedComment
  <2> QED BY <2>1, <2>2
<1>3. lo <= hi
  BY <1>1
<1> QED BY <1>2, <1>3 DEF Abstract!Blank

LEMMA BlankHere == ASSUME NEW i \in Nat PROVE Abstract!Blank(i, i)
BY DEF Abstract!Blank

LEMMA LastEndType == TypeOK => Abstract!LastEnd \in Nat
<1> SUFFICES ASSUME TypeOK, tokens # <<>> PROVE Abstract!LastEnd \in Nat
  BY DEF Abstract!LastEnd
<1>1. tokens \in Seq(Tokens) /\ Len(tokens) \in 1..Len(tokens)
  BY EmptySeq DEF TypeOK, OutputsOK
<1>2. tokens[Len(tokens)] \in Tokens
  BY <1>1
<1> QED BY <1>2 DEF Abstract!LastEnd, Tokens

(* What a token leaves behind: it is the last one, and it ends at e. *)
LEMMA EmitsLast ==
  ASSUME TypeOK, NEW contents \in TokenContents, NEW s \in Nat, NEW e \in Nat,
         tokens' = Append(tokens, Token(contents, s, e))
  PROVE  Abstract!LastEnd' = e /\ Len(tokens') = Len(tokens) + 1
<1>1. Token(contents, s, e) \in Tokens /\ Token(contents, s, e).end = e
  BY DEF Token, Tokens
<1>2. /\ tokens \in Seq(Tokens)
      /\ Append(tokens, Token(contents, s, e)) # <<>>
      /\ Len(Append(tokens, Token(contents, s, e))) = Len(tokens) + 1
      /\ Append(tokens, Token(contents, s, e))[Len(tokens) + 1] = Token(contents, s, e)
  BY <1>1, AppendProperties, EmptySeq DEF TypeOK, OutputsOK
<1> QED BY <1>1, <1>2, Zenon DEF Abstract!LastEnd

----------------------------------------------------------------------------
(* What was blank stays blank, and what may end an item still may. *)
LEMMA BlankKept ==
  ASSUME UNCHANGED <<inputs, tokens>>
  PROVE  /\ Abstract!Blank(Abstract!LastEnd, at)' <=> Abstract!Blank(Abstract!LastEnd, at')
         /\ Abstract!Blank(Abstract!LastEnd, start)' <=> Abstract!Blank(Abstract!LastEnd, start')
         /\ Abstract!MayEnd(start, at)' <=> Abstract!MayEnd(start', at')
BY DEF inputs, Abstract!Blank, Abstract!InSkippedComment, Abstract!Bytes, Abstract!ByteAt,
       Abstract!LastEnd,
       Abstract!Whitespace, Abstract!MayEnd, Abstract!Size, Abstract!Terminators

(* What a step inside an item does to the tokenizer's state: nothing, or it *)
(* stops where an item may end.                                            *)
InItem ==
  /\ pc = "scan"
  /\ UNCHANGED <<inputs, start, tokens>>
  /\ pc' \in {"scan", "end", "failed"}
  /\ ~ first_group /\ pc' = "end" => Abstract!MayEnd(start, at')

LEMMA StepInItem == ASSUME pc = "scan", NEW n, Step(n) PROVE InItem
BY DEF Step, InItem, outputs, inputs

LEMMA FailsInItem ==
  ASSUME pc = "scan", NEW kind, NEW delimiter, NEW open, NEW where,
         Fails(kind, delimiter, open, where)
  PROVE  InItem
BY DEF Fails, InItem, inputs

LEMMA BreakInItem ==
  ASSUME pc = "scan", NEW e, Break(e), ~ first_group => Abstract!MayEnd(start, e)
  PROVE  InItem
BY DEF Break, InItem, outputs, inputs

(* Every break of item_length is at a terminator, at the end of a special   *)
(* byte or of a |, or the end of a group.                                   *)
LEMMA TerminatorInItem ==
  ASSUME Scanning, NEW b, b = ByteAt(at), IsTerminator(b), Break(at)
  PROVE  InItem
<1>1. ByteAt(at) \in Terminators
  BY DEF IsTerminator
<1>2. Abstract!MayEnd(start, at)
  BY <1>1, SameReading DEF Abstract!MayEnd
<1> QED BY <1>2, BreakInItem DEF Scanning

(* A | may end an item. *)
LEMMA PipeMayEnd ==
  ASSUME NEW s \in Nat, NEW i \in Nat, ByteAt(i) = "|"
  PROVE  Abstract!MayEnd(s, i + 1)
<1>1. i + 1 - 1 = i
  OBVIOUS
<1>2. Abstract!ByteAt(i + 1 - 1) = "|"
  BY <1>1, SameReading
<1> QED BY <1>2 DEF Abstract!MayEnd

LEMMA ScanQuotedInItem == ScanQuoted => InItem
<1> SUFFICES ASSUME ScanQuoted PROVE InItem
  OBVIOUS
<1>1. pc = "scan"
  BY DEF ScanQuoted, InterpEscape, InterpClose, InterpOpen, InterpText, QuoteEscape,
         QuoteClose, QuoteSubexpression, QuoteText, InInterp, InQuote, Scanning
<1>2. CASE QuoteEscape
  BY <1>1, <1>2, StepInItem, FailsInItem DEF QuoteEscape
<1>3. CASE ScanQuoted /\ ~ QuoteEscape
  BY <1>1, <1>3, StepInItem
  DEF ScanQuoted, InterpEscape, InterpClose, InterpOpen, InterpText,
      QuoteClose, QuoteSubexpression, QuoteText
<1> QED BY <1>2, <1>3

LEMMA ScanCodeInItem == TypeOK /\ ScanCode => InItem
<1> SUFFICES ASSUME TypeOK, ScanCode PROVE InItem
  OBVIOUS
<1>1. Scanning /\ pc = "scan"
  BY ScanCodeScans DEF Outside, Scanning
<1>2. CASE Hash
  BY <1>1, <1>2, StepInItem DEF Hash
<1>3. CASE LineBreak
  BY <1>1, <1>3, StepInItem, TerminatorInItem DEF LineBreak
<1>4. CASE CommentText
  BY <1>1, <1>4, StepInItem, TerminatorInItem DEF CommentText
<1>5. CASE SpecialItem
  <2>1. at = start /\ ByteAt(start) \in options.special_tokens /\ Break(at + 1)
    BY <1>5 DEF SpecialItem, SpecialHere
  <2>2. at + 1 = start + 1 /\ Abstract!ByteAt(start) \in options.special_tokens
    BY <2>1, SameReading, Zenon
  <2>3. Abstract!MayEnd(start, at + 1)
    BY <2>2, Zenon DEF Abstract!MayEnd
  <2> QED BY <1>1, <2>1, <2>3, BreakInItem
<1>6. CASE AngleClose
  BY <1>1, <1>6, StepInItem DEF AngleClose
<1>7. CASE RedirectionPipe
  <2>1. ByteAt(at) = "|" /\ Break(at + 1)
    BY <1>7 DEF RedirectionPipe, Code
  <2>2. at \in Nat /\ start \in Nat
    BY <1>1, ScanningType
  <2>3. Abstract!MayEnd(start, at + 1)
    BY <2>1, <2>2, PipeMayEnd
  <2> QED BY <1>1, <2>1, <2>3, BreakInItem
<1>8. ASSUME NEW b \in Byte, QuoteOpen(b) \/ BracketOpen(b)
      PROVE  InItem
  BY <1>1, <1>8, StepInItem DEF QuoteOpen, BracketOpen
<1>9. ASSUME NEW b \in Byte, BracketClose(b)
      PROVE  InItem
  <2>1. CASE Break(at + 1) /\ first_group
    BY <1>1, <2>1, BreakInItem
  <2>2. CASE Step(1)
    BY <1>1, <2>2, StepInItem
  <2> QED BY <1>9, <2>1, <2>2 DEF BracketClose
<1>10. ASSUME NEW b \in Byte, BracketStray(b) \/ BracketMismatch(b)
       PROVE  InItem
  BY <1>1, <1>10, StepInItem, FailsInItem DEF BracketStray, BracketMismatch
<1>11. ASSUME NEW b \in Byte, Plain(b)
       PROVE  InItem
  BY <1>1, <1>11, StepInItem, TerminatorInItem DEF Plain, Code
<1>12. ASSUME NEW q \in at..Size, RawString(q)
       PROVE  InItem
  <2>1. CASE q = Size \/ ByteAt(q) # "SQ"
    BY <1>1, <1>12, <2>1, FailsInItem DEF RawString
  <2>2. CASE ~ (q = Size \/ ByteAt(q) # "SQ") /\ (\A j \in (q + 1)..Size : ~ RawCloses(q, j))
    BY <1>1, <1>12, <2>2, FailsInItem DEF RawString
  <2>3. CASE ~ (q = Size \/ ByteAt(q) # "SQ") /\ ~ (\A j \in (q + 1)..Size : ~ RawCloses(q, j))
    BY <1>1, <1>12, <2>3 DEF RawString, InItem, inputs, outputs
  <2> QED BY <2>1, <2>2, <2>3
<1> QED BY <1>2, <1>3, <1>4, <1>5, <1>6, <1>7, <1>8, <1>9, <1>10, <1>11, <1>12 DEF ScanCode

----------------------------------------------------------------------------
(***************************************************************************)
(* The actions of the lexer, seen as steps of the tokenizer: each keeps    *)
(* TokensInv and is a step of it or a stutter.                             *)
(***************************************************************************)
Simulates == TokensInv' /\ [Abstract!Next]_(Abstract!vars)

LEMMA InitTokens == Init => TokensInv /\ Abstract!Init
<1> SUFFICES ASSUME Init PROVE TokensInv /\ Abstract!Init
  OBVIOUS
<1>1. TypeOK
  BY InitType
<1>2. tokens = <<>> /\ at = 0 /\ Len(tokens) = 0 /\ max_tokens \in Nat
  BY EmptySeq, <1>1 DEF Init, TypeOK, InputsOK
<1>3. Abstract!LastEnd = 0
  BY <1>2 DEF Abstract!LastEnd
<1>4. pc = FirstState /\ first_group \in BOOLEAN
  BY <1>1 DEF Init, TypeOK, InputsOK
<1>5. GroupMakesNoTokens
  BY <1>4 DEF GroupMakesNoTokens, FirstState
<1>6. BetweenTokens
  BY <1>2, <1>3, BlankHere DEF BetweenTokens
<1>7. ItemBegun /\ ItemEnded
  BY <1>4 DEF ItemBegun, ItemEnded, FirstState
<1>8. Abstract!Init
  BY <1>2, <1>4 DEF Abstract!Init, Status, FirstState
<1> QED BY <1>5, <1>6, <1>7, <1>8 DEF TokensInv

(* Inside an item the tokenizer stutters, or refuses the text. *)
LEMMA InItemSimulates == TypeOK /\ TokensInv /\ InItem => Simulates
<1> SUFFICES ASSUME TypeOK, TokensInv, InItem PROVE Simulates
  OBVIOUS
<1>1. /\ pc = "scan" /\ pc' \in {"scan", "end", "failed"}
      /\ UNCHANGED <<text, options, max_tokens, first_group, start, tokens>>
      /\ UNCHANGED <<inputs, tokens>>
  BY DEF InItem, inputs
<1>2. GroupMakesNoTokens' /\ BetweenTokens'
  BY <1>1 DEF GroupMakesNoTokens, BetweenTokens
<1>3. ItemBegun'
  <2> SUFFICES ASSUME ~ first_group, pc' \in {"scan", "end"}
               PROVE  ItemBegun'
    BY <1>1 DEF ItemBegun
  <2>1. /\ Abstract!Blank(Abstract!LastEnd, start) /\ Len(tokens) < max_tokens /\ start < Size
        /\ ByteAt(start) \notin Whitespace \union {"NL", ";", "|", "#"}
    BY <1>1 DEF TokensInv, ItemBegun
  <2>2. Abstract!Blank(Abstract!LastEnd, start)'
    BY <1>1, <2>1, BlankKept
  <2>3. (/\ Len(tokens) < max_tokens /\ start < Size
         /\ ByteAt(start) \notin Whitespace \union {"NL", ";", "|", "#"})'
    BY <1>1, <2>1 DEF Size, ByteAt, Whitespace
  <2> QED BY <2>2, <2>3 DEF ItemBegun
<1>4. ItemEnded'
  BY <1>1, BlankKept DEF ItemEnded, InItem
<1>5. [Abstract!Next]_(Abstract!vars)
  <2>1. CASE first_group \/ pc' # "failed"
    BY <1>1, <2>1 DEF Abstract!vars, Status
  <2>2. CASE ~ first_group /\ pc' = "failed"
    BY <1>1, <2>2 DEF Abstract!Next, Abstract!Refuse, Status
  <2> QED BY <2>1, <2>2
<1> QED BY <1>2, <1>3, <1>4, <1>5 DEF Simulates, TokensInv

(* A token of the lexer is a token of the tokenizer. *)
LEMMA EmitSimulates ==
  ASSUME TypeOK, ~ first_group, pc \in {"next_token", "end"},
         NEW kind \in Abstract!Kinds, NEW s \in Nat, NEW e \in Nat, s < e, e <= Size,
         Abstract!Blank(Abstract!LastEnd, s), Len(tokens) < max_tokens,
         Abstract!Looks(kind, s, e), Emits(kind, s, e)
  PROVE  Simulates
<1>1. /\ UNCHANGED <<text, options, max_tokens, first_group>>
      /\ tokens' = Append(tokens, Token(kind, s, e))
      /\ at' = e /\ pc' = "next_token"
  BY DEF Emits, inputs
<1>2. kind \in TokenContents
  BY DEF Abstract!Kinds, TokenContents
<1>3. Abstract!LastEnd' = e /\ Len(tokens') = Len(tokens) + 1
  BY <1>1, <1>2, EmitsLast
<1>4. TokensInv'
  <2>1. Len(tokens) \in Nat /\ max_tokens \in Nat
    BY DEF TypeOK, InputsOK, OutputsOK
  <2>2. Len(tokens') <= max_tokens'
    BY <1>1, <1>3, <2>1
  <2>3. Abstract!Blank(Abstract!LastEnd, at)'
    BY <1>1, <1>3 DEF Abstract!Blank
  <2>4. BetweenTokens'
    BY <2>2, <2>3 DEF BetweenTokens
  <2>5. GroupMakesNoTokens' /\ ItemBegun' /\ ItemEnded'
    BY <1>1 DEF GroupMakesNoTokens, ItemBegun, ItemEnded
  <2> QED BY <2>4, <2>5 DEF TokensInv
<1>5. Status = "running" /\ Status' = "running"
  BY <1>1 DEF Status
<1>6. Abstract!Emit(kind, s, e)
  BY <1>1, <1>5 DEF Abstract!Emit, Token
<1>7. s \in 0..Abstract!Size /\ e \in 0..Abstract!Size
  <2>1. Size \in Nat
    BY SizeType
  <2> QED BY <2>1, SameReading
<1>8. Abstract!Next
  BY <1>6, <1>7 DEF Abstract!Next
<1> QED BY <1>4, <1>8 DEF Simulates

(* The bytes of the shortest tokens. *)
LEMMA FewBytes ==
  ASSUME NEW s \in Nat
  PROVE  /\ Abstract!Bytes(s, s + 1) = {ByteAt(s)}
         /\ Abstract!Bytes(s, s + 2) = {ByteAt(s), ByteAt(s + 1)}
<1>1. s..(s + 1 - 1) = {s} /\ s..(s + 2 - 1) = {s, s + 1}
  OBVIOUS
<1>2. Abstract!Bytes(s, s + 1) = {ByteAt(k) : k \in {s}}
  BY <1>1, SameReading DEF Abstract!Bytes
<1>3. Abstract!Bytes(s, s + 2) = {ByteAt(k) : k \in {s, s + 1}}
  BY <1>1, SameReading DEF Abstract!Bytes
<1> QED BY <1>2, <1>3

(* A comment is read to the newline. *)
LEMMA CommentLooks ==
  ASSUME TypeOK, NEW s \in Nat, s < Size, ByteAt(s) = "#", NEW e \in s..Size,
         Run(s, e, Byte \ {"NL"})
  PROVE  s < e /\ Abstract!Looks("Comment", s, e)
<1>1. Size \in Nat /\ e \in Nat /\ s <= e
  BY SizeType
<1>2. s # e
  BY DEF Run, Byte
<1>3. e < Size => Abstract!ByteAt(e) = "NL"
  BY <1>1, ByteAtType, SameReading DEF Run
<1>4. \A k \in s..(e - 1) : ByteAt(k) # "NL"
  BY DEF Run
<1>5. "NL" \notin Abstract!Bytes(s, e)
  BY <1>4, SameReading DEF Abstract!Bytes
<1>6. Abstract!ByteAt(s) = "#" /\ (e < Abstract!Size => Abstract!ByteAt(e) = "NL")
  BY <1>3, SameReading
<1>7. Abstract!Looks("Comment", s, e)
  BY <1>5, <1>6 DEF Abstract!Looks
<1> QED BY <1>1, <1>2, <1>7

(* Where next_token has skipped the white space: all is blank up to p. *)
LEMMA SkippedBlank ==
  ASSUME TypeOK, TokensInv, NEW p \in at..Size, Skipped(p)
  PROVE  /\ ~ first_group /\ pc = "next_token" /\ Len(tokens) <= max_tokens
         /\ p \in Nat /\ Size \in Nat
         /\ Abstract!Blank(Abstract!LastEnd, p)
         /\ p < Size => ByteAt(p) \notin Whitespace
<1>1. pc = "next_token" /\ Run(at, p, Whitespace)
  BY DEF Skipped
<1>2. at \in Nat /\ p \in Nat /\ Size \in Nat /\ Abstract!LastEnd \in Nat
  BY SizeType, LastEndType DEF TypeOK, PositionOK
<1>3. ~ first_group /\ Abstract!Blank(Abstract!LastEnd, at) /\ Len(tokens) <= max_tokens
  BY <1>1 DEF TokensInv, GroupMakesNoTokens, BetweenTokens
<1>4. Abstract!Blank(Abstract!LastEnd, p)
  BY <1>1, <1>2, <1>3, BlankRun
<1> QED BY <1>1, <1>2, <1>3, <1>4 DEF Run

LEMMA NextTokenSimulates == TypeOK /\ TokensInv /\ NextToken => Simulates
<1> SUFFICES ASSUME TypeOK, TokensInv, NextToken PROVE Simulates
  OBVIOUS
<1>1. ASSUME NEW p \in at..Size, LexEof(p)
      PROVE  Simulates
  <2>1. Skipped(p) /\ (p = Size \/ Len(tokens) >= max_tokens)
    BY <1>1 DEF LexEof
  <2>2. /\ UNCHANGED <<text, options, max_tokens, first_group>> /\ pc' = "done"
        /\ tokens' = Append(tokens, [contents |-> "Eof", start |-> p, end |-> p])
    BY <1>1 DEF LexEof, inputs, Token
  <2>3. p < Abstract!Size => Len(tokens) = max_tokens /\ Abstract!ByteAt(p) \notin Abstract!Whitespace
    <3>1. p < Size => Len(tokens) = max_tokens /\ ByteAt(p) \notin Whitespace
      BY <2>1, SkippedBlank DEF TypeOK, InputsOK, OutputsOK
    <3> QED BY <3>1, SkippedBlank, <2>1, SameReading
  <2>4. Status = "running" /\ Status' = "done"
    BY <2>1, <2>2, SkippedBlank DEF Status
  <2>5. Abstract!Finish(p)
    BY <2>1, <2>2, <2>3, <2>4, SkippedBlank DEF Abstract!Finish
  <2>6. p \in 0..Abstract!Size
    BY <2>1, SkippedBlank, SameReading
  <2>7. TokensInv'
    BY <2>2 DEF TokensInv, GroupMakesNoTokens, BetweenTokens, ItemBegun, ItemEnded
  <2> QED BY <2>5, <2>6, <2>7 DEF Simulates, Abstract!Next
<1>2. ASSUME NEW p \in at..Size, NEW b, Peeks(p, b)
      PROVE  /\ Skipped(p) /\ Len(tokens) < max_tokens /\ p < Size /\ ByteAt(p) = b
             /\ ~ first_group /\ pc = "next_token" /\ p \in Nat /\ Size \in Nat
             /\ p + 1 \in Nat /\ p + 2 \in Nat /\ p < p + 1 /\ p < p + 2 /\ p + 1 <= Size
             /\ Abstract!Blank(Abstract!LastEnd, p)
  BY <1>2, SkippedBlank DEF Peeks
<1>3. ASSUME NEW p \in at..Size, LexNewline(p)
      PROVE  Simulates
  <2>1. Peeks(p, "NL") /\ Emits("Eol", p, p + 1)
    BY <1>3 DEF LexNewline
  <2>2. Abstract!Looks("Eol", p, p + 1)
    BY <1>2, <2>1, FewBytes DEF Abstract!Looks
  <2> QED BY <1>2, <2>1, <2>2, EmitSimulates DEF Abstract!Kinds
<1>4. ASSUME NEW p \in at..Size, LexSemicolon(p)
      PROVE  Simulates
  <2>1. Peeks(p, ";") /\ Emits("Semicolon", p, p + 1)
    BY <1>4 DEF LexSemicolon
  <2>2. Abstract!Looks("Semicolon", p, p + 1)
    BY <1>2, <2>1, FewBytes DEF Abstract!Looks
  <2> QED BY <1>2, <2>1, <2>2, EmitSimulates DEF Abstract!Kinds
<1>5. ASSUME NEW p \in at..Size, LexPipe(p)
      PROVE  Simulates
  <2>1. Peeks(p, "|")
    BY <1>5 DEF LexPipe
  <2>2. CASE p + 1 < Size /\ ByteAt(p + 1) = "|"
    <3>1. Emits("PipePipe", p, p + 2)
      BY <1>5, <2>2 DEF LexPipe
    <3>2. p + 2 <= Size
      BY <1>2, <2>1, <2>2
    <3>3. Abstract!Looks("PipePipe", p, p + 2)
      BY <1>2, <2>1, <2>2, FewBytes DEF Abstract!Looks
    <3> QED BY <1>2, <2>1, <3>1, <3>2, <3>3, EmitSimulates DEF Abstract!Kinds
  <2>3. CASE ~ (p + 1 < Size /\ ByteAt(p + 1) = "|")
    <3>1. Emits("Pipe", p, p + 1)
      BY <1>5, <2>3 DEF LexPipe
    <3>2. Abstract!Looks("Pipe", p, p + 1)
      BY <1>2, <2>1, <2>3, FewBytes, SameReading DEF Abstract!Looks
    <3> QED BY <1>2, <2>1, <3>1, <3>2, EmitSimulates DEF Abstract!Kinds
  <2> QED BY <2>2, <2>3
<1>6. ASSUME NEW p \in at..Size, NEW e \in p..Size, LexComment(p, e)
      PROVE  Simulates
  <2>1. Peeks(p, "#") /\ Run(p, e, Byte \ {"NL"}) /\ Emits("Comment", p, e)
    BY <1>6 DEF LexComment
  <2>2. p < e /\ Abstract!Looks("Comment", p, e)
    BY <1>2, <2>1, CommentLooks
  <2>3. e \in Nat /\ e <= Size
    BY <1>2, <2>1
  <2> QED BY <1>2, <2>1, <2>2, <2>3, EmitSimulates DEF Abstract!Kinds
<1>7. ASSUME NEW p \in at..Size, NEW e \in p..Size, SkipComment(p, e)
      PROVE  Simulates
  <2>1. Peeks(p, "#") /\ Run(p, e, Byte \ {"NL"}) /\ options.skip_comments
    BY <1>7 DEF SkipComment
  <2>2. /\ UNCHANGED <<text, options, max_tokens, first_group, pc, tokens>>
        /\ UNCHANGED <<inputs, tokens>> /\ at' = e
    BY <1>7 DEF SkipComment, inputs, outputs
  <2>3. e \in Nat /\ Abstract!LastEnd \in Nat
    BY <1>2, <2>1, LastEndType
  <2>4. Abstract!Blank(Abstract!LastEnd, e)
    BY <1>2, <2>1, <2>3, BlankComment
  <2>5. Abstract!Blank(Abstract!LastEnd, at)'
    BY <2>2, <2>4, BlankKept
  <2>6. BetweenTokens'
    BY <1>2, <2>1, <2>2, <2>5, SkippedBlank DEF BetweenTokens
  <2>7. GroupMakesNoTokens' /\ ItemBegun' /\ ItemEnded'
    BY <1>2, <2>1, <2>2 DEF GroupMakesNoTokens, ItemBegun, ItemEnded
  <2>8. UNCHANGED Abstract!vars
    BY <2>2 DEF Abstract!vars, Status
  <2> QED BY <2>6, <2>7, <2>8 DEF Simulates, TokensInv
<1>8. ASSUME NEW p \in at..Size, BeginItem(p)
      PROVE  Simulates
  <2>1. /\ Skipped(p) /\ Len(tokens) < max_tokens
        /\ p < Size /\ ByteAt(p) \notin {"NL", "#", "|", ";"}
    BY <1>8 DEF BeginItem
  <2>2. /\ UNCHANGED <<text, options, max_tokens, first_group, tokens>>
        /\ UNCHANGED <<inputs, tokens>> /\ pc' = "scan" /\ start' = p
    BY <1>8 DEF BeginItem, inputs, outputs
  <2>3. Abstract!Blank(Abstract!LastEnd, start)'
    BY <2>1, <2>2, SkippedBlank, BlankKept
  <2>4. (/\ Len(tokens) < max_tokens /\ start < Size
         /\ ByteAt(start) \notin Whitespace \union {"NL", ";", "|", "#"})'
    <3>1. ByteAt(p) \notin Whitespace \union {"NL", ";", "|", "#"}
      BY <2>1, SkippedBlank
    <3> QED BY <2>1, <2>2, <3>1 DEF Size, ByteAt, Whitespace
  <2>5. ItemBegun'
    BY <2>3, <2>4 DEF ItemBegun
  <2>6. GroupMakesNoTokens' /\ BetweenTokens' /\ ItemEnded'
    BY <2>2 DEF GroupMakesNoTokens, BetweenTokens, ItemEnded
  <2>7. pc = "next_token"
    BY <2>1 DEF Skipped
  <2>8. UNCHANGED Abstract!vars
    BY <2>2, <2>7 DEF Abstract!vars, Status
  <2> QED BY <2>5, <2>6, <2>8 DEF Simulates, TokensInv
<1> QED BY <1>1, <1>3, <1>4, <1>5, <1>6, <1>7, <1>8 DEF NextToken

LEMMA ItemEndSimulates == TypeOK /\ TokensInv /\ ItemEnd => Simulates
<1> SUFFICES ASSUME TypeOK, TokensInv, ItemEnd PROVE Simulates
  OBVIOUS
<1>1. CASE EndOfText
  <2>1. Abstract!MayEnd(start, at)
    BY <1>1, SameReading DEF EndOfText, Abstract!MayEnd
  <2>2. InItem
    BY <1>1, <2>1 DEF EndOfText, InItem, inputs, outputs
  <2> QED BY <2>2, InItemSimulates
<1>2. ASSUME NEW kind, NEW delimiter, NEW open, NEW where,
             pc = "end", Fails(kind, delimiter, open, where)
      PROVE  Simulates
  <2>1. UNCHANGED <<text, options, max_tokens, first_group, tokens>> /\ pc' = "failed"
    BY <1>2 DEF Fails, inputs
  <2>2. TokensInv'
    BY <2>1 DEF TokensInv, GroupMakesNoTokens, BetweenTokens, ItemBegun, ItemEnded
  <2>3. CASE first_group
    BY <2>1, <2>2, <2>3 DEF Simulates, Abstract!vars, Status
  <2>4. CASE ~ first_group
    BY <1>2, <2>1, <2>2, <2>4 DEF Simulates, Abstract!Next, Abstract!Refuse, Status
  <2> QED BY <2>3, <2>4
<1>3. CASE UnclosedInterp \/ UnclosedQuote \/ UnclosedBracket
  BY <1>2, <1>3 DEF UnclosedInterp, UnclosedQuote, UnclosedBracket
<1>4. CASE LexItem
  <2> DEFINE contents == ItemContents(Slice(start, at))
  <2>1. pc = "end" /\ ~ first_group
    BY <1>4 DEF LexItem, Measured
  <2>2. CASE at = start \/ contents = "ShellSyntax"
    BY <1>2, <1>4, <2>1, <2>2 DEF LexItem
  <2>3. CASE ~ (at = start \/ contents = "ShellSyntax")
    <3>1. Emits(contents, start, at)
      BY <1>4, <2>3 DEF LexItem
    <3>2. start \in Nat /\ at \in Nat /\ start < at /\ at <= Size
      BY <2>3, SizeType DEF TypeOK, PositionOK
    <3>3. /\ Abstract!Blank(Abstract!LastEnd, start) /\ Len(tokens) < max_tokens
          /\ ByteAt(start) \notin Whitespace \union {"NL", ";", "|", "#"}
          /\ Abstract!MayEnd(start, at)
      BY <2>1 DEF TokensInv, ItemBegun, ItemEnded
    <3>4. contents \in {"Item", "AssignmentOperator", "Redirection"}
      BY <2>3 DEF ItemContents
    <3>5. contents \in Abstract!Kinds
      BY <3>4 DEF Abstract!Kinds
    <3>6. Abstract!Looks(contents, start, at)
      <4> HIDE DEF contents
      <4> QED BY <3>3, <3>4, SameReading DEF Abstract!Looks
    <3> HIDE DEF contents
    <3> QED BY <2>1, <3>1, <3>2, <3>3, <3>5, <3>6, EmitSimulates
  <2> QED BY <2>2, <2>3
<1>5. CASE GroupEnd
  <2>1. /\ first_group /\ pc' = "done"
        /\ UNCHANGED <<text, options, max_tokens, first_group, tokens>>
    BY <1>5 DEF GroupEnd, inputs, outputs
  <2>2. TokensInv'
    BY <2>1 DEF TokensInv, GroupMakesNoTokens, BetweenTokens, ItemBegun, ItemEnded
  <2> QED BY <2>1, <2>2 DEF Simulates, Abstract!vars, Status
<1> QED BY <1>1, <1>3, <1>4, <1>5 DEF ItemEnd

LEMMA NextSimulates == TypeOK /\ TokensInv /\ [Next]_vars => Simulates
<1> SUFFICES ASSUME TypeOK, TokensInv, [Next]_vars PROVE Simulates
  OBVIOUS
<1>1. CASE Next
  BY <1>1, NextTokenSimulates, ScanQuotedInItem, ScanCodeInItem, InItemSimulates,
     ItemEndSimulates DEF Next
<1>2. CASE UNCHANGED vars
  <2>1. /\ UNCHANGED <<text, options, max_tokens, first_group, pc, start, at, tokens>>
        /\ UNCHANGED <<inputs, tokens>>
    BY <1>2 DEF vars, inputs
  <2>2. BetweenTokens'
    BY <2>1, BlankKept DEF TokensInv, BetweenTokens
  <2>3. ItemEnded' /\ GroupMakesNoTokens'
    BY <2>1, BlankKept DEF TokensInv, ItemEnded, GroupMakesNoTokens
  <2>4. ItemBegun'
    <3>1. (start < Size /\ ByteAt(start) \notin Whitespace \union {"NL", ";", "|", "#"})'
            <=> start < Size /\ ByteAt(start) \notin Whitespace \union {"NL", ";", "|", "#"}
      BY <2>1 DEF Size, ByteAt, Whitespace
    <3> QED BY <2>1, <3>1, BlankKept DEF TokensInv, ItemBegun
  <2>5. UNCHANGED Abstract!vars
    BY <2>1 DEF Abstract!vars, Status
  <2> QED BY <2>2, <2>3, <2>4, <2>5 DEF Simulates, TokensInv
<1> QED BY <1>1, <1>2

(***************************************************************************)
(* The tokens lex_n_tokens makes are what module Tokenizer promises, for   *)
(* every text, option set and limit: in source order, apart, with only     *)
(* blanks between them, each looking like its kind and ending where a      *)
(* token may.  (RefinesTokenizer adds that the call ends, which is left to *)
(* the runs.)                                                              *)
(***************************************************************************)
THEOREM ImplementsTokenizer == Spec => Abstract!Safety
<1>1. Init => TypeOK /\ TokensInv /\ Abstract!Init
  BY InitType, InitTokens
<1>2. TypeOK /\ TokensInv /\ [Next]_vars => TypeOK' /\ TokensInv'
  BY NextType, NextSimulates DEF Simulates
<1>3. TypeOK /\ TokensInv /\ [Next]_vars => [Abstract!Next]_(Abstract!vars)
  BY NextSimulates DEF Simulates
<1> QED BY <1>1, <1>2, <1>3, PTL DEF Spec, Abstract!Safety
============================================================================
