-------------------------- MODULE Boundaries_proofs --------------------------
(***************************************************************************)
(* Where statements end: at the `;` on their own last line, and where      *)
(* words and line ends say.                                                *)
(***************************************************************************)
EXTENDS DocComments_proofs

----------------------------------------------------------------------------
(***************************************************************************)
(* A pipeline's terminator is the `;` on its own last line.  It is taken   *)
(* in two places: parse_pipeline looks for it where its last command ended,*)
(* and parse_block, when last tells that the `;` comes on the line of a    *)
(* statement that failed.                                                  *)
(***************************************************************************)

(* From the word w to t there are comments only, or swallowed line ends. *)
Closes(w, t) ==
  /\ w < t
  /\ \A k \in Indices(w + 1, t) : tokens[k] = "Comment" \/ (tokens[k] = "Eol" /\ tokens[w] = "Pipe")

EndsAt(s, t) == tokens[t] = "Semicolon" /\ \E w \in StatementOf(s) : Closes(w, t)

LastOf(list)   == list[Len(list)]
ClosedBy(c, t) == \E w \in TokensOf(c) : Closes(w, t)

(* The last pipeline may still take a `;`. *)
Unterminated == pipelines # <<>> /\ LastOf(pipelines).terminator = None

TerminatorsInv ==
  \A k \in 1..Len(pipelines) :
    pipelines[k].terminator # None => EndsAt(pipelines[k], pipelines[k].terminator)

(* Where parse_block may take a `;`: right behind a failed statement, and in *)
(* a subexpression nowhere else than at once.                                *)
BlockEnds ==
  Unterminated =>
    /\ last = "Item" /\ Peek = "Semicolon" => EndsAt(LastOf(pipelines), position)
    /\ InSubexpressionForm(tokens) => position = End \/ (last = "Item" /\ Peek = "Semicolon")

(* Where parse_pipeline may take it: nothing but comments is behind the last *)
(* word of the last command - that has a word of its own if it parsed.       *)
CommandEnds ==
  /\ pc = "attributes" => lite_command.parts = <<>>
  /\ pc = "command" /\ lite_command.parts # <<>> /\ ~ (absorbing /\ Peek = "Pipe") => ClosedBy(lite_command, position)
  /\ pc = "command" /\ absorbing =>
       lite_command.parts # <<>> /\ (Peek # "Pipe" => Closes(LastOf(lite_command.parts), position))
  /\ pc \in {"commands", "elements"} /\ pipe = None /\ lite_commands # <<>> /\ Peek = "Semicolon"
     /\ LastOf(lite_commands).parts # <<>> => ClosedBy(LastOf(lite_commands), position)
  /\ pc = "elements" => \A k \in 1..Len(lite_commands) : k < element => lite_commands[k].parts # <<>>
  /\ pc = "elements" => pipe = None

EndsKept ==
  /\ InBlockForm(tokens) \/ InSubexpressionForm(tokens)
  /\ last \in {"Item", "Eol", "Semicolon", "Comment"}
  /\ TerminatorsInv
  /\ BetweenStatements => BlockEnds
  /\ CommandEnds

EndsInv == DocInv /\ EndsKept

----------------------------------------------------------------------------
LEMMA EndsStay ==
  ASSUME tokens' = tokens, NEW w, NEW t, NEW c, NEW s
  PROVE  /\ Closes(w, t)' <=> Closes(w, t)
         /\ ClosedBy(c, t)' <=> ClosedBy(c, t)
         /\ EndsAt(s, t)' <=> EndsAt(s, t)
<1>1. \A v, u : Closes(v, u)' <=> Closes(v, u)
  BY DEF Closes
<1> QED BY <1>1 DEF ClosedBy, EndsAt

(* The word just read. *)
LEMMA ClosesAtOnce ==
  ASSUME NEW w \in Nat
  PROVE  Closes(w, w + 1)
BY DEF Closes, Indices

LEMMA ClosesMore ==
  ASSUME NEW w \in Nat, NEW t \in Nat, Closes(w, t),
         tokens[t] = "Comment" \/ (tokens[t] = "Eol" /\ tokens[w] = "Pipe")
  PROVE  Closes(w, t + 1)
<1>1. \A k \in Indices(w + 1, t + 1) : k \in Indices(w + 1, t) \/ k = t
  BY DEF Indices
<1>2. w < t + 1
  BY DEF Closes
<1> QED BY <1>1, <1>2 DEF Closes

LEMMA EndsAtSame ==
  ASSUME NEW s, NEW other, other.garbage = s.garbage, other.commands = s.commands, NEW t
  PROVE  EndsAt(other, t) <=> EndsAt(s, t)
BY DEF EndsAt, StatementOf

----------------------------------------------------------------------------
(***************************************************************************)
(* parse_block.                                                            *)
(***************************************************************************)
LEMMA OutsideEnds ==
  ASSUME EndsKept, tokens' = tokens, pc' \in {"start", "block", "done"},
         last' \in {"Item", "Eol", "Semicolon", "Comment"},
         \A k \in 1..Len(pipelines') :
           pipelines'[k].terminator # None => EndsAt(pipelines'[k], pipelines'[k].terminator),
         Unterminated' =>
           /\ last' = "Item" /\ Peek' = "Semicolon" => EndsAt(LastOf(pipelines'), position')
           /\ InSubexpressionForm(tokens) => position' = End \/ (last' = "Item" /\ Peek' = "Semicolon")
  PROVE  EndsKept'
<1>1. \A s, t : EndsAt(s, t)' <=> EndsAt(s, t)
  BY EndsStay
<1>2. TerminatorsInv'
  <2>1. \A k \in 1..Len(pipelines') :
          EndsAt(pipelines[k], pipelines[k].terminator)' <=> EndsAt(pipelines'[k], pipelines'[k].terminator)
    BY <1>1
  <2> QED BY <2>1 DEF TerminatorsInv
<1>3. BlockEnds'
  <2>1. EndsAt(LastOf(pipelines), position)' <=> EndsAt(LastOf(pipelines'), position')
    BY <1>1 DEF LastOf
  <2>2. End' = End /\ InSubexpressionForm(tokens)' = InSubexpressionForm(tokens)
    BY DEF End, InSubexpressionForm
  <2> QED BY <2>1, <2>2 DEF BlockEnds
<1>4. (InBlockForm(tokens) \/ InSubexpressionForm(tokens))'
  BY DEF EndsKept, InBlockForm, InSubexpressionForm
<1> QED BY <1>2, <1>3, <1>4 DEF EndsKept, CommandEnds

LEMMA OutsideFacts ==
  ASSUME DocInv, EndsKept, BetweenStatements
  PROVE  /\ TypeOK /\ position \in Nat \ {0} /\ pipelines \in Seq(Statement) /\ Len(pipelines) \in Nat
         /\ pipelines # <<>> => Len(pipelines) \in 1..Len(pipelines)
         /\ BlockDocs /\ BlockEnds /\ TerminatorsInv
<1>1. TypeOK /\ position \in Nat \ {0} /\ pipelines \in Seq(Statement) /\ Len(pipelines) \in Nat /\ BlockDocs
  BY BlockFacts DEF DocInv
<1> QED BY <1>1 DEF EndsKept

LEMMA StandingBlockKeepsEnds ==
  ASSUME DocInv, EndsKept, CheckEnd \/ EndBlock
  PROVE  EndsKept'
<1>1. /\ BetweenStatements /\ tokens' = tokens /\ position' = position /\ pipelines' = pipelines /\ last' = last
      /\ pc' \in {"block", "done"}
  BY DEF CheckEnd, EndBlock, InBlock, BetweenStatements, block
<1>2. Peek' = Peek /\ (Unterminated' <=> Unterminated)
  BY <1>1 DEF Peek, End, Unterminated
<1> QED BY <1>1, <1>2, OutsideFacts, OutsideEnds DEF EndsKept, BlockEnds, TerminatorsInv

LEMMA BlockEolKeepsEnds ==
  ASSUME DocInv, EndsKept, BlockEol
  PROVE  EndsKept'
<1>1. /\ BetweenStatements /\ tokens' = tokens /\ position' = position + 1 /\ pipelines' = pipelines /\ last' = "Eol"
      /\ pc' = "block" /\ Peek = "Eol"
  BY DEF BlockEol, InBlock, BetweenStatements
<1>2. TypeOK /\ TerminatorsInv
  BY <1>1, OutsideFacts
<1>3. ~ InSubexpressionForm(tokens)
  BY <1>1, <1>2, PeekType, Bounds DEF InSubexpressionForm
<1> QED BY <1>1, <1>2, <1>3, OutsideEnds DEF TerminatorsInv

LEMMA BlockCommentKeepsEnds ==
  ASSUME DocInv, EndsKept, BlockComment
  PROVE  EndsKept'
<1>1. /\ BetweenStatements /\ tokens' = tokens /\ position' = position + 1 /\ last' = "Comment" /\ pc' = "block"
      /\ Peek = "Comment"
  BY DEF BlockComment, InBlock, BetweenStatements
<1>2. TypeOK /\ TerminatorsInv /\ BlockEnds /\ pipelines \in Seq(Statement) /\ Len(pipelines) \in Nat
  BY <1>1, OutsideFacts
<1>3. /\ Len(pipelines') = Len(pipelines)
      /\ \A k \in 1..Len(pipelines) :
           /\ pipelines'[k].commands = pipelines[k].commands /\ pipelines'[k].garbage = pipelines[k].garbage
           /\ pipelines'[k].terminator = pipelines[k].terminator
  <2>1. CASE pipelines' = pipelines
    BY <2>1
  <2>2. CASE pipelines' # pipelines
    <3>1. pipelines' = [pipelines EXCEPT ![Len(pipelines)].trailing = @ \union {position}]
      BY <2>2 DEF BlockComment
    <3> QED BY <1>2, <3>1 DEF Statement
  <2> QED BY <2>1, <2>2
<1>4. \A k \in 1..Len(pipelines') :
        pipelines'[k].terminator # None => EndsAt(pipelines'[k], pipelines'[k].terminator)
  BY <1>2, <1>3, EndsAtSame DEF TerminatorsInv
<1>5. Unterminated' => ~ InSubexpressionForm(tokens)
  <2>1. Unterminated' => Unterminated
    <3>1. Len(pipelines) > 0 => Len(pipelines) \in 1..Len(pipelines)
      BY <1>2
    <3>2. (pipelines' # <<>>) => Len(pipelines) > 0
      <4>1. pipelines' \in Seq(Statement)
        BY <1>2, ParseBlockType DEF TypeOK
      <4> QED BY <1>2, <1>3, <4>1
    <3>3. Len(pipelines) > 0 => pipelines # <<>>
      BY <1>2
    <3> QED BY <1>3, <3>1, <3>2, <3>3 DEF Unterminated, LastOf
  <2>2. position # End
    BY <1>1, <1>2, PeekType, Bounds
  <2> QED BY <1>1, <1>2, <2>1, <2>2 DEF BlockEnds
<1> QED BY <1>1, <1>4, <1>5, OutsideEnds

(* A `;` that is taken behind a comment would be on another line, or at the  *)
(* end of none.                                                              *)
LEMMA BlockSemicolonKeepsEnds ==
  ASSUME DocInv, EndsKept, BlockSemicolon
  PROVE  EndsKept'
<1>1. /\ BetweenStatements /\ tokens' = tokens /\ position' = position + 1 /\ last' = "Semicolon" /\ pc' = "block"
      /\ Peek = "Semicolon"
  BY DEF BlockSemicolon, InBlock, BetweenStatements
<1>2. /\ TypeOK /\ TerminatorsInv /\ BlockEnds /\ BlockDocs /\ pipelines \in Seq(Statement) /\ Len(pipelines) \in Nat
      /\ position \in Nat \ {0}
  BY <1>1, OutsideFacts
<1>3. position < End /\ position \in Indexes /\ tokens[position] = "Semicolon" /\ Indexes = 1..Len(tokens) /\ Len(tokens) \in Nat
  BY <1>1, <1>2, PeekType, Bounds
<1>4. CASE TakesTerminator
  <2>1. /\ pipelines' = [pipelines EXCEPT ![Len(pipelines)].terminator = position]
        /\ Unterminated /\ last \notin {"Eol", "Semicolon"} /\ Len(pipelines) \in 1..Len(pipelines)
    BY <1>2, <1>4 DEF BlockSemicolon, TakesTerminator, Unterminated, LastOf
  <2>2. last = "Item"
    <3> SUFFICES ASSUME last = "Comment" PROVE FALSE
      BY <2>1 DEF EndsKept
    <3>1. ~ InSubexpressionForm(tokens)
      BY <1>2, <1>3, <2>1 DEF BlockEnds
    <3>2. position # 1 /\ tokens[position - 1] = "Comment"
      BY <1>2, <2>1 DEF BlockDocs, Unterminated, LineEnd
    <3>3. position - 1 \in 1..(Len(tokens) - 1) /\ position - 1 + 1 = position
      BY <1>2, <1>3, <3>2
    <3> QED BY <1>3, <3>1, <3>2, <3>3 DEF EndsKept, InBlockForm
  <2>3. EndsAt(pipelines[Len(pipelines)], position)
    BY <1>1, <1>2, <2>1, <2>2 DEF BlockEnds, LastOf
  <2>4. /\ Len(pipelines') = Len(pipelines)
        /\ \A k \in 1..Len(pipelines) :
             /\ pipelines'[k].commands = pipelines[k].commands /\ pipelines'[k].garbage = pipelines[k].garbage
             /\ k # Len(pipelines) => pipelines'[k].terminator = pipelines[k].terminator
        /\ pipelines'[Len(pipelines)].terminator = position
    BY <1>2, <2>1 DEF Statement
  <2>5. \A k \in 1..Len(pipelines') :
          pipelines'[k].terminator # None => EndsAt(pipelines'[k], pipelines'[k].terminator)
    BY <1>2, <2>3, <2>4, EndsAtSame DEF TerminatorsInv
  <2>6. ~ Unterminated'
    BY <1>2, <2>4 DEF Unterminated, LastOf, None
  <2> QED BY <1>1, <2>5, <2>6, OutsideEnds
<1>5. CASE ~ TakesTerminator
  <2>1. pipelines' = pipelines
    BY <1>5 DEF BlockSemicolon
  <2>2. Unterminated' => ~ InSubexpressionForm(tokens)
    <3>1. Unterminated' => Unterminated /\ last \in {"Eol", "Semicolon"}
      BY <1>5, <2>1 DEF TakesTerminator, Unterminated, LastOf
    <3> QED BY <1>2, <1>3, <3>1 DEF BlockEnds
  <2> QED BY <1>1, <1>2, <2>1, <2>2, OutsideEnds DEF TerminatorsInv
<1> QED BY <1>4, <1>5

LEMMA EndsAppend ==
  ASSUME NEW lines \in Seq(Statement), NEW s \in Statement,
         \A k \in 1..Len(lines) : lines[k].terminator # None => EndsAt(lines[k], lines[k].terminator),
         s.terminator # None => EndsAt(s, s.terminator)
  PROVE  /\ \A k \in 1..Len(Append(lines, s)) :
              Append(lines, s)[k].terminator # None => EndsAt(Append(lines, s)[k], Append(lines, s)[k].terminator)
         /\ LastOf(Append(lines, s)) = s
<1>1. /\ Len(Append(lines, s)) = Len(lines) + 1 /\ Len(lines) \in Nat
      /\ \A k \in 1..Len(lines) : Append(lines, s)[k] = lines[k]
      /\ Append(lines, s)[Len(lines) + 1] = s
      /\ \A k \in 1..(Len(lines) + 1) : k \in 1..Len(lines) \/ k = Len(lines) + 1
  BY AppendProperties
<1> QED BY <1>1 DEF LastOf

LEMMA RecoverKeepsEnds ==
  ASSUME DocInv, EndsKept, NEW e \in start..End, Recover(e)
  PROVE  EndsKept'
<1> DEFINE s == [start |-> start, garbage |-> Indices(start, e), commands |-> <<>>,
                 leading |-> {}, trailing |-> {}, terminator |-> None]
<1>1. /\ pc = "failed" /\ pc' = "block" /\ tokens' = tokens /\ position' = e /\ last' = "Item"
      /\ StatementEnd(start, e) /\ pipelines' = Append(pipelines, s)
  BY DEF Recover
<1>2. /\ TypeOK /\ start \in Nat /\ start >= 1 /\ start < End /\ tokens[start] \notin Filler
      /\ pipelines \in Seq(Statement)
  BY <1>1, StatementFacts DEF DocInv
<1>3. e \in Nat /\ start <= e /\ e <= End /\ End \in Nat /\ e \in 1..End /\ End = Len(tokens) + 1 /\ End' = End
  BY <1>1, <1>2, Bounds DEF End
<1>4. start < e
  <2>1. start # e
    BY <1>1, <1>2 DEF StatementEnd, Filler
  <2> QED BY <1>2, <1>3, <2>1
<1>5. /\ s \in Statement /\ s.garbage = Indices(start, e) /\ s.terminator = None
      /\ e - 1 \in Indices(start, e)
  BY <1>2, <1>3, <1>4, IndicesType, Bounds DEF TypeOK, Statement, None, Indices
<1> HIDE DEF s
<1>6. /\ \A k \in 1..Len(pipelines') :
           pipelines'[k].terminator # None => EndsAt(pipelines'[k], pipelines'[k].terminator)
      /\ LastOf(pipelines') = s
  BY <1>1, <1>2, <1>5, EndsAppend DEF EndsKept, TerminatorsInv
<1>7. Peek' = IF e < End THEN tokens[e] ELSE "End"
  BY <1>1, <1>3 DEF Peek
<1>8. Peek' = "Semicolon" => EndsAt(s, e)
  <2>1. Closes(e - 1, e)
    <3>1. e - 1 \in Nat /\ e - 1 + 1 = e
      BY <1>2, <1>3, <1>4
    <3> QED BY <3>1, ClosesAtOnce
  <2>2. e - 1 \in StatementOf(s)
    BY <1>5 DEF StatementOf
  <2> QED BY <1>7, <2>1, <2>2 DEF EndsAt
<1>9. InSubexpressionForm(tokens) => e = End \/ Peek' = "Semicolon"
  <2>1. e < End => tokens[e] \in {"Eol", "Semicolon"} /\ e \in 1..Len(tokens)
    BY <1>1, <1>2, <1>3 DEF StatementEnd
  <2> QED BY <1>3, <1>7, <2>1 DEF InSubexpressionForm
<1> QED BY <1>1, <1>6, <1>8, <1>9, OutsideEnds

(* The last command parsed, so it has a word of its own. *)
LEMMA EndPipelineKeepsEnds ==
  ASSUME DocInv, EndsKept, EndPipeline
  PROVE  EndsKept'
<1>1. /\ pc = "elements" /\ pc' = "block" /\ tokens' = tokens /\ last' = "Item" /\ InPipeline
      /\ Grouped = lite_commands /\ element > Len(lite_commands)
  BY DEF EndPipeline, InPipeline, Grouped
<1>2. /\ TypeOK /\ position \in Nat /\ pipelines \in Seq(Statement) /\ SwallowInv /\ LooseInv /\ End \in Nat
      /\ lite_commands \in Seq(Command) /\ End = Len(tokens) + 1 /\ position \in 1..End /\ End' = End
  BY <1>1, StatementFacts, InStatementDocs, Bounds DEF DocInv, End
<1>3. /\ Peek \in {"Semicolon", "End", "Eol"} /\ CommandEnds /\ (dangling = None => lite_commands # <<>>)
      /\ (dangling # None => Peek \in {"End", "Eol"})
  <2>1. dangling = None => lite_commands # <<>>
    BY <1>1 DEF DocInv, OpenInv, OpenKept, TakenInv
  <2>2. dangling # None => BlankNext
    BY <1>1, <1>2 DEF LooseInv
  <2> QED BY <1>1, <1>2, <2>1, <2>2 DEF SwallowInv, EndsKept, BlankNext
<1>4. InSubexpressionForm(tokens) /\ Peek # "Semicolon" => position = End
  <2>1. Peek = "Eol" => position \in 1..Len(tokens) /\ tokens[position] = "Eol"
    BY <1>2, PeekType, Bounds
  <2>2. Peek = "End" => position = End
    BY <1>2, PeekType
  <2> QED BY <1>3, <2>1, <2>2 DEF InSubexpressionForm
<1>5. CASE lite_commands = <<>>
  <2>1. pipelines' = pipelines /\ position' = position /\ Peek # "Semicolon"
    BY <1>3, <1>5 DEF EndPipeline
  <2>2. Peek' = Peek
    BY <1>1, <2>1 DEF Peek, End
  <2> QED BY <1>1, <1>4, <2>1, <2>2, OutsideEnds DEF EndsKept, TerminatorsInv
<1>6. CASE lite_commands # <<>>
  <2>1. PICK s : /\ pipelines' = Append(pipelines, s) /\ s.commands = lite_commands
                 /\ s.terminator = (IF Peek = "Semicolon" THEN position ELSE None)
    BY <1>6 DEF EndPipeline
  <2>2. s \in Statement
    <3>1. pipelines' \in Seq(Statement)
      BY <1>2, EndPipelineType DEF TypeOK
    <3>2. Len(pipelines') = Len(pipelines) + 1 /\ pipelines'[Len(pipelines) + 1] = s
      BY <1>2, <2>1
    <3> QED BY <1>2, <3>1, <3>2
  <2>3. Peek = "Semicolon" => EndsAt(s, position)
    <3> SUFFICES ASSUME Peek = "Semicolon" PROVE EndsAt(s, position)
      OBVIOUS
    <3>1. tokens[position] = "Semicolon"
      BY <1>2, PeekType
    <3>2. Len(lite_commands) \in 1..Len(lite_commands) /\ Len(lite_commands) < element
      <4>1. element \in Nat
        BY <1>1, <1>2 DEF TypeOK
      <4> QED BY <1>1, <1>2, <1>6, <4>1
    <3>3. LastOf(lite_commands).parts # <<>>
      BY <1>1, <1>3, <3>2 DEF CommandEnds, LastOf
    <3>4. ClosedBy(LastOf(lite_commands), position)
      BY <1>1, <1>3, <1>6, <3>3 DEF CommandEnds
    <3>5. TokensOf(LastOf(lite_commands)) \subseteq StatementOf(s)
      BY <2>1, <3>2 DEF StatementOf, Ran, LastOf
    <3> QED BY <3>1, <3>4, <3>5 DEF EndsAt, ClosedBy
  <2>4. /\ \A k \in 1..Len(pipelines') :
             pipelines'[k].terminator # None => EndsAt(pipelines'[k], pipelines'[k].terminator)
        /\ LastOf(pipelines') = s
    BY <1>2, <2>1, <2>2, <2>3, EndsAppend DEF EndsKept, TerminatorsInv
  <2>5. CASE Peek = "Semicolon"
    <3>1. ~ Unterminated'
      BY <1>2, <2>1, <2>4, <2>5 DEF Unterminated, LastOf, None
    <3> QED BY <1>1, <2>4, <3>1, OutsideEnds
  <2>6. CASE Peek # "Semicolon"
    <3>1. position' = position
      BY <1>6, <2>6 DEF EndPipeline
    <3>2. Peek' = Peek
      BY <1>1, <3>1 DEF Peek, End
    <3> QED BY <1>1, <1>4, <2>4, <2>6, <3>1, <3>2, OutsideEnds
  <2> QED BY <2>5, <2>6
<1> QED BY <1>5, <1>6

----------------------------------------------------------------------------
(***************************************************************************)
(* parse_pipeline and parse_lite_command.                                  *)
(***************************************************************************)
LEMMA StatementEndsNext ==
  ASSUME EndsKept, tokens' = tokens, pipelines' = pipelines, last' = last, ~ BetweenStatements',
         pc' = "attributes" => lite_command'.parts = <<>>,
         pc' = "command" /\ lite_command'.parts # <<>> /\ ~ (absorbing' /\ Peek' = "Pipe") =>
           ClosedBy(lite_command', position'),
         pc' = "command" /\ absorbing' =>
           lite_command'.parts # <<>> /\ (Peek' # "Pipe" => Closes(LastOf(lite_command'.parts), position')),
         pc' \in {"commands", "elements"} /\ pipe' = None /\ lite_commands' # <<>> /\ Peek' = "Semicolon"
           /\ LastOf(lite_commands').parts # <<>> => ClosedBy(LastOf(lite_commands'), position'),
         pc' = "elements" => \A k \in 1..Len(lite_commands') : k < element' => lite_commands'[k].parts # <<>>,
         pc' = "elements" => pipe' = None
  PROVE  EndsKept'
<1>1. /\ \A c, t : ClosedBy(c, t)' <=> ClosedBy(c, t)
      /\ \A w, t : Closes(w, t)' <=> Closes(w, t)
      /\ \A s, t : EndsAt(s, t)' <=> EndsAt(s, t)
  BY EndsStay
<1>2. /\ ClosedBy(lite_command, position)' <=> ClosedBy(lite_command', position')
      /\ Closes(LastOf(lite_command.parts), position)' <=> Closes(LastOf(lite_command'.parts), position')
      /\ ClosedBy(LastOf(lite_commands), position)' <=> ClosedBy(LastOf(lite_commands'), position')
      /\ LastOf(lite_commands)' = LastOf(lite_commands')
  BY <1>1 DEF LastOf
<1>3. CommandEnds'
  BY <1>2 DEF CommandEnds
<1>4. TerminatorsInv'
  BY <1>1 DEF EndsKept, TerminatorsInv
<1>5. (InBlockForm(tokens) \/ InSubexpressionForm(tokens))'
  BY DEF EndsKept, InBlockForm, InSubexpressionForm
<1> QED BY <1>3, <1>4, <1>5 DEF EndsKept

LEMMA FailedEnds ==
  ASSUME EndsKept, tokens' = tokens, pipelines' = pipelines, last' = last, pc' = "failed"
  PROVE  EndsKept'
BY StatementEndsNext DEF BetweenStatements

LEMMA FarEnds ==
  ASSUME EndsInv, BeginPipeline \/ LeadingPipe \/ BeginCommand \/ AttributesDone
  PROVE  EndsKept'
<1>1. /\ EndsKept /\ tokens' = tokens /\ pipelines' = pipelines /\ last' = last /\ ~ BetweenStatements'
      /\ pc' \in {"commands", "after_pipe", "attributes", "command"}
      /\ (pc' = "commands" => lite_commands' = <<>>)
  BY DEF EndsInv, BeginPipeline, CallPipeline, LeadingPipe, BeginCommand, AttributesDone, BetweenStatements, block
<1>2. pc' \in {"attributes", "command"} => lite_command'.parts = <<>> /\ ~ absorbing'
  <2>1. CASE BeginCommand
    BY <2>1 DEF BeginCommand, EmptyCommand
  <2>2. CASE AttributesDone
    <3>1. pc = "attributes" /\ lite_command' = lite_command /\ absorbing' = absorbing
      BY <2>2 DEF AttributesDone, command
    <3> QED BY <3>1 DEF EndsInv, EndsKept, CommandEnds, DocInv, DocKept, SwallowInv
  <2>3. CASE BeginPipeline \/ LeadingPipe
    BY <2>3 DEF BeginPipeline, CallPipeline, LeadingPipe
  <2> QED BY <2>1, <2>2, <2>3
<1> QED BY <1>1, <1>2, StatementEndsNext

LEMMA LaterPipeKeepsEnds ==
  ASSUME EndsInv, NEW q \in position..Len(tokens), LaterPipe(q) \/ ContinueAssigned(q)
  PROVE  EndsKept'
<1>1. /\ EndsKept /\ tokens' = tokens /\ pipelines' = pipelines /\ last' = last /\ ~ BetweenStatements'
      /\ pc' \in {"commands", "command"} /\ pc' = pc /\ position' = q /\ PipeOnLaterLine(position, q)
      /\ lite_command' = lite_command /\ absorbing' = absorbing /\ (pc' = "command" => absorbing)
  BY DEF EndsInv, LaterPipe, ContinueAssigned, CommandEnded, InCommand, BetweenStatements, block, command
<1>2. Peek' = "Pipe"
  BY <1>1 DEF PipeOnLaterLine, Peek, End
<1>3. pc' = "command" => lite_command'.parts # <<>>
  BY <1>1 DEF EndsKept, CommandEnds
<1> QED BY <1>1, <1>2, <1>3, StatementEndsNext

LEMMA AfterPipeKeepsEnds ==
  ASSUME EndsInv, NEW e \in position..End, AfterPipe(e)
  PROVE  EndsKept'
<1>1. EndsKept /\ tokens' = tokens /\ pipelines' = pipelines /\ last' = last /\ position' = e
  BY DEF EndsInv, AfterPipe, block
<1>2. CASE pc' = "failed"
  BY <1>1, <1>2, FailedEnds
<1>3. CASE pc' # "failed"
  <2>1. /\ ~ (e < End /\ KindOf(e) = "Semicolon")
        /\ pc' = "commands" \/ (pc' = "elements" /\ element' = 1 /\ pipe' = None)
    BY <1>3 DEF AfterPipe, Fail
  <2>2. Peek' # "Semicolon"
    BY <1>1, <2>1 DEF Peek, End, KindOf
  <2>3. ~ BetweenStatements'
    BY <2>1 DEF BetweenStatements
  <2>4. pc' = "elements" => \A k \in 1..Len(lite_commands') : k < element' => lite_commands'[k].parts # <<>>
    BY <2>1
  <2> QED BY <1>1, <2>1, <2>2, <2>3, <2>4, StatementEndsNext
<1> QED BY <1>2, <1>3

LEMMA ElementsKeepEnds ==
  ASSUME EndsInv, NoMoreCommands \/ ElementParses
  PROVE  EndsKept'
<1>1. /\ EndsKept /\ tokens' = tokens /\ pipelines' = pipelines /\ last' = last /\ position' = position
      /\ pc' = "elements" /\ pc \in {"commands", "elements"} /\ pipe' = pipe /\ lite_commands' = lite_commands
      /\ pipe = None /\ CommandEnds
  BY DEF EndsInv, EndsKept, CommandEnds, NoMoreCommands, ElementParses, InElement, CommandEnded, block
<1>2. Peek' = Peek /\ ~ BetweenStatements'
  BY <1>1 DEF Peek, End, BetweenStatements
<1>3. \A k \in 1..Len(lite_commands') : k < element' => lite_commands'[k].parts # <<>>
  <2>1. CASE NoMoreCommands
    BY <2>1 DEF NoMoreCommands
  <2>2. CASE ElementParses
    <3>1. /\ pc = "elements" /\ element' = element + 1 /\ lite_commands[element].parts # <<>>
      BY <2>2 DEF ElementParses, InElement, CanParse, Current
    <3>2. element \in Nat
      BY <3>1 DEF EndsInv, DocInv, OpenInv, WordsInv, TypeOK
    <3>3. \A k \in 1..Len(lite_commands) : k < element + 1 => k < element \/ k = element
      BY <3>2
    <3> QED BY <1>1, <3>1, <3>3 DEF CommandEnds
  <2> QED BY <2>1, <2>2
<1> QED BY <1>1, <1>2, <1>3, StatementEndsNext DEF CommandEnds

LEMMA AttributeLineKeepsEnds ==
  ASSUME EndsInv, NEW e \in position..End, AttributeLine(e)
  PROVE  EndsKept'
<1>1. /\ EndsKept /\ tokens' = tokens /\ pipelines' = pipelines /\ last' = last
      /\ pc = "attributes" /\ pc' \in {"attributes", "failed"}
  BY DEF EndsInv, AttributeLine, Fail, block
<1>2. lite_command'.parts = <<>>
  <2>1. lite_command \in Command
    BY DEF EndsInv, DocInv, OpenInv, WordsInv, TypeOK
  <2>2. lite_command'.parts = lite_command.parts
    BY <2>1 DEF AttributeLine, Command
  <2> QED BY <1>1, <2>2 DEF EndsKept, CommandEnds
<1>3. ~ BetweenStatements'
  BY <1>1 DEF BetweenStatements
<1> QED BY <1>1, <1>2, <1>3, StatementEndsNext

LEMMA EndCommandKeepsEnds ==
  ASSUME EndsInv, EndCommand
  PROVE  EndsKept'
<1>1. /\ EndsKept /\ CommandEnds /\ tokens' = tokens /\ pipelines' = pipelines /\ last' = last
      /\ position' = position /\ pc = "command" /\ pc' \in {"commands", "failed"}
  BY DEF EndsInv, EndsKept, EndCommand, EndsCommand, InCommand, Fail, block
<1>2. CASE pc' = "failed"
  BY <1>1, <1>2, FailedEnds
<1>3. CASE pc' = "commands"
  <2>1. lite_commands' = Append(lite_commands, lite_command)
    BY <1>3 DEF EndCommand, Fail
  <2>2. lite_commands \in Seq(Command) /\ lite_command \in Command
    BY DEF EndsInv, DocInv, OpenInv, WordsInv, TypeOK
  <2>3. LastOf(lite_commands') = lite_command
    BY <2>1, <2>2 DEF LastOf
  <2>4. Peek' = Peek /\ ~ BetweenStatements'
    BY <1>1, <1>3 DEF Peek, End, BetweenStatements
  <2> QED BY <1>1, <1>3, <2>3, <2>4, StatementEndsNext DEF CommandEnds
<1> QED BY <1>1, <1>2, <1>3

LEMMA CommandFacts ==
  ASSUME EndsInv, pc = "command"
  PROVE  /\ position \in Nat /\ lite_command \in Command /\ TokensOf(lite_command) \subseteq Nat
         /\ lite_command.parts # <<>> => LastOf(lite_command.parts) \in PartsOf(lite_command)
         /\ PartsOf(lite_command) \subseteq TokensOf(lite_command) /\ CommandEnds /\ EndsKept
<1>1. position \in Nat /\ lite_command \in Command
  BY GroupedParts DEF EndsInv, DocInv
<1>2. TokensOf(lite_command) \subseteq Nat /\ PartsOf(lite_command) \subseteq TokensOf(lite_command)
  BY <1>1 DEF TokensOf, PartsOf, Ran, Command
<1>3. lite_command.parts # <<>> => LastOf(lite_command.parts) \in PartsOf(lite_command)
  <2>1. lite_command.parts \in Seq(Nat)
    BY <1>1 DEF Command
  <2>2. lite_command.parts # <<>> => Len(lite_command.parts) \in 1..Len(lite_command.parts)
    BY <2>1
  <2> QED BY <2>2 DEF LastOf, PartsOf, Ran
<1> QED BY <1>1, <1>2, <1>3 DEF EndsInv, EndsKept

LEMMA TakePartKeepsEnds ==
  ASSUME EndsInv, TakePart
  PROVE  EndsKept'
<1>1. /\ tokens' = tokens /\ pipelines' = pipelines /\ last' = last /\ pc = "command" /\ pc' = pc
      /\ position' = position + 1
  BY DEF TakePart, InCommand, block
<1>2. lite_command'.parts = Append(lite_command.parts, position)
  BY <1>1, CommandFacts DEF TakePart, Command
<1>3. lite_command.parts \in Seq(Nat) /\ position \in Nat /\ EndsKept
  BY <1>1, CommandFacts DEF Command
<1>4. /\ LastOf(lite_command'.parts) = position /\ position \in PartsOf(lite_command')
      /\ lite_command'.parts # <<>>
  <2>1. /\ Len(lite_command'.parts) = Len(lite_command.parts) + 1 /\ Len(lite_command.parts) \in Nat
        /\ lite_command'.parts[Len(lite_command.parts) + 1] = position
    BY <1>2, <1>3
  <2>2. Len(lite_command'.parts) \in 1..Len(lite_command'.parts)
    BY <2>1
  <2> QED BY <1>2, <1>3, <2>1, <2>2 DEF LastOf, PartsOf, Ran
<1>5. Closes(position, position')
  BY <1>1, <1>3, ClosesAtOnce
<1>6. ClosedBy(lite_command', position')
  BY <1>4, <1>5 DEF ClosedBy, TokensOf
<1> QED BY <1>1, <1>3, <1>4, <1>5, <1>6, StatementEndsNext DEF BetweenStatements

LEMMA CommandCommentKeepsEnds ==
  ASSUME EndsInv, CommandComment
  PROVE  EndsKept'
<1>1. /\ tokens' = tokens /\ pipelines' = pipelines /\ last' = last /\ pc = "command" /\ pc' = pc
      /\ position' = position + 1 /\ lite_command' = lite_command /\ absorbing' = absorbing /\ Peek = "Comment"
  BY DEF CommandComment, InCommand, block, command
<1>2. tokens[position] = "Comment"
  BY <1>1, PeekType DEF EndsInv, DocInv, OpenInv, WordsInv
<1>3. lite_command.parts # <<>> => ClosedBy(lite_command, position + 1)
  <2> SUFFICES ASSUME lite_command.parts # <<>> PROVE ClosedBy(lite_command, position + 1)
    OBVIOUS
  <2>1. PICK w \in TokensOf(lite_command) : Closes(w, position)
    BY <1>1, CommandFacts DEF CommandEnds, ClosedBy
  <2>2. w \in Nat /\ position \in Nat
    BY <1>1, CommandFacts
  <2>3. Closes(w, position + 1)
    BY <1>2, <2>1, <2>2, ClosesMore
  <2> QED BY <2>3 DEF ClosedBy
<1>4. absorbing => lite_command.parts # <<>> /\ Closes(LastOf(lite_command.parts), position + 1)
  <2> SUFFICES ASSUME absorbing
               PROVE  lite_command.parts # <<>> /\ Closes(LastOf(lite_command.parts), position + 1)
    OBVIOUS
  <2>1. lite_command.parts # <<>> /\ Closes(LastOf(lite_command.parts), position)
    BY <1>1, CommandFacts DEF CommandEnds
  <2>2. LastOf(lite_command.parts) \in Nat /\ position \in Nat
    BY <1>1, <2>1, CommandFacts
  <2> QED BY <1>2, <2>1, <2>2, ClosesMore
<1> QED BY <1>1, <1>3, <1>4, CommandFacts, StatementEndsNext DEF BetweenStatements

LEMMA SkipAssignedEolKeepsEnds ==
  ASSUME EndsInv, SkipAssignedEol
  PROVE  EndsKept'
<1>1. /\ tokens' = tokens /\ pipelines' = pipelines /\ last' = last /\ pc = "command" /\ pc' = pc
      /\ position' = position + 1 /\ lite_command' = lite_command /\ absorbing /\ Peek = "Eol"
      /\ lite_command.parts # <<>> /\ tokens[LastOf(lite_command.parts)] = "Pipe"
  BY DEF SkipAssignedEol, InCommand, PartsEndWithPipe, KindOf, LastOf, block, pipeline, command
<1>2. tokens[position] = "Eol"
  BY <1>1, PeekType DEF EndsInv, DocInv, OpenInv, WordsInv
<1>3. Closes(LastOf(lite_command.parts), position)
  BY <1>1, CommandFacts DEF CommandEnds
<1>4. LastOf(lite_command.parts) \in Nat /\ position \in Nat /\ LastOf(lite_command.parts) \in TokensOf(lite_command)
  BY <1>1, CommandFacts
<1>5. Closes(LastOf(lite_command.parts), position + 1)
  BY <1>1, <1>2, <1>3, <1>4, ClosesMore
<1>6. ClosedBy(lite_command, position + 1)
  BY <1>4, <1>5 DEF ClosedBy
<1> QED BY <1>1, <1>5, <1>6, CommandFacts, StatementEndsNext DEF BetweenStatements

LEMMA TakeRedirectionKeepsEnds ==
  ASSUME EndsInv, TakeRedirection
  PROVE  EndsKept'
<1>1. /\ tokens' = tokens /\ pipelines' = pipelines /\ last' = last /\ pc = "command"
      /\ absorbing' = absorbing /\ ~ absorbing
  BY DEF TakeRedirection, InCommand, block
<1>2. /\ position \in Nat /\ lite_command \in Command /\ EndsKept
  BY <1>1, CommandFacts
<1>3. CASE pc' = "failed"
  BY <1>1, <1>2, <1>3, FailedEnds
<1>4. CASE pc' # "failed"
  <2>1. /\ pc' = pc /\ position' = position + 2 /\ position + 2 = (position + 1) + 1 /\ position + 1 \in Nat
        /\ lite_command' = [lite_command EXCEPT !.redirections = Append(@, {position, position + 1})]
    BY <1>2, <1>4 DEF TakeRedirection, Fail
  <2>2. position + 1 \in TokensOf(lite_command')
    <3>1. lite_command.redirections \in Seq(SUBSET Nat)
      BY <1>2 DEF Command
    <3>2. lite_command'.redirections = Append(lite_command.redirections, {position, position + 1})
      BY <1>2, <2>1 DEF Command
    <3>3. {position, position + 1} \in SUBSET Nat
      BY <1>2
    <3>4. /\ Len(lite_command'.redirections) = Len(lite_command.redirections) + 1
          /\ Len(lite_command.redirections) \in Nat
          /\ lite_command'.redirections[Len(lite_command.redirections) + 1] = {position, position + 1}
      BY <3>1, <3>2, <3>3
    <3>5. {position, position + 1} \in Ran(lite_command'.redirections)
      BY <3>4 DEF Ran
    <3> QED BY <3>5 DEF TokensOf
  <2>3. Closes(position + 1, position')
    BY <2>1, ClosesAtOnce
  <2>4. ClosedBy(lite_command', position')
    BY <2>2, <2>3 DEF ClosedBy
  <2> QED BY <1>1, <1>2, <2>1, <2>4, StatementEndsNext DEF BetweenStatements
<1> QED BY <1>3, <1>4

LEMMA FailingStepsKeepEnds ==
  ASSUME EndsInv, TakeRedirectionPipe \/ ShellOr \/ ElementFails
  PROVE  EndsKept'
<1>1. /\ EndsKept /\ tokens' = tokens /\ pipelines' = pipelines /\ last' = last /\ pc' \in {"after_pipe", "failed"}
  BY DEF EndsInv, TakeRedirectionPipe, ShellOr, ElementFails, Fail, block
<1> QED BY <1>1, StatementEndsNext DEF BetweenStatements

----------------------------------------------------------------------------
LEMMA EndsInit == Init => EndsInv
<1> SUFFICES ASSUME Init PROVE EndsKept
  BY DocInit DEF EndsInv
<1>1. InBlockForm(tokens) \/ InSubexpressionForm(tokens)
  BY LexedAssumption DEF Init
<1>2. pc = "start" /\ pipelines = <<>> /\ last = "Eol"
  BY DEF Init
<1>3. 1..Len(pipelines) = {}
  BY <1>2
<1> QED BY <1>1, <1>2, <1>3 DEF EndsKept, TerminatorsInv, BlockEnds, CommandEnds, Unterminated

LEMMA EndsUnchanged ==
  ASSUME EndsInv, UNCHANGED vars
  PROVE  EndsKept'
<1>1. /\ EndsKept
      /\ UNCHANGED <<tokens, position, pc, pipelines, last, lite_commands, pipe, element, lite_command, absorbing>>
  BY DEF EndsInv, vars
<1>2. Peek' = Peek /\ (Unterminated' <=> Unterminated)
  BY <1>1 DEF Peek, End, Unterminated
<1>3. CASE BetweenStatements
  BY <1>1, <1>2, <1>3, OutsideEnds DEF EndsKept, TerminatorsInv, BlockEnds, BetweenStatements
<1>4. CASE ~ BetweenStatements
  BY <1>1, <1>2, <1>4, StatementEndsNext DEF EndsKept, CommandEnds, BetweenStatements
<1> QED BY <1>3, <1>4

LEMMA EndsNext == EndsInv /\ [Next]_vars => EndsInv'
<1> SUFFICES ASSUME EndsInv, [Next]_vars PROVE EndsKept'
  BY DocNext DEF EndsInv
<1>1. CASE CheckEnd \/ EndBlock \/ BlockEol \/ BlockSemicolon \/ BlockComment
  BY <1>1, StandingBlockKeepsEnds, BlockEolKeepsEnds, BlockSemicolonKeepsEnds, BlockCommentKeepsEnds DEF EndsInv
<1>2. CASE \E e \in start..End : Recover(e)
  BY <1>2, RecoverKeepsEnds DEF EndsInv
<1>3. CASE EndPipeline
  BY <1>3, EndPipelineKeepsEnds DEF EndsInv
<1>4. CASE BeginPipeline \/ LeadingPipe \/ BeginCommand \/ AttributesDone
  BY <1>4, FarEnds
<1>5. CASE \E q \in position..Len(tokens) : LaterPipe(q) \/ ContinueAssigned(q)
  BY <1>5, LaterPipeKeepsEnds
<1>6. CASE \E e \in position..End : AfterPipe(e) \/ AttributeLine(e)
  BY <1>6, AfterPipeKeepsEnds, AttributeLineKeepsEnds
<1>7. CASE NoMoreCommands \/ ElementParses
  BY <1>7, ElementsKeepEnds
<1>8. CASE EndCommand \/ TakePart \/ TakeRedirection
  BY <1>8, EndCommandKeepsEnds, TakePartKeepsEnds, TakeRedirectionKeepsEnds
<1>9. CASE CommandComment \/ SkipAssignedEol
  BY <1>9, CommandCommentKeepsEnds, SkipAssignedEolKeepsEnds
<1>10. CASE TakeRedirectionPipe \/ ShellOr \/ ElementFails
  BY <1>10, FailingStepsKeepEnds
<1>11. CASE UNCHANGED vars
  BY <1>11, EndsUnchanged
<1> QED BY <1>1, <1>2, <1>3, <1>4, <1>5, <1>6, <1>7, <1>8, <1>9, <1>10, <1>11 DEF Next

(* Of every block the lexer can make: the `;` a pipeline is given as its     *)
(* terminator ends its own last line - nothing but comments (or the lines    *)
(* that an assignment's last pipe swallowed) lies between it and the last    *)
(* word before it, and that word is of this pipeline, garbage or not.        *)
THEOREM TerminatorsEndTheirLines == Spec => []TerminatorEndsItsLine
<1>1. EndsInv => TerminatorEndsItsLine
  <2> SUFFICES ASSUME EndsInv, NEW s \in Ran(pipelines), s.terminator # None
               PROVE  EndsAt(s, s.terminator)
    BY DEF TerminatorEndsItsLine, EndsAt, Closes
  <2> QED BY DEF EndsInv, EndsKept, TerminatorsInv, Ran
<1> QED BY <1>1, EndsInit, EndsNext, PTL DEF Spec

----------------------------------------------------------------------------
(***************************************************************************)
(* Where no statement fails, words and line ends alone decide what belongs *)
(* together.  The parser never looks at two words at once: it decides at   *)
(* each line end, pipe and `;` in turn, so the invariant says what is      *)
(* known, at every step, of the tokens between the last word and the       *)
(* position.                                                               *)
(***************************************************************************)

(* The blocks the property is about: no assignments, no attributes, and no  *)
(* statement has failed.                                                    *)
Plain == errors = <<>> /\ \A i \in Indexes : tokens[i] \notin {"At", "AssignmentOperator"}

InOneCommand(commands, i, j) == \E k \in 1..Len(commands) : {i, j} \subseteq TokensOf(commands[k])
InOneLine(lines, i, j)       == \E k \in 1..Len(lines) : {i, j} \subseteq StatementOf(lines[k])
InOneOf(lines, i, j)         == \E k \in 1..Len(lines) : InOneCommand(lines[k].commands, i, j)

(* The pipelines hold together what belongs together, up to hi. *)
LinesJoin(lines, hi) ==
  \A i, j \in Words : Neighbours(i, j) /\ j < hi =>
    /\ SamePipeline(i, j) <=> InOneLine(lines, i, j)
    /\ (SamePipeline(i, j) /\ ~ PipeBetween(i, j)) <=> InOneOf(lines, i, j)

(* So do the commands of the statement under way. *)
CommandsJoin(commands, lo, hi) ==
  \A i, j \in Words : Neighbours(i, j) /\ lo <= i /\ j < hi =>
    SamePipeline(i, j) /\ (PipeBetween(i, j) <=> ~ InOneCommand(commands, i, j))

(* The words on the two sides of p are of two pipelines. *)
Parted(p) == \A i, j \in Words : Neighbours(i, j) /\ i < p /\ p <= j => ~ SamePipeline(i, j)

(* The last word of the statement before hi. *)
LastWord(w, lo, hi) == w \in Words /\ lo <= w /\ w < hi /\ NoWords(w + 1, hi)

OnlyComments(w, t) == \A k \in Indices(w + 1, t) : tokens[k] = "Comment"

(* The line goes on after w, with a pipe or before one. *)
GoesOn(w, t) ==
  /\ \A k \in Indices(w + 1, t) : tokens[k] # "Semicolon"
  /\ \A k \in Indices(w + 1, t - 1) : ~ (tokens[k] = "Eol" /\ tokens[k + 1] = "Eol")
Piped(w, t) == tokens[w] = "RedirectionPipe" \/ \E k \in Indices(w + 1, t) : tokens[k] = "Pipe"

Started == lite_command.parts # <<>>

(* The next command is yet to come, behind a pipe. *)
Awaiting ==
  \/ pc \in {"after_pipe", "attributes"}
  \/ pc = "commands" /\ (pipe # None \/ lite_commands = <<>>)
  \/ pc = "command" /\ ~ Started

(* What lies between the last word and the position. *)
GapInv ==
  /\ pc = "commands" /\ ~ Awaiting =>
       \A w : LastWord(w, start, position) =>
         tokens[w] # "RedirectionPipe" /\ (OnlyComments(w, position) \/ (Peek = "Pipe" /\ GoesOn(w, position)))
  /\ Awaiting => \A w : LastWord(w, start, position) => GoesOn(w, position) /\ Piped(w, position)
  /\ pc = "after_pipe" => position > 1 /\ tokens[position - 1] \in PipeKinds
  /\ pc \in {"attributes", "command"} =>
       ~ absorbing /\ (~ Started => TokensOf(lite_command) = {} /\ lite_command.attributes = <<>>)
  /\ pc = "command" /\ Started =>
       \A w : LastWord(w, start, position) =>
         w \in TokensOf(lite_command) /\ tokens[w] # "RedirectionPipe" /\ OnlyComments(w, position)
  /\ pc = "elements" => Parted(position)

JoinInv ==
  /\ LinesJoin(pipelines, Base) /\ Parted(Base)
  /\ InPipeline => CommandsJoin(Grouped, start, position) /\ GapInv

BoundariesKept ==
  /\ pc = "failed" => errors # <<>>
  /\ Plain => JoinInv

BoundInv == EndsInv /\ BoundariesKept

----------------------------------------------------------------------------
(***************************************************************************)
(* Two neighbouring words and what is between them.                        *)
(***************************************************************************)
LEMMA BoundariesStay ==
  ASSUME tokens' = tokens, NEW i, NEW j, NEW p, NEW lo, NEW hi, NEW commands, NEW lines
  PROVE  /\ LinesJoin(lines, hi)' <=> LinesJoin(lines, hi)
         /\ CommandsJoin(commands, lo, hi)' <=> CommandsJoin(commands, lo, hi)
         /\ Parted(p)' <=> Parted(p)
         /\ LastWord(i, lo, hi)' <=> LastWord(i, lo, hi)
         /\ GoesOn(i, p)' <=> GoesOn(i, p)
         /\ Piped(i, p)' <=> Piped(i, p)
         /\ OnlyComments(i, p)' <=> OnlyComments(i, p)
<1>1. /\ Words' = Words
      /\ \A v, u : Neighbours(v, u)' <=> Neighbours(v, u)
      /\ \A v, u : SamePipeline(v, u)' <=> SamePipeline(v, u)
      /\ \A v, u : PipeBetween(v, u)' <=> PipeBetween(v, u)
      /\ \A v, u : NoWords(v, u)' <=> NoWords(v, u)
  BY DEF Words, Indexes, Neighbours, SamePipeline, PipeBetween, BlankLineBetween, Between, NoWords
<1> QED BY <1>1 DEF LinesJoin, CommandsJoin, Parted, LastWord, GoesOn, Piped, OnlyComments

LEMMA WordBounds ==
  ASSUME TypeOK, NEW w \in Words
  PROVE  w \in Nat /\ w >= 1 /\ w < End /\ w \in Indexes
         /\ tokens[w] \notin {"Pipe", "Semicolon", "Eol", "Comment"}
BY Bounds DEF Words

(* Comments only: one command. *)
LEMMA Linked ==
  ASSUME NEW i \in Nat, NEW j \in Nat, OnlyComments(i, j), tokens[i] # "RedirectionPipe"
  PROVE  SamePipeline(i, j) /\ ~ PipeBetween(i, j)
<1>1. Between(i, j) \subseteq {"Comment"}
  BY DEF Between, OnlyComments
<1>2. ~ BlankLineBetween(i, j)
  <2>1. \A k \in Indices(i + 1, j - 1) : k \in Indices(i + 1, j)
    BY DEF Indices
  <2> QED BY <2>1 DEF BlankLineBetween, OnlyComments
<1> QED BY <1>1, <1>2 DEF SamePipeline, PipeBetween

(* A pipe, and no blank line: one pipeline. *)
LEMMA Continued ==
  ASSUME NEW i, NEW j, GoesOn(i, j), Piped(i, j)
  PROVE  SamePipeline(i, j) /\ PipeBetween(i, j)
BY DEF GoesOn, Piped, SamePipeline, PipeBetween, Between, BlankLineBetween

LEMMA OnlyCommentsGoOn ==
  ASSUME NEW w \in Nat, NEW t \in Nat, OnlyComments(w, t)
  PROVE  GoesOn(w, t)
<1>1. \A k \in Indices(w + 1, t - 1) : k \in Indices(w + 1, t)
  BY DEF Indices
<1> QED BY <1>1 DEF OnlyComments, GoesOn

LEMMA GoesOnMore ==
  ASSUME NEW w \in Nat, NEW t \in Nat, w < t, GoesOn(w, t), tokens[t] \notin {"Semicolon", "Eol"}
  PROVE  GoesOn(w, t + 1)
<1>1. \A k \in Indices(w + 1, t + 1) : k \in Indices(w + 1, t) \/ k = t
  BY DEF Indices
<1>2. \A k \in Indices(w + 1, t + 1 - 1) : k \in Indices(w + 1, t - 1) \/ k + 1 = t
  BY DEF Indices
<1> QED BY <1>1, <1>2 DEF GoesOn

LEMMA PipedMore ==
  ASSUME NEW w \in Nat, NEW t \in Nat, NEW next \in Nat, w < t, t <= next
  PROVE  /\ Piped(w, t) => Piped(w, next)
         /\ t < next /\ tokens[t] = "Pipe" => Piped(w, next)
<1>1. \A k \in Indices(w + 1, t) : k \in Indices(w + 1, next)
  BY DEF Indices
<1>2. t < next => t \in Indices(w + 1, next)
  BY DEF Indices
<1> QED BY <1>1, <1>2 DEF Piped

LEMMA OnlyCommentsMore ==
  ASSUME NEW w \in Nat, NEW t \in Nat, OnlyComments(w, t), tokens[t] = "Comment"
  PROVE  OnlyComments(w, t + 1)
<1>1. \A k \in Indices(w + 1, t + 1) : k \in Indices(w + 1, t) \/ k = t
  BY DEF Indices
<1> QED BY <1>1 DEF OnlyComments

(* Nothing is between a word and the next token. *)
LEMMA AtOnce ==
  ASSUME NEW w \in Nat
  PROVE  OnlyComments(w, w + 1) /\ GoesOn(w, w + 1)
<1>1. Indices(w + 1, w + 1) = {} /\ Indices(w + 1, w + 1 - 1) = {}
  BY DEF Indices
<1> QED BY <1>1 DEF OnlyComments, GoesOn

----------------------------------------------------------------------------
(***************************************************************************)
(* What is joined and parted, as the position moves on.                    *)
(***************************************************************************)
LEMMA LastOfNeighbours ==
  ASSUME NEW i \in Words, NEW j \in Words, Neighbours(i, j), NEW lo \in Nat, NEW hi \in Nat,
         i \in Nat, j \in Nat, lo <= i, i < hi, hi <= j
  PROVE  LastWord(i, lo, hi)
<1>1. \A k \in Indices(i + 1, hi) : k \in Indices(i + 1, j)
  BY DEF Indices
<1> QED BY <1>1 DEF LastWord, NoWords, Neighbours

LEMMA LastWordPass ==
  ASSUME NEW w, w \in Nat, NEW lo \in Nat, NEW hi \in Nat, NEW next \in Nat, hi <= next, NoWords(hi, next),
         LastWord(w, lo, next)
  PROVE  LastWord(w, lo, hi)
<1>1. w \in Indices(hi, next) \/ w < hi
  BY DEF LastWord, Indices
<1>2. \A k \in Indices(w + 1, hi) : k \in Indices(w + 1, next)
  BY DEF Indices
<1> QED BY <1>1, <1>2 DEF LastWord, NoWords

LEMMA PartedPass ==
  ASSUME TypeOK, NEW p \in Nat, NEW next \in Nat, p <= next, NoWords(p, next), Parted(p)
  PROVE  Parted(next)
<1> SUFFICES ASSUME NEW i \in Words, NEW j \in Words, Neighbours(i, j), i < next, next <= j
             PROVE  ~ SamePipeline(i, j)
  BY DEF Parted
<1>1. i \in Nat /\ j \in Nat
  BY WordBounds
<1>2. i \notin Indices(p, next)
  BY DEF NoWords
<1>3. i < p /\ p <= j
  BY <1>1, <1>2 DEF Indices
<1> QED BY <1>3 DEF Parted

LEMMA JoinPass ==
  ASSUME TypeOK, NEW lines, NEW p \in Nat, NEW next \in Nat, p <= next, NoWords(p, next), LinesJoin(lines, p)
  PROVE  LinesJoin(lines, next)
<1>1. ASSUME NEW j \in Words, j < next
      PROVE  j < p
  <2>1. j \notin Indices(p, next) /\ j \in Nat
    BY <1>1, WordBounds DEF NoWords
  <2> QED BY <1>1, <2>1 DEF Indices
<1> QED BY <1>1 DEF LinesJoin

LEMMA CommandsPass ==
  ASSUME TypeOK, NEW commands, NEW lo, NEW p \in Nat, NEW next \in Nat, p <= next, NoWords(p, next),
         CommandsJoin(commands, lo, p)
  PROVE  CommandsJoin(commands, lo, next)
<1>1. ASSUME NEW j \in Words, j < next
      PROVE  j < p
  <2>1. j \notin Indices(p, next) /\ j \in Nat
    BY <1>1, WordBounds DEF NoWords
  <2> QED BY <1>1, <2>1 DEF Indices
<1> QED BY <1>1 DEF CommandsJoin

LEMMA JoinSame ==
  ASSUME NEW lines, NEW others, NEW hi, LinesJoin(lines, hi), Len(others) = Len(lines),
         \A k \in 1..Len(lines) : others[k].garbage = lines[k].garbage /\ others[k].commands = lines[k].commands
  PROVE  LinesJoin(others, hi)
<1>1. \A i, j : InOneLine(others, i, j) <=> InOneLine(lines, i, j)
  BY DEF InOneLine, StatementOf
<1>2. \A i, j : InOneOf(others, i, j) <=> InOneOf(lines, i, j)
  BY DEF InOneOf
<1> QED BY <1>1, <1>2 DEF LinesJoin

(* A command without tokens is begun. *)
LEMMA CommandsBegin ==
  ASSUME NEW commands \in Seq(Command), NEW c \in Command, TokensOf(c) = {}, NEW lo, NEW hi,
         CommandsJoin(commands, lo, hi)
  PROVE  CommandsJoin(Append(commands, c), lo, hi)
<1>1. /\ Len(Append(commands, c)) = Len(commands) + 1 /\ Len(commands) \in Nat
      /\ \A k \in 1..Len(commands) : Append(commands, c)[k] = commands[k]
      /\ Append(commands, c)[Len(commands) + 1] = c
      /\ \A k \in 1..(Len(commands) + 1) : k \in 1..Len(commands) \/ k = Len(commands) + 1
      /\ \A k \in 1..Len(commands) : k \in 1..(Len(commands) + 1)
  BY AppendProperties
<1>2. \A i, j : InOneCommand(Append(commands, c), i, j) <=> InOneCommand(commands, i, j)
  BY <1>1 DEF InOneCommand
<1> QED BY <1>2 DEF CommandsJoin

(* The last command takes the words that are passed. *)
LEMMA CommandsTake ==
  ASSUME TypeOK, NEW commands \in Seq(Command), NEW c \in Command, NEW d \in Command,
         NEW lo \in Nat, NEW hi \in Nat, NEW next \in Nat, CommandsJoin(Append(commands, c), lo, hi),
         NEW taken, TokensOf(d) = TokensOf(c) \union taken, taken \subseteq Indices(hi, next),
         \A i, j \in Words : Neighbours(i, j) /\ lo <= i /\ hi <= j /\ j < next =>
           SamePipeline(i, j) /\ (PipeBetween(i, j) <=> ~ InOneCommand(Append(commands, d), i, j))
  PROVE  CommandsJoin(Append(commands, d), lo, next)
<1> DEFINE n == Len(commands) + 1
<1>1. /\ Len(Append(commands, c)) = n /\ Len(Append(commands, d)) = n /\ n \in Nat
      /\ \A k \in 1..n : k # n => Append(commands, c)[k] = Append(commands, d)[k]
      /\ Append(commands, c)[n] = c /\ Append(commands, d)[n] = d
  BY AppendProperties
<1> HIDE DEF n
<1> SUFFICES ASSUME NEW i \in Words, NEW j \in Words, Neighbours(i, j), lo <= i, j < next
             PROVE  SamePipeline(i, j) /\ (PipeBetween(i, j) <=> ~ InOneCommand(Append(commands, d), i, j))
  BY DEF CommandsJoin
<1>2. i \in Nat /\ j \in Nat /\ i < j
  BY WordBounds DEF Neighbours
<1>3. CASE j < hi
  <2>1. i \notin taken /\ j \notin taken
    BY <1>2, <1>3 DEF Indices
  <2>2. \A k \in 1..n : {i, j} \subseteq TokensOf(Append(commands, d)[k]) <=> {i, j} \subseteq TokensOf(Append(commands, c)[k])
    BY <1>1, <2>1
  <2>3. InOneCommand(Append(commands, d), i, j) <=> InOneCommand(Append(commands, c), i, j)
    BY <1>1, <2>2 DEF InOneCommand
  <2> QED BY <1>3, <2>3 DEF CommandsJoin
<1>4. CASE hi <= j
  BY <1>4
<1> QED BY <1>2, <1>3, <1>4

----------------------------------------------------------------------------
(***************************************************************************)
(* parse_block.                                                            *)
(***************************************************************************)
LEMMA OutsideBound ==
  ASSUME tokens' = tokens, pc' \in {"start", "block", "done"},
         Plain' => LinesJoin(pipelines', position') /\ Parted(position')
  PROVE  BoundariesKept'
<1> SUFFICES ASSUME Plain' PROVE JoinInv'
  BY DEF BoundariesKept
<1>1. LinesJoin(pipelines, position)' <=> LinesJoin(pipelines', position')
  BY BoundariesStay
<1>2. Parted(position)' <=> Parted(position')
  BY BoundariesStay
<1>3. Base' = position' /\ ~ InPipeline'
  BY DEF Base, InPipeline
<1> QED BY <1>1, <1>2, <1>3 DEF JoinInv

LEMMA BoundOutside ==
  ASSUME BoundInv, BetweenStatements
  PROVE  /\ TypeOK /\ position \in Nat \ {0} /\ pipelines \in Seq(Statement) /\ Len(pipelines) \in Nat
         /\ Plain => LinesJoin(pipelines, position) /\ Parted(position)
<1>1. Base = position
  BY DEF Base, BetweenStatements
<1> QED BY <1>1, BlockFacts DEF BoundInv, EndsInv, DocInv, BoundariesKept, JoinInv

(* A token that means nothing is passed. *)
LEMMA BlockStepsKeepBound ==
  ASSUME BoundInv, CheckEnd \/ EndBlock \/ BlockEol \/ BlockSemicolon \/ BlockComment
  PROVE  BoundariesKept'
<1>1. /\ BetweenStatements /\ tokens' = tokens /\ pc' \in {"start", "block", "done"}
      /\ errors' = errors \/ \E e : errors' = Append(errors, e)
  BY DEF CheckEnd, EndBlock, BlockEol, BlockSemicolon, BlockComment, InBlock, BetweenStatements
<1>2. /\ TypeOK /\ position \in Nat /\ pipelines \in Seq(Statement) /\ Len(pipelines) \in Nat
      /\ Plain => LinesJoin(pipelines, position) /\ Parted(position)
  BY <1>1, BoundOutside
<1>3. Plain' => Plain
  <2>1. ASSUME NEW e, errors' = Append(errors, e)
        PROVE  errors' # <<>>
    <3>1. errors \in Seq([what : ErrorKind, at : Nat])
      BY <1>2 DEF TypeOK
    <3>2. Len(errors') = Len(errors) + 1 /\ Len(errors) \in Nat
      BY <2>1, <3>1
    <3> QED BY <3>2
  <2>2. errors' = <<>> => errors = <<>>
    BY <1>1, <2>1
  <2> QED BY <1>1, <2>2 DEF Plain, Indexes
<1>4. /\ Len(pipelines') = Len(pipelines)
      /\ \A k \in 1..Len(pipelines) :
           pipelines'[k].commands = pipelines[k].commands /\ pipelines'[k].garbage = pipelines[k].garbage
  <2>1. CASE pipelines' = pipelines
    BY <2>1
  <2>2. CASE pipelines' = [pipelines EXCEPT ![Len(pipelines)].trailing = @ \union {position}]
    BY <1>2, <2>2 DEF Statement
  <2>3. CASE pipelines' = [pipelines EXCEPT ![Len(pipelines)].terminator = position]
    BY <1>2, <2>3 DEF Statement
  <2> QED BY <2>1, <2>2, <2>3 DEF CheckEnd, EndBlock, BlockEol, BlockSemicolon, BlockComment, block
<1>5. position <= position' /\ position' \in Nat /\ NoWords(position, position')
  <2>1. CASE position' = position
    BY <1>2, <2>1, NothingPassed
  <2>2. CASE position' = position + 1 /\ Peek \in {"Pipe", "Semicolon", "Eol", "Comment"}
    BY <1>2, <2>2, OneOver
  <2> QED BY <2>1, <2>2 DEF CheckEnd, EndBlock, BlockEol, BlockSemicolon, BlockComment, InBlock
<1>6. Plain => LinesJoin(pipelines', position') /\ Parted(position')
  BY <1>2, <1>4, <1>5, JoinPass, JoinSame, PartedPass
<1> QED BY <1>1, <1>3, <1>6, OutsideBound

----------------------------------------------------------------------------
(***************************************************************************)
(* The statement under way.                                                *)
(***************************************************************************)
LEMMA BoundStatement ==
  ASSUME BoundInv, InPipeline
  PROVE  /\ TypeOK /\ start \in Nat /\ position \in Nat /\ start >= 1 /\ start <= position
         /\ lite_commands \in Seq(Command) /\ lite_command \in Command
         /\ Tidy(Grouped, start, position) /\ SwallowInv
         /\ Plain => /\ LinesJoin(pipelines, start) /\ Parted(start)
                     /\ CommandsJoin(Grouped, start, position) /\ GapInv
<1>1. OpenInv /\ DocKept
  BY DEF BoundInv, EndsInv, DocInv
<1>2. Base = start
  BY DEF Base, InPipeline
<1> QED BY <1>1, <1>2, InStatement, StatementFacts, InStatementDocs DEF BoundInv, BoundariesKept, JoinInv

LEMMA BoundNextStep ==
  ASSUME tokens' = tokens, pipelines' = pipelines, start' = start, InPipeline',
         Plain' =>
           /\ LinesJoin(pipelines, start) /\ Parted(start) /\ CommandsJoin(Grouped', start, position')
           /\ pc' = "commands" /\ ~ Awaiting' =>
                \A w : LastWord(w, start, position') =>
                  tokens[w] # "RedirectionPipe"
                    /\ (OnlyComments(w, position') \/ (Peek' = "Pipe" /\ GoesOn(w, position')))
           /\ Awaiting' => \A w : LastWord(w, start, position') => GoesOn(w, position') /\ Piped(w, position')
           /\ pc' = "after_pipe" => position' > 1 /\ tokens[position' - 1] \in PipeKinds
           /\ pc' \in {"attributes", "command"} =>
                ~ absorbing' /\ (~ Started' => TokensOf(lite_command') = {} /\ lite_command'.attributes = <<>>)
           /\ pc' = "command" /\ Started' =>
                \A w : LastWord(w, start, position') =>
                  w \in TokensOf(lite_command') /\ tokens[w] # "RedirectionPipe" /\ OnlyComments(w, position')
           /\ pc' = "elements" => Parted(position')
  PROVE  BoundariesKept'
<1>1. pc' # "failed" /\ Base' = start
  BY DEF InPipeline, Base
<1> SUFFICES ASSUME Plain' PROVE JoinInv'
  BY <1>1 DEF BoundariesKept
<1>2. LinesJoin(pipelines, Base)' <=> LinesJoin(pipelines', Base')
  BY BoundariesStay
<1>3. /\ Parted(Base)' <=> Parted(Base')
      /\ Parted(position)' <=> Parted(position')
  BY BoundariesStay
<1>4. CommandsJoin(Grouped, start, position)' <=> CommandsJoin(Grouped', start', position')
  BY BoundariesStay
<1>5. \A w : /\ LastWord(w, start, position)' <=> LastWord(w, start', position')
             /\ GoesOn(w, position)' <=> GoesOn(w, position')
             /\ Piped(w, position)' <=> Piped(w, position')
             /\ OnlyComments(w, position)' <=> OnlyComments(w, position')
  BY BoundariesStay
<1>6. TokensOf(lite_command)' = TokensOf(lite_command')
  BY DEF TokensOf, PartsOf
<1>7. GapInv'
  BY <1>3, <1>5, <1>6 DEF GapInv
<1> QED BY <1>1, <1>2, <1>3, <1>4, <1>7 DEF JoinInv

----------------------------------------------------------------------------
(***************************************************************************)
(* parse_pipeline returns.                                                 *)
(***************************************************************************)
LEMMA LinesAdd ==
  ASSUME TypeOK, NEW lines \in Seq(Statement), NEW s \in Statement, s.garbage = {},
         NEW lo \in Nat, NEW hi \in Nat, lo <= hi,
         TidyPipelines(lines, lo), LinesJoin(lines, lo), Parted(lo),
         Tidy(s.commands, lo, hi), CommandsJoin(s.commands, lo, hi)
  PROVE  LinesJoin(Append(lines, s), hi)
<1> DEFINE n == Len(lines) + 1
           all == Append(lines, s)
<1>1. /\ Len(all) = n /\ n \in Nat /\ n \in 1..n
      /\ \A k \in 1..n : k # n => k \in 1..Len(lines)
      /\ \A k \in 1..Len(lines) : all[k] = lines[k] /\ k \in 1..n
      /\ all[n] = s
  BY AppendProperties
<1> HIDE DEF n, all
<1>2. StatementOf(s) = UNION {TokensOf(s.commands[k]) : k \in 1..Len(s.commands)}
  BY DEF StatementOf, Ran
<1>3. StatementOf(s) \subseteq Indices(lo, hi)
  BY <1>2 DEF Tidy
<1>4. \A k \in 1..Len(lines) : StatementOf(lines[k]) \subseteq Indices(1, lo)
  BY DEF TidyPipelines
<1>5. \A k \in 1..Len(lines) : \A m \in 1..Len(lines[k].commands) :
        TokensOf(lines[k].commands[m]) \subseteq StatementOf(lines[k])
  BY DEF StatementOf, Ran
<1> SUFFICES ASSUME NEW i \in Words, NEW j \in Words, Neighbours(i, j), j < hi
             PROVE  /\ SamePipeline(i, j) <=> InOneLine(all, i, j)
                    /\ (SamePipeline(i, j) /\ ~ PipeBetween(i, j)) <=> InOneOf(all, i, j)
  BY DEF LinesJoin, all
<1>6. i \in Nat /\ j \in Nat /\ i < j
  BY WordBounds DEF Neighbours
<1>7. CASE i < lo
  <2>1. i \notin StatementOf(s) /\ ~ InOneCommand(s.commands, i, j)
    <3>1. i \notin Indices(lo, hi)
      BY <1>6, <1>7 DEF Indices
    <3> QED BY <1>2, <1>3, <3>1 DEF InOneCommand
  <2>2. InOneLine(all, i, j) <=> InOneLine(lines, i, j)
    BY <1>1, <2>1 DEF InOneLine
  <2>3. InOneOf(all, i, j) <=> InOneOf(lines, i, j)
    BY <1>1, <2>1 DEF InOneOf
  <2>4. CASE j < lo
    BY <2>2, <2>3, <2>4 DEF LinesJoin
  <2>5. CASE lo <= j
    <3>1. ~ SamePipeline(i, j)
      BY <1>7, <2>5 DEF Parted
    <3>2. ~ InOneLine(lines, i, j)
      <4>1. j \notin Indices(1, lo)
        BY <1>6, <2>5 DEF Indices
      <4> QED BY <1>4, <4>1 DEF InOneLine
    <3>3. ~ InOneOf(lines, i, j)
      BY <1>5, <3>2 DEF InOneOf, InOneCommand, InOneLine
    <3> QED BY <2>2, <2>3, <3>1, <3>2, <3>3
  <2> QED BY <1>6, <2>4, <2>5
<1>8. CASE lo <= i
  <2>1. SamePipeline(i, j) /\ (PipeBetween(i, j) <=> ~ InOneCommand(s.commands, i, j))
    BY <1>8 DEF CommandsJoin
  <2>2. i \in Indices(lo, hi) /\ j \in Indices(lo, hi)
    BY <1>6, <1>8 DEF Indices
  <2>3. {i, j} \subseteq StatementOf(s)
    <3>1. (\E k \in 1..Len(s.commands) : i \in TokensOf(s.commands[k]))
          /\ \E k \in 1..Len(s.commands) : j \in TokensOf(s.commands[k])
      BY <2>2 DEF Tidy
    <3> QED BY <1>2, <3>1
  <2>4. InOneLine(all, i, j)
    BY <1>1, <2>3 DEF InOneLine
  <2>5. \A k \in 1..Len(lines) : i \notin StatementOf(lines[k])
    <3>1. i \notin Indices(1, lo)
      BY <1>6, <1>8 DEF Indices
    <3> QED BY <1>4, <3>1
  <2>6. InOneOf(all, i, j) <=> InOneCommand(s.commands, i, j)
    <3>1. \A k \in 1..Len(lines) : ~ InOneCommand(lines[k].commands, i, j)
      BY <1>5, <2>5 DEF InOneCommand
    <3> QED BY <1>1, <3>1 DEF InOneOf
  <2> QED BY <2>1, <2>4, <2>6
<1> QED BY <1>6, <1>7, <1>8

(* With no command there is no word: the lone pipe belongs to no pipeline. *)
LEMMA EndPipelineKeepsBound ==
  ASSUME BoundInv, EndPipeline
  PROVE  BoundariesKept'
<1>1. /\ pc = "elements" /\ pc' = "block" /\ tokens' = tokens /\ errors' = errors /\ InPipeline
      /\ Grouped = lite_commands
  BY DEF EndPipeline, InPipeline, Grouped
<1>2. /\ TypeOK /\ start \in Nat /\ position \in Nat /\ start <= position /\ pipelines \in Seq(Statement)
      /\ Tidy(lite_commands, start, position) /\ TidyPipelines(pipelines, start)
  BY <1>1, BoundStatement, StatementFacts DEF BoundInv, EndsInv, DocInv
<1> SUFFICES ASSUME Plain' PROVE LinesJoin(pipelines', position') /\ Parted(position')
  BY <1>1, OutsideBound
<1>3. /\ LinesJoin(pipelines, start) /\ Parted(start) /\ CommandsJoin(lite_commands, start, position)
      /\ Parted(position)
  <2>1. Plain
    BY <1>1 DEF Plain, Indexes
  <2> QED BY <1>1, <2>1, BoundStatement DEF GapInv
<1>4. CASE lite_commands = <<>>
  <2>1. pipelines' = pipelines /\ position' = position
    BY <1>4 DEF EndPipeline
  <2>2. NoWords(start, position)
    BY <1>2, <1>4 DEF Tidy, NoWords
  <2> QED BY <1>2, <1>3, <2>1, <2>2, JoinPass
<1>5. CASE lite_commands # <<>>
  <2>1. PICK s : pipelines' = Append(pipelines, s) /\ s.commands = lite_commands /\ s.garbage = {}
    BY <1>5 DEF EndPipeline
  <2>2. s \in Statement
    <3>1. pipelines' \in Seq(Statement)
      BY <1>2, EndPipelineType DEF TypeOK
    <3>2. Len(pipelines') = Len(pipelines) + 1 /\ pipelines'[Len(pipelines) + 1] = s
      BY <1>2, <2>1
    <3> QED BY <1>2, <3>1, <3>2
  <2>3. LinesJoin(pipelines', position)
    BY <1>2, <1>3, <2>1, <2>2, LinesAdd
  <2>4. CASE Peek = "Semicolon"
    <3>1. position' = position + 1 /\ position + 1 \in Nat /\ position <= position + 1
          /\ NoWords(position, position + 1)
      BY <1>2, <1>5, <2>4, OneOver DEF EndPipeline
    <3> QED BY <1>2, <1>3, <2>3, <3>1, JoinPass, PartedPass
  <2>5. CASE Peek # "Semicolon"
    BY <1>3, <1>5, <2>3, <2>5 DEF EndPipeline
  <2> QED BY <2>4, <2>5
<1> QED BY <1>4, <1>5

LEMMA RecoverKeepsBound ==
  ASSUME BoundInv, NEW e \in start..End, Recover(e)
  PROVE  BoundariesKept'
<1>1. pc = "failed" /\ pc' = "block" /\ tokens' = tokens /\ errors' = errors
  BY DEF Recover
<1>2. ~ Plain'
  BY <1>1 DEF BoundInv, BoundariesKept, Plain
<1> QED BY <1>1, <1>2, OutsideBound

LEMMA BeginPipelineKeepsBound ==
  ASSUME BoundInv, BeginPipeline
  PROVE  BoundariesKept'
<1>1. /\ BetweenStatements /\ tokens' = tokens /\ errors' = errors /\ pipelines' = pipelines /\ start' = position
      /\ position' = position /\ pc' = "commands" /\ lite_commands' = <<>>
  BY DEF BeginPipeline, CallPipeline, BetweenStatements
<1>2. /\ TypeOK /\ position \in Nat
      /\ Plain => LinesJoin(pipelines, position) /\ Parted(position)
  BY <1>1, BoundOutside
<1>3. /\ InPipeline' /\ Grouped' = <<>> /\ Base' = position /\ Awaiting'
  BY <1>1 DEF InPipeline, Grouped, Base, Awaiting
<1> SUFFICES ASSUME Plain' PROVE JoinInv'
  BY <1>1 DEF BoundariesKept
<1>4. LinesJoin(pipelines, position) /\ Parted(position)
  BY <1>1, <1>2 DEF Plain, Indexes
<1>5. (LinesJoin(pipelines, Base) /\ Parted(Base))'
  BY <1>1, <1>3, <1>4, BoundariesStay
<1>6. \A w : ~ LastWord(w, start, position)'
  <2>1. \A w : w \in Words' => w \in Words
    BY <1>1 DEF Words, Indexes
  <2> QED BY <1>1, <1>2, <2>1, WordBounds DEF LastWord
<1>7. CommandsJoin(Grouped, start, position)'
  <2>1. CommandsJoin(<<>>, position, position)
    <3>1. ASSUME NEW i \in Words, NEW j \in Words, Neighbours(i, j), position <= i, j < position
          PROVE  FALSE
      BY <1>2, <3>1, WordBounds DEF Neighbours
    <3> QED BY <3>1 DEF CommandsJoin
  <2> QED BY <1>1, <1>3, <2>1, BoundariesStay
<1> QED BY <1>1, <1>3, <1>5, <1>6, <1>7 DEF JoinInv, GapInv

LEMMA PlainBefore ==
  ASSUME TypeOK, tokens' = tokens, errors' = errors \/ \E e : errors' = Append(errors, e)
  PROVE  Plain' => Plain
<1>1. ASSUME NEW e, errors' = Append(errors, e)
      PROVE  errors' # <<>>
  <2>1. errors \in Seq([what : ErrorKind, at : Nat])
    BY DEF TypeOK
  <2>2. Len(errors') = Len(errors) + 1 /\ Len(errors) \in Nat
    BY <1>1, <2>1
  <2> QED BY <2>2
<1>2. errors' = <<>> => errors = <<>>
  BY <1>1
<1> QED BY <1>2 DEF Plain, Indexes

LEMMA FailedBound ==
  ASSUME TypeOK, pc' = "failed", NEW e, errors' = Append(errors, e)
  PROVE  BoundariesKept'
<1>1. errors \in Seq([what : ErrorKind, at : Nat])
  BY DEF TypeOK
<1>2. Len(errors') = Len(errors) + 1 /\ Len(errors) \in Nat
  BY <1>1
<1>3. errors' # <<>>
  BY <1>2
<1> QED BY <1>3 DEF BoundariesKept, Plain

LEMMA FailingStepsKeepBound ==
  ASSUME BoundInv, ShellOr \/ ElementFails
  PROVE  BoundariesKept'
<1>1. /\ TypeOK /\ pc' = "failed"
  BY BoundStatement DEF ShellOr, ElementFails, InElement, InCommand, InPipeline, Fail
<1>2. CASE ShellOr
  BY <1>1, <1>2, FailedBound DEF ShellOr, Fail
<1>3. CASE ElementFails
  <2>1. PICK e \in AfterValue(Current) : errors' = Append(e, Error("element", start))
    BY <1>3 DEF ElementFails
  <2>2. e \in Seq([what : ErrorKind, at : Nat])
    <3>1. Current \in Command
      <4>1. element \in 1..Len(lite_commands) /\ lite_commands \in Seq(Command)
        BY <1>1, <1>3 DEF ElementFails, InElement, TypeOK
      <4> QED BY <4>1 DEF Current
    <3> QED BY <1>1, <3>1, ElementErrorsType DEF ErrorType
  <2>3. Len(errors') = Len(e) + 1 /\ Len(e) \in Nat
    BY <2>1, <2>2
  <2>4. errors' # <<>>
    BY <2>3
  <2> QED BY <1>1, <2>4 DEF BoundariesKept, Plain
<1> QED BY <1>2, <1>3

LEMMA BeginCommandKeepsBound ==
  ASSUME BoundInv, BeginCommand
  PROVE  BoundariesKept'
<1>1. /\ pc = "commands" /\ pc' \in {"attributes", "command"} /\ tokens' = tokens /\ errors' = errors
      /\ pipelines' = pipelines /\ start' = start /\ position' = position /\ lite_commands' = lite_commands
      /\ lite_command' = [EmptyCommand EXCEPT !.pipe = pipe] /\ absorbing' = FALSE
      /\ InPipeline /\ InPipeline' /\ Grouped = lite_commands /\ Grouped' = Append(lite_commands, lite_command')
      /\ Awaiting
  BY DEF BeginCommand, CommandEnded, InPipeline, Grouped, Awaiting, block, pipeline
<1>2. /\ TypeOK /\ lite_commands \in Seq(Command)
      /\ Plain => /\ LinesJoin(pipelines, start) /\ Parted(start)
                  /\ CommandsJoin(lite_commands, start, position) /\ GapInv
  BY <1>1, BoundStatement
<1>3. /\ lite_command'.parts = <<>> /\ lite_command'.attributes = <<>> /\ lite_command'.redirections = <<>>
      /\ lite_command' \in Command
  <2>1. pipe \in Nat
    BY <1>2, Bounds DEF TypeOK, None
  <2>2. lite_command' = [pipe |-> pipe, parts |-> <<>>, attributes |-> <<>>, redirections |-> <<>>]
    BY <1>1 DEF EmptyCommand
  <2>3. lite_command' \in Command
    BY <2>1, <2>2 DEF Command
  <2> QED BY <2>2, <2>3
<1>4. TokensOf(lite_command') = {} /\ ~ Started'
  BY <1>3 DEF TokensOf, PartsOf, Ran, Started
<1>5. Plain' => Plain
  BY <1>1 DEF Plain, Indexes
<1>6. Plain => CommandsJoin(Grouped', start, position')
  BY <1>1, <1>2, <1>3, <1>4, CommandsBegin
<1> QED BY <1>1, <1>2, <1>3, <1>4, <1>5, <1>6, BoundNextStep DEF GapInv

(* What is awaited keeps its gap as the lite parse goes through its states. *)
LEMMA AttributesDoneKeepsBound ==
  ASSUME BoundInv, AttributesDone
  PROVE  BoundariesKept'
<1>1. /\ pc = "attributes" /\ pc' = "command" /\ tokens' = tokens /\ errors' = errors
      /\ pipelines' = pipelines /\ start' = start /\ position' = position /\ lite_commands' = lite_commands
      /\ lite_command' = lite_command /\ absorbing' = absorbing
      /\ InPipeline /\ InPipeline' /\ Grouped' = Grouped /\ Awaiting
  BY DEF AttributesDone, InPipeline, Grouped, Awaiting, block, pipeline, command
<1>2. Plain => /\ LinesJoin(pipelines, start) /\ Parted(start)
               /\ CommandsJoin(Grouped, start, position) /\ GapInv
  BY <1>1, BoundStatement
<1>3. ~ Started' /\ ~ Started
  BY <1>1 DEF BoundInv, EndsInv, EndsKept, CommandEnds, Started
<1>4. Plain' => Plain
  BY <1>1 DEF Plain, Indexes
<1> QED BY <1>1, <1>2, <1>3, <1>4, BoundNextStep DEF GapInv

LEMMA ElementParsesKeepsBound ==
  ASSUME BoundInv, ElementParses
  PROVE  BoundariesKept'
<1>1. /\ pc = "elements" /\ pc' = pc /\ tokens' = tokens /\ errors' \in AfterValue(Current)
      /\ pipelines' = pipelines /\ start' = start /\ position' = position
      /\ InPipeline /\ InPipeline' /\ Grouped' = Grouped /\ ~ Awaiting'
  BY DEF ElementParses, InElement, InPipeline, Grouped, Awaiting, block
<1>2. /\ TypeOK
      /\ Plain => /\ LinesJoin(pipelines, start) /\ Parted(start)
                  /\ CommandsJoin(Grouped, start, position) /\ GapInv
  BY <1>1, BoundStatement
<1>3. errors' = errors \/ \E e : errors' = Append(errors, e)
  BY <1>1 DEF AfterValue
<1>4. Plain' => Plain
  BY <1>1, <1>2, <1>3, PlainBefore
<1> QED BY <1>1, <1>2, <1>4, BoundNextStep DEF GapInv

LEMMA LeadingPipeKeepsBound ==
  ASSUME BoundInv, LeadingPipe
  PROVE  BoundariesKept'
<1>1. /\ pc = "commands" /\ pc' = "after_pipe" /\ tokens' = tokens /\ errors' = errors
      /\ pipelines' = pipelines /\ start' = start /\ position' = position + 1 /\ lite_commands' = lite_commands
      /\ InPipeline /\ InPipeline' /\ Grouped' = Grouped /\ Awaiting' /\ Peek = "Pipe"
  BY DEF LeadingPipe, InPipeline, Grouped, Awaiting, block
<1>2. /\ TypeOK /\ position \in Nat /\ start \in Nat /\ start >= 1 /\ start <= position
      /\ Plain => /\ LinesJoin(pipelines, start) /\ Parted(start)
                  /\ CommandsJoin(Grouped, start, position) /\ GapInv
  BY <1>1, BoundStatement
<1>3. tokens[position] = "Pipe" /\ NoWords(position, position + 1) /\ position + 1 \in Nat /\ position <= position + 1
  BY <1>1, <1>2, PeekType, OneOver
<1>4. Plain' => Plain
  BY <1>1 DEF Plain, Indexes
<1>5. ASSUME Plain, NEW w, LastWord(w, start, position + 1)
      PROVE  GoesOn(w, position + 1) /\ Piped(w, position + 1)
  <2>1. w \in Nat
    BY <1>2, <1>5, WordBounds DEF LastWord
  <2>2. LastWord(w, start, position)
    BY <1>2, <1>3, <1>5, <2>1, LastWordPass
  <2>3. w < position
    BY <2>2 DEF LastWord
  <2>4. GoesOn(w, position)
    BY <1>1, <1>2, <1>5, <2>1, <2>2, OnlyCommentsGoOn DEF GapInv
  <2> QED BY <1>2, <1>3, <2>1, <2>3, <2>4, GoesOnMore, PipedMore
<1>6. Plain => CommandsJoin(Grouped, start, position + 1)
  BY <1>2, <1>3, CommandsPass
<1>7. position + 1 > 1 /\ position + 1 - 1 = position
  BY <1>2
<1> QED BY <1>1, <1>2, <1>3, <1>4, <1>5, <1>6, <1>7, BoundNextStep DEF PipeKinds

----------------------------------------------------------------------------
(***************************************************************************)
(* Line ends.                                                              *)
(***************************************************************************)
(* Line ends and comments take turns, so no line between them is blank.     *)
LEMMA CommentLinesNoBlank ==
  ASSUME NEW p \in Nat, NEW e \in Nat, CommentLines(p, e), NEW k \in Indices(p, e - 1)
  PROVE  ~ (tokens[k] = "Eol" /\ tokens[k + 1] = "Eol")
<1>1. k \in Indices(p, e) /\ k + 1 \in Indices(p, e) /\ k \in Nat
  BY DEF Indices
<1>2. (k - p) % 2 = 0 \/ (k + 1 - p) % 2 = 0
  BY <1>1
<1> QED BY <1>1, <1>2 DEF CommentLines

LEMMA CommentFirst ==
  ASSUME NEW p \in Nat, NEW e \in Nat, CommentLines(p, e), p < e
  PROVE  tokens[p] = "Comment"
<1>1. p \in Indices(p, e) /\ (p - p) % 2 = 0
  BY DEF Indices
<1> QED BY <1>1 DEF CommentLines

LEMMA ContinuationNoBlank ==
  ASSUME NEW p \in Nat, NEW e \in Nat, Continuation(p, e), NEW k \in Indices(p, e - 1)
  PROVE  ~ (tokens[k] = "Eol" /\ tokens[k + 1] = "Eol")
<1>1. PICK c \in p..e :
        /\ \A i \in Indices(p, c) : tokens[i] = "Comment"
        /\ c < End => tokens[c] # "Comment"
        /\ IF c < End /\ tokens[c] = "Eol" THEN c < e /\ CommentLines(c + 1, e) ELSE e = c
  BY DEF Continuation
<1>2. c \in Nat /\ k \in Nat /\ p <= k /\ k + 1 < e
  BY DEF Indices
<1>3. CASE k < c
  BY <1>1, <1>2, <1>3 DEF Indices
<1>4. CASE k >= c
  <2>1. CommentLines(c + 1, e) /\ c + 1 \in Nat
    BY <1>1, <1>2, <1>4
  <2>2. CASE k = c
    <3>1. tokens[c + 1] = "Comment"
      BY <1>2, <2>1, <2>2, CommentFirst
    <3> QED BY <2>2, <3>1
  <2>3. CASE k > c
    <3>1. k \in Indices(c + 1, e - 1)
      BY <1>2, <2>3 DEF Indices
    <3> QED BY <2>1, <3>1, CommentLinesNoBlank
  <2> QED BY <1>2, <1>4, <2>2, <2>3
<1> QED BY <1>2, <1>3, <1>4

(* A pipe with no blank line before it is the one pipe_on_later_line finds, *)
(* for what lies between is lines of comments.                              *)
LEMMA PipeBehindLines ==
  ASSUME TypeOK, InBlockForm(tokens), NEW p \in Indexes, NEW q \in Indexes, p < q,
         tokens[p] = "Eol", tokens[q] = "Pipe",
         \A k \in Indices(p, q) : tokens[k] \in {"Eol", "Comment"},
         \A k \in Indices(p, q - 1) : ~ (tokens[k] = "Eol" /\ tokens[k + 1] = "Eol")
  PROVE  PipeOnLaterLine(p, q)
<1> DEFINE Turn(k) == tokens[k] = (IF (k - p) % 2 = 0 THEN "Eol" ELSE "Comment")
<1>1. /\ p \in Nat /\ q \in Nat /\ q < End /\ p >= 1 /\ q <= Len(tokens) /\ Len(tokens) \in Nat
  BY Bounds
<1>2. \A k \in Indices(p, q) : Turn(k)
  <2> DEFINE Wrong == {k \in Indices(p, q) : ~ Turn(k)}
  <2> SUFFICES ASSUME Wrong # {} PROVE FALSE
    OBVIOUS
  <2>1. Wrong \subseteq Nat
    BY <1>1 DEF Indices
  <2>2. PICK b \in Wrong : \A m \in Wrong : b <= m
    BY <2>1, FirstExists
  <2>3. b \in Nat /\ p <= b /\ b < q /\ ~ Turn(b)
    BY <1>1, <2>2 DEF Indices
  <2>4. b # p
    BY <2>3
  <2>5. b - 1 \in Indices(p, q) /\ b - 1 \notin Wrong /\ b - 1 \in Indices(p, q - 1) /\ b - 1 + 1 = b
    BY <1>1, <2>2, <2>3, <2>4 DEF Indices
  <2>6. Turn(b - 1)
    BY <2>5
  <2>7. tokens[b] \in {"Eol", "Comment"}
    BY <2>2
  <2>8. CASE (b - p) % 2 = 0
    <3>1. (b - 1 - p) % 2 # 0
      BY <1>1, <2>3, <2>8
    <3>2. tokens[b - 1] = "Comment" /\ b - 1 \in 1..(Len(tokens) - 1)
      BY <1>1, <2>3, <2>4, <2>6, <3>1
    <3> QED BY <2>3, <2>5, <2>8, <3>2 DEF InBlockForm
  <2>9. CASE (b - p) % 2 # 0
    <3>1. (b - 1 - p) % 2 = 0
      BY <1>1, <2>3, <2>9
    <3>2. tokens[b - 1] = "Eol"
      BY <2>6, <3>1
    <3> QED BY <2>3, <2>5, <2>7, <2>9, <3>2
  <2> QED BY <2>8, <2>9
<1>3. (q - (p + 1)) % 2 = 0
  <2>1. q - 1 \in Indices(p, q) /\ q - 1 \in 1..(Len(tokens) - 1) /\ q - 1 + 1 = q
    BY <1>1 DEF Indices
  <2>2. tokens[q - 1] # "Comment"
    BY <2>1 DEF InBlockForm
  <2>3. (q - 1 - p) % 2 = 0
    BY <1>2, <2>1, <2>2
  <2> QED BY <1>1, <2>3
<1>4. ASSUME NEW i \in Indices(p + 1, q)
      PROVE  tokens[i] = (IF (i - (p + 1)) % 2 = 0 THEN "Comment" ELSE "Eol")
  <2>1. i \in Indices(p, q) /\ i \in Nat /\ ((i - (p + 1)) % 2 = 0 <=> (i - p) % 2 # 0)
    BY <1>1 DEF Indices
  <2> QED BY <1>2, <2>1
<1> QED BY <1>1, <1>3, <1>4 DEF PipeOnLaterLine, CommentLines

(* A blank line parts. *)
LEMMA BlankParts ==
  ASSUME TypeOK, NEW e \in Nat, e >= 1, tokens[e] = "Eol", tokens[e - 1] = "Eol"
  PROVE  Parted(e)
<1> SUFFICES ASSUME NEW i \in Words, NEW j \in Words, Neighbours(i, j), i < e, e <= j
             PROVE  BlankLineBetween(i, j)
  BY DEF Parted, SamePipeline
<1>1. i \in Nat /\ j \in Nat /\ i # e - 1 /\ j # e
  BY WordBounds
<1>2. e - 1 \in Indices(i + 1, j - 1) /\ e - 1 + 1 = e
  BY <1>1 DEF Indices
<1> QED BY <1>2 DEF BlankLineBetween

LEMMA EndParts ==
  ASSUME TypeOK
  PROVE  Parted(End)
<1>1. ASSUME NEW j \in Words, End <= j
      PROVE  FALSE
  BY <1>1, WordBounds, Bounds
<1> QED BY <1>1 DEF Parted

LEMMA LaterPipeKeepsBound ==
  ASSUME BoundInv, NEW q \in position..Len(tokens), LaterPipe(q)
  PROVE  BoundariesKept'
<1>1. /\ pc = "commands" /\ pc' = pc /\ tokens' = tokens /\ errors' = errors
      /\ pipelines' = pipelines /\ start' = start /\ position' = q /\ lite_commands' = lite_commands /\ pipe' = pipe
      /\ InPipeline /\ InPipeline' /\ Grouped' = Grouped /\ ~ Awaiting /\ ~ Awaiting' /\ Peek # "Pipe"
      /\ PipeOnLaterLine(position, q)
  BY DEF LaterPipe, CommandEnded, InPipeline, Grouped, Awaiting, block
<1>2. /\ TypeOK /\ position \in Nat /\ start \in Nat /\ start <= position
      /\ Plain => /\ LinesJoin(pipelines, start) /\ Parted(start)
                  /\ CommandsJoin(Grouped, start, position) /\ GapInv
  BY <1>1, BoundStatement
<1>3. /\ q \in Nat /\ position <= q /\ NoWords(position, q) /\ Peek' = "Pipe"
      /\ \A i \in Indices(position, q) : tokens[i] \in {"Eol", "Comment"}
      /\ CommentLines(position + 1, q) /\ tokens[position] = "Eol"
  <2>1. q \in Nat /\ position <= q
    BY <1>2, Bounds
  <2>2. Peek' = "Pipe" /\ CommentLines(position + 1, q) /\ tokens[position] = "Eol"
    BY <1>1 DEF PipeOnLaterLine, Peek, End
  <2> QED BY <1>1, <1>2, <2>1, <2>2, PipeOnLaterLineOver, LaterPipeFillers
<1>4. Plain' => Plain
  BY <1>1 DEF Plain, Indexes
<1>5. ASSUME Plain, NEW w, LastWord(w, start, q)
      PROVE  tokens[w] # "RedirectionPipe" /\ GoesOn(w, q)
  <2>1. w \in Nat
    BY <1>2, <1>5, WordBounds DEF LastWord
  <2>2. LastWord(w, start, position)
    BY <1>2, <1>3, <1>5, <2>1, LastWordPass
  <2>3. w < position /\ OnlyComments(w, position) /\ tokens[w] # "RedirectionPipe"
    BY <1>1, <1>2, <1>5, <2>2 DEF LastWord, GapInv
  <2>4. \A k \in Indices(w + 1, q) : tokens[k] # "Semicolon"
    <3>1. \A k \in Indices(w + 1, q) : k \in Indices(w + 1, position) \/ k \in Indices(position, q)
      BY <1>2, <1>3, <2>1 DEF Indices
    <3> QED BY <1>3, <2>3, <3>1 DEF OnlyComments
  <2>5. ASSUME NEW k \in Indices(w + 1, q - 1)
        PROVE  ~ (tokens[k] = "Eol" /\ tokens[k + 1] = "Eol")
    <3>1. k \in Nat /\ w + 1 <= k /\ k + 1 < q /\ k < q
      BY <1>3, <2>1, <2>5 DEF Indices
    <3>2. CASE k < position
      <4>1. tokens[k] = "Comment"
        BY <1>2, <2>1, <2>3, <3>1, <3>2 DEF OnlyComments, Indices
      <4> QED BY <4>1
    <3>3. CASE k = position
      <4>1. position + 1 \in Nat /\ position + 1 < q
        BY <1>2, <1>3, <3>1, <3>3
      <4>2. tokens[position + 1] = "Comment"
        BY <1>3, <4>1, CommentFirst
      <4> QED BY <3>3, <4>2
    <3>4. CASE k > position
      <4>1. k \in Indices(position + 1, q - 1) /\ position + 1 \in Nat
        BY <1>2, <1>3, <3>1, <3>4 DEF Indices
      <4> QED BY <1>3, <4>1, CommentLinesNoBlank
    <3> QED BY <1>2, <3>1, <3>2, <3>3, <3>4
  <2> QED BY <2>3, <2>4, <2>5 DEF GoesOn
<1>6. Plain => CommandsJoin(Grouped, start, q)
  BY <1>2, <1>3, CommandsPass
<1> QED BY <1>1, <1>2, <1>3, <1>4, <1>5, <1>6, BoundNextStep

(* The pipeline ends where its line does, because no later line goes on     *)
(* with a pipe: the words on the two sides are of two pipelines.            *)
LEMMA NoMoreCommandsParts ==
  ASSUME TypeOK, Peek \in {"Semicolon", "End", "Eol"}, InBlockForm(tokens) \/ InSubexpressionForm(tokens),
         \A q \in 1..Len(tokens) : ~ PipeOnLaterLine(position, q),
         start \in Nat, start <= position, Parted(start),
         \A w : LastWord(w, start, position) => tokens[w] # "RedirectionPipe" /\ OnlyComments(w, position)
  PROVE  Parted(position)
<1> SUFFICES ASSUME NEW i \in Words, NEW j \in Words, Neighbours(i, j), i < position, position <= j, SamePipeline(i, j)
             PROVE  FALSE
  BY DEF Parted
<1>1. i \in Nat /\ j \in Nat /\ position \in Nat /\ j < End /\ j \in Indexes /\ tokens[j] \notin {"Semicolon", "Eol"}
  BY WordBounds, Bounds
<1>2. start <= i
  <2>1. CASE i < start
    <3>1. start <= j
      BY <1>1
    <3> QED BY <2>1, <3>1 DEF Parted
  <2> QED BY <1>1, <2>1
<1>3. tokens[i] # "RedirectionPipe" /\ OnlyComments(i, position)
  BY <1>1, <1>2, LastOfNeighbours
<1>4. Peek # "End" /\ tokens[position] = Peek /\ position \in Indexes /\ position < j
  <2>1. Peek # "End"
    BY <1>1, PeekType, Bounds
  <2>2. tokens[position] = Peek /\ position \in Indexes
    BY <2>1, PeekType
  <2> QED BY <1>1, <2>1, <2>2
<1>5. position \in Indices(i + 1, j)
  BY <1>1, <1>4 DEF Indices
<1>6. Peek = "Eol"
  BY <1>4, <1>5 DEF SamePipeline, Between
<1>7. PipeBetween(i, j)
  BY <1>4, <1>5, <1>6 DEF SamePipeline, Between
<1> DEFINE Pipes == {k \in Indices(i + 1, j) : tokens[k] = "Pipe"}
<1>8. Pipes # {} /\ Pipes \subseteq Nat
  <2>1. Pipes \subseteq Nat
    BY <1>1 DEF Indices
  <2> QED BY <1>3, <1>7, <2>1 DEF PipeBetween, Between
<1>9. PICK q \in Pipes : \A m \in Pipes : q <= m
  BY <1>8, FirstExists
<1>10. q \in Nat /\ i + 1 <= q /\ q < j /\ tokens[q] = "Pipe"
  BY <1>1, <1>8, <1>9 DEF Indices
<1>11. position < q /\ q \in Indexes
  <2>1. q \notin Indices(i + 1, position) /\ q # position
    BY <1>3, <1>4, <1>6, <1>10 DEF OnlyComments
  <2> QED BY <1>1, <1>10, <2>1, Bounds DEF Indices
<1>12. ASSUME NEW k \in Indices(position, q)
       PROVE  tokens[k] \in {"Eol", "Comment"}
  <2>1. k \in Nat /\ k \in Indices(i + 1, j) /\ k < q /\ k \in Indexes
    BY <1>1, <1>10, <1>11, <1>12, Bounds DEF Indices
  <2>2. k \notin Words /\ k \notin Pipes
    BY <1>9, <1>10, <2>1 DEF Neighbours
  <2>3. tokens[k] # "Semicolon"
    BY <2>1 DEF SamePipeline, Between
  <2> QED BY <2>1, <2>2, <2>3 DEF Words
<1>13. ASSUME NEW k \in Indices(position, q - 1)
       PROVE  ~ (tokens[k] = "Eol" /\ tokens[k + 1] = "Eol")
  <2>1. k \in Indices(i + 1, j - 1)
    BY <1>1, <1>10, <1>11, <1>13 DEF Indices
  <2> QED BY <2>1 DEF SamePipeline, BlankLineBetween
<1>14. InBlockForm(tokens)
  <2>1. ~ InSubexpressionForm(tokens)
    BY <1>4, <1>6 DEF InSubexpressionForm, Indexes
  <2> QED BY <2>1
<1>15. PipeOnLaterLine(position, q)
  BY <1>4, <1>6, <1>10, <1>11, <1>12, <1>13, <1>14, PipeBehindLines
<1> QED BY <1>11, <1>15 DEF Indexes

LEMMA NoMoreCommandsKeepsBound ==
  ASSUME BoundInv, NoMoreCommands
  PROVE  BoundariesKept'
<1>1. /\ pc = "commands" /\ pc' = "elements" /\ tokens' = tokens /\ errors' = errors
      /\ pipelines' = pipelines /\ start' = start /\ position' = position /\ lite_commands' = lite_commands
      /\ InPipeline /\ InPipeline' /\ Grouped' = Grouped /\ ~ Awaiting /\ ~ Awaiting' /\ Peek # "Pipe"
      /\ pipe = None /\ lite_commands # <<>>
      /\ \A q \in 1..Len(tokens) : ~ PipeOnLaterLine(position, q)
  BY DEF NoMoreCommands, CommandEnded, InPipeline, Grouped, Awaiting, block
<1>2. /\ TypeOK /\ start \in Nat /\ start <= position /\ SwallowInv
      /\ Plain => /\ LinesJoin(pipelines, start) /\ Parted(start)
                  /\ CommandsJoin(Grouped, start, position) /\ GapInv
  BY <1>1, BoundStatement
<1>3. Peek \in {"Semicolon", "End", "Eol"}
  BY <1>1, <1>2 DEF SwallowInv
<1>4. InBlockForm(tokens) \/ InSubexpressionForm(tokens)
  BY DEF BoundInv, EndsInv, EndsKept
<1>5. Plain' => Plain
  BY <1>1 DEF Plain, Indexes
<1>6. Plain => Parted(position)
  BY <1>1, <1>2, <1>3, <1>4, NoMoreCommandsParts DEF GapInv
<1> QED BY <1>1, <1>2, <1>5, <1>6, BoundNextStep

LEMMA AfterPipeKeepsBound ==
  ASSUME BoundInv, NEW e \in position..End, AfterPipe(e)
  PROVE  BoundariesKept'
<1>1. /\ pc = "after_pipe" /\ tokens' = tokens /\ pipelines' = pipelines /\ start' = start /\ position' = e
      /\ lite_commands' = lite_commands /\ InPipeline /\ Grouped = lite_commands /\ Awaiting
      /\ Continuation(position, e)
  BY DEF AfterPipe, InPipeline, Grouped, Awaiting, block
<1>2. /\ TypeOK /\ position \in Nat /\ start \in Nat /\ start <= position /\ start >= 1
      /\ Plain => /\ LinesJoin(pipelines, start) /\ Parted(start)
                  /\ CommandsJoin(Grouped, start, position) /\ GapInv
  BY <1>1, BoundStatement
<1>3. /\ e \in Nat /\ position <= e /\ NoWords(position, e)
      /\ \A i \in Indices(position, e) : tokens[i] \in {"Eol", "Comment"}
  <2>1. e \in Nat
    BY <1>2, Bounds
  <2> QED BY <1>1, <1>2, <2>1, ContinuationOver, ContinuationFillers
<1>4. CASE pc' = "failed"
  BY <1>2, <1>4, FailedBound DEF AfterPipe, Fail
<1>5. CASE pc' = "elements"
  <2>1. /\ errors' = errors /\ InPipeline' /\ Grouped' = Grouped /\ ~ Awaiting'
        /\ e = End \/ (e < End /\ tokens[e] = "Eol")
    <3>1. errors' = errors /\ (e = End \/ KindOf(e) = "Eol")
      BY <1>5 DEF AfterPipe, Fail
    <3>2. e < End \/ e = End
      BY <1>2, <1>3, Bounds
    <3> QED BY <1>1, <1>5, <3>1, <3>2 DEF InPipeline, Grouped, Awaiting, KindOf
  <2>2. Parted(e)
    <3>1. CASE e = End
      BY <1>2, <3>1, EndParts
    <3>2. CASE e < End /\ tokens[e] = "Eol"
      <4>1. position < e /\ tokens[e - 1] = "Eol" /\ e >= 1
        BY <1>1, <1>2, <1>3, <3>2, ContinuationEnd
      <4> QED BY <1>2, <1>3, <3>2, <4>1, BlankParts
    <3> QED BY <2>1, <3>1, <3>2
  <2>3. Plain' => Plain
    BY <1>1, <2>1 DEF Plain, Indexes
  <2>4. Plain => CommandsJoin(Grouped, start, e)
    BY <1>2, <1>3, CommandsPass
  <2> QED BY <1>1, <1>2, <1>5, <2>1, <2>2, <2>3, <2>4, BoundNextStep
<1>6. CASE pc' = "commands"
  <2>1. /\ errors' = errors /\ InPipeline' /\ Grouped' = Grouped /\ pipe' = pipe
    BY <1>1, <1>6 DEF AfterPipe, Fail, InPipeline, Grouped
  <2>2. Awaiting'
    <3>1. pipe # None
      <4>1. DroppedHere(lite_commands, pipe, position)
        BY <1>1 DEF BoundInv, EndsInv, DocInv, OpenInv, OpenKept, DroppedInv
      <4> QED BY <1>2, <4>1 DEF DroppedHere, None
    <3> QED BY <1>6, <2>1, <3>1 DEF Awaiting, None
  <2>3. Plain' => Plain
    BY <1>1, <2>1 DEF Plain, Indexes
  <2>4. ASSUME Plain, NEW w, LastWord(w, start, e)
        PROVE  GoesOn(w, e) /\ Piped(w, e)
    <3>1. w \in Nat
      BY <1>2, <2>4, WordBounds DEF LastWord
    <3>2. LastWord(w, start, position)
      BY <1>2, <1>3, <2>4, <3>1, LastWordPass
    <3>3. /\ w < position /\ GoesOn(w, position) /\ Piped(w, position)
          /\ position > 1 /\ tokens[position - 1] \in PipeKinds
      BY <1>1, <1>2, <2>4, <3>2 DEF LastWord, GapInv
    <3>4. \A k \in Indices(w + 1, e) : tokens[k] # "Semicolon"
      <4>1. \A k \in Indices(w + 1, e) : k \in Indices(w + 1, position) \/ k \in Indices(position, e)
        BY <1>2, <1>3, <3>1 DEF Indices
      <4> QED BY <1>3, <3>3, <4>1 DEF GoesOn
    <3>5. ASSUME NEW k \in Indices(w + 1, e - 1)
          PROVE  ~ (tokens[k] = "Eol" /\ tokens[k + 1] = "Eol")
      <4>1. k \in Nat /\ (k \in Indices(w + 1, position - 1) \/ k = position - 1 \/ k \in Indices(position, e - 1))
        BY <1>2, <1>3, <3>1, <3>5 DEF Indices
      <4>2. k = position - 1 => tokens[k] # "Eol"
        BY <3>3 DEF PipeKinds
      <4> QED BY <1>1, <1>2, <1>3, <3>3, <4>1, <4>2, ContinuationNoBlank DEF GoesOn
    <3> QED BY <1>2, <1>3, <3>1, <3>3, <3>4, <3>5, PipedMore DEF GoesOn
  <2>5. Plain => CommandsJoin(Grouped, start, e)
    BY <1>2, <1>3, CommandsPass
  <2> QED BY <1>1, <1>2, <1>6, <2>1, <2>2, <2>3, <2>4, <2>5, BoundNextStep
<1>7. pc' \in {"failed", "elements", "commands"}
  BY DEF AfterPipe, Fail
<1> QED BY <1>4, <1>5, <1>6, <1>7

----------------------------------------------------------------------------
(***************************************************************************)
(* The commands.                                                           *)
(***************************************************************************)
LEMMA BoundCommand ==
  ASSUME BoundInv, pc = "command", Plain
  PROVE  /\ TypeOK /\ position \in Nat /\ start \in Nat /\ start >= 1 /\ start <= position
         /\ lite_commands \in Seq(Command) /\ lite_command \in Command
         /\ LinesJoin(pipelines, start) /\ Parted(start) /\ GapInv /\ ~ absorbing
         /\ InPipeline /\ Grouped = Append(lite_commands, lite_command)
         /\ CommandsJoin(Append(lite_commands, lite_command), start, position)
         /\ Tidy(Append(lite_commands, lite_command), start, position)
<1>1. InPipeline /\ Grouped = Append(lite_commands, lite_command)
  BY DEF InPipeline, Grouped
<1> QED BY <1>1, BoundStatement DEF GapInv

(* The next word joins the command of the last one, or begins its own.      *)
LEMMA NextWord ==
  ASSUME BoundInv, pc = "command", Plain, NEW d \in Command, NEW taken,
         TokensOf(d) = TokensOf(lite_command) \union taken, position \in taken, position \in Words,
         taken \subseteq Indices(position, End),
         NEW i \in Words, Neighbours(i, position), start <= i
  PROVE  /\ SamePipeline(i, position)
         /\ PipeBetween(i, position) <=> ~ InOneCommand(Append(lite_commands, d), i, position)
<1> DEFINE n == Len(lite_commands) + 1
           old == Append(lite_commands, lite_command)
           new == Append(lite_commands, d)
<1>1. /\ Len(new) = n /\ Len(old) = n /\ n \in Nat /\ n \in 1..n
      /\ \A k \in 1..n : k # n => new[k] = old[k]
      /\ new[n] = d
  BY BoundCommand, AppendProperties
<1>2. Tidy(old, start, position)
  BY BoundCommand
<1> HIDE DEF n, new, old
<1>3. /\ i \in Nat /\ position \in Nat /\ i < position /\ start \in Nat /\ TypeOK
  BY BoundCommand, WordBounds DEF Neighbours
<1>4. LastWord(i, start, position)
  BY <1>3, LastOfNeighbours
<1>5. position \in TokensOf(d) /\ i \notin taken
  BY <1>3 DEF Indices
<1>6. CASE Started
  <2>1. i \in TokensOf(lite_command) /\ tokens[i] # "RedirectionPipe" /\ OnlyComments(i, position)
    BY <1>4, <1>6, BoundCommand DEF GapInv
  <2>2. InOneCommand(new, i, position)
    BY <1>1, <1>5, <2>1 DEF InOneCommand
  <2> QED BY <1>3, <2>1, <2>2, Linked DEF new
<1>7. CASE ~ Started
  <2>1. GoesOn(i, position) /\ Piped(i, position) /\ TokensOf(lite_command) = {}
    BY <1>4, <1>7, BoundCommand DEF GapInv, Awaiting
  <2>2. \A k \in 1..n : {i, position} \subseteq TokensOf(new[k]) => FALSE
    <3>1. i \notin TokensOf(d)
      BY <1>5, <2>1
    <3>2. \A k \in 1..n : TokensOf(old[k]) \subseteq Indices(start, position)
      BY <1>1, <1>2 DEF Tidy
    <3>3. position \notin Indices(start, position)
      BY <1>3 DEF Indices
    <3> QED BY <1>1, <3>1, <3>2, <3>3
  <2>3. ~ InOneCommand(new, i, position)
    BY <1>1, <2>2 DEF InOneCommand
  <2> QED BY <2>1, <2>3, Continued DEF new
<1> QED BY <1>6, <1>7

LEMMA TakingJoins ==
  ASSUME BoundInv, pc = "command", Plain, NEW d \in Command, NEW taken,
         TokensOf(d) = TokensOf(lite_command) \union taken, position \in taken, position \in Words,
         NEW next \in Nat, taken \subseteq Indices(position, next), next <= End,
         \A i, j \in Words : Neighbours(i, j) /\ position <= i /\ j < next =>
           {i, j} \subseteq taken /\ SamePipeline(i, j) /\ ~ PipeBetween(i, j)
  PROVE  CommandsJoin(Append(lite_commands, d), start, next)
<1>1. /\ TypeOK /\ position \in Nat /\ start \in Nat /\ lite_commands \in Seq(Command) /\ lite_command \in Command
      /\ CommandsJoin(Append(lite_commands, lite_command), start, position)
  BY BoundCommand
<1>2. taken \subseteq Indices(position, End)
  <2>1. End \in Nat
    BY <1>1, Bounds
  <2>2. Indices(position, next) \subseteq Indices(position, End)
    BY <1>1, <2>1 DEF Indices
  <2> QED BY <2>2
<1>3. ASSUME NEW i \in Words, NEW j \in Words, Neighbours(i, j), start <= i, position <= j, j < next
      PROVE  SamePipeline(i, j) /\ (PipeBetween(i, j) <=> ~ InOneCommand(Append(lite_commands, d), i, j))
  <2>1. CASE j = position
    <3>1. Neighbours(i, position)
      BY <1>3, <2>1
    <3>2. /\ SamePipeline(i, position)
          /\ PipeBetween(i, position) <=> ~ InOneCommand(Append(lite_commands, d), i, position)
      BY <1>2, <1>3, <3>1, NextWord
    <3> QED BY <2>1, <3>2
  <2>2. CASE j # position
    <3>1. i \in Nat /\ j \in Nat /\ i < j
      BY <1>1, <1>3, WordBounds DEF Neighbours
    <3>2. position <= i
      <4>1. position \notin Indices(i + 1, j)
        BY <1>3 DEF Neighbours
      <4> QED BY <1>1, <1>3, <2>2, <3>1, <4>1 DEF Indices
    <3>3. {i, j} \subseteq TokensOf(d) /\ SamePipeline(i, j) /\ ~ PipeBetween(i, j)
      BY <1>3, <3>2
    <3>4. Append(lite_commands, d)[Len(lite_commands) + 1] = d
          /\ Len(lite_commands) + 1 \in 1..Len(Append(lite_commands, d))
      BY <1>1
    <3>5. InOneCommand(Append(lite_commands, d), i, j)
      BY <3>3, <3>4 DEF InOneCommand
    <3> QED BY <3>3, <3>5
  <2> QED BY <2>1, <2>2
<1> QED BY <1>1, <1>3, CommandsTake

LEMMA LastIsRead ==
  ASSUME TypeOK, NEW at \in Words, NEW lo, NEW w, LastWord(w, lo, at + 1)
  PROVE  w = at
<1>1. w \in Nat /\ at \in Nat /\ w < at + 1
  BY WordBounds DEF LastWord
<1>2. at \notin Indices(w + 1, at + 1)
  BY DEF LastWord, NoWords
<1> QED BY <1>1, <1>2 DEF Indices

LEMMA TakePartKeepsBound ==
  ASSUME BoundInv, TakePart
  PROVE  BoundariesKept'
<1>1. /\ pc = "command" /\ pc' = pc /\ tokens' = tokens /\ errors' = errors
      /\ pipelines' = pipelines /\ start' = start /\ position' = position + 1 /\ lite_commands' = lite_commands
      /\ lite_command' = [lite_command EXCEPT !.parts = Append(@, position)]
      /\ absorbing' = (absorbing \/ Peek = "AssignmentOperator")
      /\ InPipeline' /\ Grouped' = Append(lite_commands, lite_command') /\ Peek \in PartKinds
  BY DEF TakePart, InCommand, InPipeline, Grouped, block, pipeline
<1>2. Plain' => Plain
  BY <1>1 DEF Plain, Indexes
<1>3. ASSUME Plain
      PROVE  /\ LinesJoin(pipelines, start) /\ Parted(start) /\ CommandsJoin(Grouped', start, position')
             /\ ~ absorbing' /\ Started'
             /\ \A w : LastWord(w, start, position') =>
                  w \in TokensOf(lite_command') /\ tokens[w] # "RedirectionPipe" /\ OnlyComments(w, position')
  <2>1. /\ TypeOK /\ position \in Nat /\ lite_command \in Command /\ lite_commands \in Seq(Command)
        /\ ~ absorbing /\ LinesJoin(pipelines, start) /\ Parted(start)
    BY <1>1, <1>3, BoundCommand
  <2>2. Peek \in {"Item", "At", "AssignmentOperator"}
    BY <1>1, <2>1 DEF PartKinds, Items
  <2>3. position \in Indexes /\ tokens[position] = Peek /\ position + 1 \in Nat /\ position + 1 <= End
    BY <2>1, <2>2, PeekType, Bounds
  <2>4. position \in Words /\ Peek # "AssignmentOperator" /\ tokens[position] # "RedirectionPipe"
    BY <1>3, <2>2, <2>3 DEF Words, Plain
  <2>5. lite_command' \in Command /\ TokensOf(lite_command') = TokensOf(lite_command) \union {position}
    <3>1. TypeOK'
      BY <2>1, <1>1, TakePartType
    <3> QED BY <1>1, <2>1, <3>1, TokensAdded DEF TypeOK
  <2>6. CommandsJoin(Grouped', start, position')
    <3>1. {position} \subseteq Indices(position, position + 1)
      BY <2>1 DEF Indices
    <3>2. ASSUME NEW i \in Words, NEW j \in Words, Neighbours(i, j), position <= i, j < position + 1
          PROVE  FALSE
      BY <2>1, <3>2, WordBounds DEF Neighbours
    <3>3. CommandsJoin(Append(lite_commands, lite_command'), start, position + 1)
      BY <1>1, <1>3, <2>3, <2>4, <2>5, <3>1, <3>2, TakingJoins
    <3> QED BY <1>1, <3>3
  <2>7. Started'
    <3>1. lite_command.parts \in Seq(Nat) /\ lite_command'.parts = Append(lite_command.parts, position)
      BY <1>1, <2>1 DEF Command
    <3>2. Len(lite_command'.parts) = Len(lite_command.parts) + 1 /\ Len(lite_command.parts) \in Nat
      BY <2>1, <3>1
    <3> QED BY <3>2 DEF Started
  <2>8. ASSUME NEW w, LastWord(w, start, position')
        PROVE  w \in TokensOf(lite_command') /\ tokens[w] # "RedirectionPipe" /\ OnlyComments(w, position')
    <3>1. w = position
      BY <1>1, <2>1, <2>4, <2>8, LastIsRead
    <3> QED BY <1>1, <2>1, <2>4, <2>5, <3>1, AtOnce
  <2> QED BY <1>1, <2>1, <2>4, <2>6, <2>7, <2>8
<1> QED BY <1>1, <1>2, <1>3, BoundNextStep DEF Awaiting, Started

LEMMA TakeRedirectionKeepsBound ==
  ASSUME BoundInv, TakeRedirection
  PROVE  BoundariesKept'
<1>1. /\ pc = "command" /\ tokens' = tokens /\ pipelines' = pipelines /\ start' = start
      /\ lite_commands' = lite_commands /\ absorbing' = absorbing /\ Peek = "Redirection"
  BY DEF TakeRedirection, InCommand, block, pipeline
<1>2. TypeOK /\ lite_command \in Command /\ lite_commands \in Seq(Command) /\ position \in Nat
  BY <1>1, BoundStatement DEF InPipeline
<1>3. CASE pc' = "failed"
  BY <1>2, <1>3, FailedBound DEF TakeRedirection, Fail, InCommand
<1>4. CASE pc' # "failed"
  <2>1. /\ pc' = pc /\ errors' = errors /\ position' = position + 2 /\ position + 1 # End
        /\ tokens[position + 1] \in Items /\ lite_command.parts # <<>>
        /\ lite_command' = [lite_command EXCEPT !.redirections = Append(@, {position, position + 1})]
    BY <1>4 DEF TakeRedirection, Fail, NothingToRedirect, KindOf
  <2>2. InPipeline' /\ Grouped' = Append(lite_commands, lite_command')
    BY <1>1, <2>1 DEF InPipeline, Grouped
  <2>3. /\ position \in Indexes /\ tokens[position] = "Redirection" /\ position + 1 \in Nat /\ position + 1 \in Indexes
        /\ position + 2 \in Nat /\ position + 2 <= End /\ position + 1 + 1 = position + 2
    BY <1>1, <1>2, <2>1, PeekType, Bounds
  <2>4. position \in Words /\ position + 1 \in Words /\ tokens[position + 1] # "RedirectionPipe"
    BY <2>1, <2>3 DEF Words, Items
  <2>5. lite_command' \in Command /\ TokensOf(lite_command') = TokensOf(lite_command) \union {position, position + 1}
    <3>1. TypeOK'
      BY <1>2, TakeRedirectionType
    <3>2. {position, position + 1} \in SUBSET Nat
      BY <1>2
    <3> QED BY <1>2, <2>1, <3>1, <3>2, TokensAdded DEF TypeOK
  <2>6. lite_command'.parts = lite_command.parts
    BY <1>2, <2>1 DEF Command
  <2>7. Plain' => Plain
    BY <1>1, <2>1 DEF Plain, Indexes
  <2>8. ASSUME Plain
        PROVE  CommandsJoin(Grouped', start, position')
    <3>1. {position, position + 1} \subseteq Indices(position, position + 2)
      BY <1>2 DEF Indices
    <3>2. ASSUME NEW i \in Words, NEW j \in Words, Neighbours(i, j), position <= i, j < position + 2
          PROVE  {i, j} \subseteq {position, position + 1} /\ SamePipeline(i, j) /\ ~ PipeBetween(i, j)
      <4>1. i = position /\ j = position + 1
        BY <1>2, <3>2, WordBounds DEF Neighbours
      <4>2. SamePipeline(position, position + 1) /\ ~ PipeBetween(position, position + 1)
        BY <1>2, <2>3, AtOnce, Linked
      <4> QED BY <4>1, <4>2
    <3>3. CommandsJoin(Append(lite_commands, lite_command'), start, position + 2)
      BY <1>1, <2>3, <2>4, <2>5, <2>8, <3>1, <3>2, TakingJoins
    <3> QED BY <2>1, <2>2, <3>3
  <2>9. ASSUME NEW w, LastWord(w, start, position')
        PROVE  w \in TokensOf(lite_command') /\ tokens[w] # "RedirectionPipe" /\ OnlyComments(w, position')
    <3>1. LastWord(w, start, position + 1 + 1)
      BY <2>1, <2>3, <2>9
    <3>2. w = position + 1
      BY <1>2, <2>4, <3>1, LastIsRead
    <3>3. OnlyComments(position + 1, position + 1 + 1)
      BY <2>3, AtOnce
    <3> QED BY <2>1, <2>3, <2>4, <2>5, <3>2, <3>3
  <2>10. Started' /\ (Plain => LinesJoin(pipelines, start) /\ Parted(start) /\ ~ absorbing)
    BY <1>1, <2>1, <2>6, BoundCommand DEF Started
  <2> QED BY <1>1, <2>1, <2>2, <2>7, <2>8, <2>9, <2>10, BoundNextStep DEF Awaiting
<1> QED BY <1>3, <1>4

(* e>| ends the command, and the line goes on behind it. *)
LEMMA TakeRedirectionPipeKeepsBound ==
  ASSUME BoundInv, TakeRedirectionPipe
  PROVE  BoundariesKept'
<1>1. /\ pc = "command" /\ tokens' = tokens /\ pipelines' = pipelines /\ start' = start /\ Peek = "RedirectionPipe"
  BY DEF TakeRedirectionPipe, InCommand, block
<1>2. TypeOK /\ lite_command \in Command /\ lite_commands \in Seq(Command) /\ position \in Nat
  BY <1>1, BoundStatement DEF InPipeline
<1>3. CASE pc' = "failed"
  BY <1>2, <1>3, FailedBound DEF TakeRedirectionPipe, Fail
<1>4. CASE pc' # "failed"
  <2> DEFINE d == [lite_command EXCEPT !.redirections = Append(@, {position})]
  <2>1. /\ pc' = "after_pipe" /\ errors' = errors /\ position' = position + 1
        /\ lite_commands' = Append(lite_commands, d)
    BY <1>4 DEF TakeRedirectionPipe, Fail
  <2>2. InPipeline' /\ Grouped' = Append(lite_commands, d)
    BY <2>1 DEF InPipeline, Grouped
  <2>3. /\ position \in Indexes /\ tokens[position] = "RedirectionPipe" /\ position + 1 \in Nat
        /\ position + 1 <= End /\ position + 1 > 1 /\ position + 1 - 1 = position
    BY <1>1, <1>2, PeekType, Bounds
  <2>4. position \in Words
    BY <2>3 DEF Words
  <2>5. TokensOf(d) = TokensOf(lite_command) \union {position} /\ d \in Command
    <3>1. {position} \in SUBSET Nat
      BY <1>2
    <3>2. Append(lite_command.redirections, {position}) \in Seq(SUBSET Nat)
      BY <1>2, <3>1 DEF Command
    <3>3. d \in Command
      BY <1>2, <3>2 DEF Command
    <3> QED BY <1>2, <3>1, <3>3, TokensAdded
  <2> HIDE DEF d
  <2>6. Plain' => Plain
    BY <1>1, <2>1 DEF Plain, Indexes
  <2>7. ASSUME Plain
        PROVE  CommandsJoin(Grouped', start, position')
    <3>1. {position} \subseteq Indices(position, position + 1)
      BY <1>2 DEF Indices
    <3>2. ASSUME NEW i \in Words, NEW j \in Words, Neighbours(i, j), position <= i, j < position + 1
          PROVE  FALSE
      BY <1>2, <3>2, WordBounds DEF Neighbours
    <3>3. CommandsJoin(Append(lite_commands, d), start, position + 1)
      BY <1>1, <2>3, <2>4, <2>5, <2>7, <3>1, <3>2, TakingJoins
    <3> QED BY <2>1, <2>2, <3>3
  <2>8. ASSUME NEW w, LastWord(w, start, position')
        PROVE  GoesOn(w, position') /\ Piped(w, position')
    <3>1. w = position
      BY <1>2, <2>1, <2>4, <2>8, LastIsRead
    <3>2. GoesOn(position, position + 1) /\ Piped(position, position + 1)
      BY <1>2, <2>3, AtOnce DEF Piped
    <3> QED BY <2>1, <3>1, <3>2
  <2>9. Plain => LinesJoin(pipelines, start) /\ Parted(start)
    BY <1>1, BoundCommand
  <2>10. position' > 1 /\ tokens[position' - 1] \in PipeKinds
    <3>1. position' > 1 /\ position' - 1 = position
      BY <1>2, <2>1, <2>3
    <3> QED BY <2>3, <3>1 DEF PipeKinds
  <2> QED BY <1>1, <2>1, <2>2, <2>6, <2>7, <2>8, <2>9, <2>10, BoundNextStep
<1> QED BY <1>3, <1>4

LEMMA CommandCommentKeepsBound ==
  ASSUME BoundInv, CommandComment
  PROVE  BoundariesKept'
<1>1. /\ pc = "command" /\ pc' = pc /\ tokens' = tokens /\ errors' = errors
      /\ pipelines' = pipelines /\ start' = start /\ position' = position + 1 /\ lite_commands' = lite_commands
      /\ lite_command' = lite_command /\ absorbing' = absorbing
      /\ InPipeline' /\ Grouped' = Grouped /\ Peek = "Comment" /\ InPipeline /\ Started' = Started
  BY DEF CommandComment, InCommand, InPipeline, Grouped, Started, block, command
<1>2. /\ TypeOK /\ position \in Nat /\ start \in Nat
      /\ Plain => /\ LinesJoin(pipelines, start) /\ Parted(start)
                  /\ CommandsJoin(Grouped, start, position) /\ GapInv
  BY <1>1, BoundStatement
<1>3. tokens[position] = "Comment" /\ NoWords(position, position + 1) /\ position + 1 \in Nat /\ position <= position + 1
  BY <1>1, <1>2, PeekType, OneOver
<1>4. Plain' => Plain
  BY <1>1 DEF Plain, Indexes
<1>5. Plain => CommandsJoin(Grouped, start, position + 1)
  BY <1>2, <1>3, CommandsPass
<1>6. ASSUME NEW w, LastWord(w, start, position + 1)
      PROVE  w \in Nat /\ w < position /\ LastWord(w, start, position)
  <2>1. w \in Nat
    BY <1>2, <1>6, WordBounds DEF LastWord
  <2>2. LastWord(w, start, position)
    BY <1>2, <1>3, <1>6, <2>1, LastWordPass
  <2> QED BY <2>1, <2>2 DEF LastWord
<1>7. ASSUME Plain, ~ Started, NEW w, LastWord(w, start, position + 1)
      PROVE  GoesOn(w, position + 1) /\ Piped(w, position + 1)
  <2>1. w \in Nat /\ w < position /\ GoesOn(w, position) /\ Piped(w, position)
    BY <1>1, <1>2, <1>6, <1>7 DEF GapInv, Awaiting
  <2> QED BY <1>2, <1>3, <2>1, GoesOnMore, PipedMore
<1>8. ASSUME Plain, Started, NEW w, LastWord(w, start, position + 1)
      PROVE  w \in TokensOf(lite_command) /\ tokens[w] # "RedirectionPipe" /\ OnlyComments(w, position + 1)
  <2>1. w \in Nat /\ w \in TokensOf(lite_command) /\ tokens[w] # "RedirectionPipe" /\ OnlyComments(w, position)
    BY <1>1, <1>2, <1>6, <1>8 DEF GapInv
  <2> QED BY <1>2, <1>3, <2>1, OnlyCommentsMore
<1>9. Awaiting' => ~ Started
  BY <1>1 DEF Awaiting
<1> QED BY <1>1, <1>2, <1>4, <1>5, <1>7, <1>8, <1>9, BoundNextStep DEF GapInv

LEMMA EndCommandKeepsBound ==
  ASSUME BoundInv, EndCommand
  PROVE  BoundariesKept'
<1>1. /\ pc = "command" /\ tokens' = tokens /\ pipelines' = pipelines /\ start' = start /\ position' = position
  BY DEF EndCommand, EndsCommand, InCommand, block
<1>2. TypeOK /\ lite_command \in Command /\ lite_commands \in Seq(Command)
  BY <1>1, BoundStatement DEF InPipeline
<1>3. CASE pc' = "failed"
  BY <1>2, <1>3, FailedBound DEF EndCommand, Fail
<1>4. CASE pc' # "failed"
  <2>1. /\ pc' = "commands" /\ errors' = errors /\ pipe' = None /\ lite_commands' = Append(lite_commands, lite_command)
        /\ ~ (lite_command.parts = <<>> /\ lite_command.attributes = <<>>)
    BY <1>4 DEF EndCommand, Fail
  <2>2. InPipeline' /\ Grouped' = Append(lite_commands, lite_command) /\ ~ Awaiting'
    <3>1. lite_commands' # <<>>
      <4>1. Len(lite_commands') = Len(lite_commands) + 1 /\ Len(lite_commands) \in Nat
        BY <1>2, <2>1
      <4> QED BY <4>1
    <3> QED BY <2>1, <3>1 DEF InPipeline, Grouped, Awaiting
  <2>3. Plain' => Plain
    BY <1>1, <2>1 DEF Plain, Indexes
  <2>4. ASSUME Plain
        PROVE  /\ LinesJoin(pipelines, start) /\ Parted(start) /\ CommandsJoin(Grouped', start, position)
               /\ \A w : LastWord(w, start, position) => tokens[w] # "RedirectionPipe" /\ OnlyComments(w, position)
    <3>1. Started
      BY <1>1, <2>1, <2>4, BoundCommand DEF GapInv, Started
    <3> QED BY <1>1, <2>2, <2>4, <3>1, BoundCommand DEF GapInv
  <2> QED BY <1>1, <2>1, <2>2, <2>3, <2>4, BoundNextStep
<1> QED BY <1>3, <1>4

(* Assignments and attributes there are none. *)
LEMMA ExcludedStepsKeepBound ==
  ASSUME BoundInv,
         SkipAssignedEol \/ (\E q \in position..Len(tokens) : ContinueAssigned(q))
           \/ (\E e \in position..End : AttributeLine(e))
  PROVE  BoundariesKept'
<1>1. /\ tokens' = tokens /\ pc \in {"attributes", "command"} /\ InPipeline
      /\ errors' = errors \/ \E e : errors' = Append(errors, e)
      /\ pc' = "failed" => \E e : errors' = Append(errors, e)
  BY DEF SkipAssignedEol, ContinueAssigned, AttributeLine, InCommand, InPipeline, Fail
<1>2. TypeOK
  BY <1>1, BoundStatement
<1>3. ~ Plain
  <2>1. CASE absorbing
    BY <1>1, <2>1, BoundStatement DEF GapInv
  <2>2. CASE Peek = "At"
    BY <1>2, <2>2, PeekType DEF Plain
  <2> QED BY <2>1, <2>2 DEF SkipAssignedEol, ContinueAssigned, AttributeLine
<1>4. ~ Plain'
  BY <1>1, <1>2, <1>3, PlainBefore
<1>5. CASE pc' = "failed"
  BY <1>1, <1>2, <1>5, FailedBound
<1> QED BY <1>4, <1>5 DEF BoundariesKept

----------------------------------------------------------------------------
LEMMA BoundInit == Init => BoundInv
<1> SUFFICES ASSUME Init PROVE BoundariesKept
  BY EndsInit DEF BoundInv
<1>1. pc = "start" /\ pipelines = <<>> /\ position = 1 /\ Base = 1 /\ ~ InPipeline
  BY DEF Init, Base, InPipeline
<1>2. TypeOK
  BY InitType
<1>3. ASSUME NEW j \in Words
      PROVE  j \in Nat /\ j >= 1
  BY <1>2, WordBounds
<1>4. LinesJoin(pipelines, Base) /\ Parted(Base)
  <2>1. ASSUME NEW i \in Words, NEW j \in Words, Neighbours(i, j), j < 1
        PROVE  FALSE
    BY <1>3, <2>1
  <2>2. ASSUME NEW i \in Words, NEW j \in Words, Neighbours(i, j), i < 1
        PROVE  FALSE
    BY <1>3, <2>2
  <2> QED BY <1>1, <2>1, <2>2 DEF LinesJoin, Parted
<1> QED BY <1>1, <1>4 DEF BoundariesKept, JoinInv

LEMMA BoundUnchanged ==
  ASSUME BoundInv, UNCHANGED vars
  PROVE  BoundariesKept'
<1>1. UNCHANGED <<tokens, position, pc, pipelines, start, lite_commands, pipe, lite_command, absorbing, errors>>
  BY DEF vars
<1>2. Plain' = Plain /\ JoinInv' = JoinInv
  BY <1>1 DEF Plain, Indexes, JoinInv, LinesJoin, CommandsJoin, Parted, Base, InPipeline, Grouped, GapInv, Awaiting,
              Started, LastWord, GoesOn, Piped, OnlyComments, Words, Neighbours, SamePipeline, PipeBetween,
              BlankLineBetween, Between, NoWords, Peek, End
<1> QED BY <1>1, <1>2 DEF BoundInv, BoundariesKept

LEMMA BoundNext == BoundInv /\ [Next]_vars => BoundInv'
<1> SUFFICES ASSUME BoundInv, [Next]_vars PROVE BoundariesKept'
  BY EndsNext DEF BoundInv
<1>1. CASE CheckEnd \/ EndBlock \/ BlockEol \/ BlockSemicolon \/ BlockComment
  BY <1>1, BlockStepsKeepBound
<1>2. CASE BeginPipeline \/ EndPipeline \/ \E e \in start..End : Recover(e)
  BY <1>2, BeginPipelineKeepsBound, EndPipelineKeepsBound, RecoverKeepsBound
<1>3. CASE LeadingPipe \/ BeginCommand \/ AttributesDone
  BY <1>3, LeadingPipeKeepsBound, BeginCommandKeepsBound, AttributesDoneKeepsBound
<1>4. CASE NoMoreCommands \/ ElementParses
  BY <1>4, NoMoreCommandsKeepsBound, ElementParsesKeepsBound
<1>5. CASE \E q \in position..Len(tokens) : LaterPipe(q) \/ ContinueAssigned(q)
  BY <1>5, LaterPipeKeepsBound, ExcludedStepsKeepBound
<1>6. CASE \E e \in position..End : AfterPipe(e) \/ AttributeLine(e)
  BY <1>6, AfterPipeKeepsBound, ExcludedStepsKeepBound
<1>7. CASE TakePart \/ TakeRedirection \/ TakeRedirectionPipe
  BY <1>7, TakePartKeepsBound, TakeRedirectionKeepsBound, TakeRedirectionPipeKeepsBound
<1>8. CASE EndCommand \/ CommandComment \/ SkipAssignedEol
  BY <1>8, EndCommandKeepsBound, CommandCommentKeepsBound, ExcludedStepsKeepBound
<1>9. CASE ShellOr \/ ElementFails
  BY <1>9, FailingStepsKeepBound
<1>10. CASE UNCHANGED vars
  BY <1>10, BoundUnchanged
<1> QED BY <1>1, <1>2, <1>3, <1>4, <1>5, <1>6, <1>7, <1>8, <1>9, <1>10 DEF Next

(* Of every block the lexer can make, when no statement of it fails: the     *)
(* words and line ends alone decide what belongs together, as the header of  *)
(* lite_parser.rs tells.  Neighbouring words are in one pipeline exactly when *)
(* no `;`, no blank line and no line end without a | parts them, and in one  *)
(* command exactly when no pipe does - across any comments, continued lines  *)
(* and lone pipes.                                                           *)
THEOREM BoundariesAreWritten == Spec => []PipelineBoundaries
<1>1. BoundInv => PipelineBoundaries
  <2> SUFFICES ASSUME BoundInv, Done, errors = <<>>, \A i \in Indexes : tokens[i] \notin {"At", "AssignmentOperator"},
                      NEW i \in Words, NEW j \in Words, Neighbours(i, j)
               PROVE  /\ SamePipeline(i, j) <=> \E s \in Ran(pipelines) : {i, j} \subseteq StatementOf(s)
                      /\ (SamePipeline(i, j) /\ ~ PipeBetween(i, j))
                           <=> \E s \in Ran(pipelines) : \E c \in Ran(s.commands) : {i, j} \subseteq TokensOf(c)
    BY DEF PipelineBoundaries
  <2>1. position = End /\ LinesJoin(pipelines, position) /\ TypeOK
    <3>1. pc = "done" /\ WordsInv
      BY DEF Done, BoundInv, EndsInv, DocInv, OpenInv
    <3> QED BY <3>1, BoundOutside DEF BetweenStatements, Plain, WordsInv, WordsKept
  <2>2. j < End
    BY <2>1, WordBounds
  <2>3. /\ SamePipeline(i, j) <=> InOneLine(pipelines, i, j)
        /\ (SamePipeline(i, j) /\ ~ PipeBetween(i, j)) <=> InOneOf(pipelines, i, j)
    BY <2>1, <2>2 DEF LinesJoin
  <2>4. InOneLine(pipelines, i, j) <=> \E s \in Ran(pipelines) : {i, j} \subseteq StatementOf(s)
    BY DEF InOneLine, Ran
  <2>5. InOneOf(pipelines, i, j)
          <=> \E s \in Ran(pipelines) : \E c \in Ran(s.commands) : {i, j} \subseteq TokensOf(c)
    BY DEF InOneOf, InOneCommand, Ran
  <2> QED BY <2>3, <2>4, <2>5
<1> QED BY <1>1, BoundInit, BoundNext, PTL DEF Spec
============================================================================
