----------------------------- MODULE Pipelines -----------------------------
(***************************************************************************)
(* parse_block and parse_pipeline (src/parser/parse_pipelines.rs) with the *)
(* lite parse they drive (src/parser/lite_parser.rs): the tokens of one    *)
(* block are grouped into statements, a statement into commands, and a     *)
(* statement that fails becomes garbage up to the end of its first line.   *)
(*                                                                         *)
(* A token is its kind: what is written in an item matters only for the    *)
(* leading @ of an attribute ("At").  Tokens are named by their index,     *)
(* from 1; position is the index of the next one.  The inside of a command *)
(* is parsed elsewhere: here it parses or fails (ElementFails), and the    *)
(* value of an assignment, itself a block, makes parse_block's own check   *)
(* for a pipeline with no end.                                             *)
(***************************************************************************)
EXTENDS Integers, Sequences

CONSTANT TokenLists   (* the blocks to parse *)

Kind == {"Item", "At", "AssignmentOperator", "Redirection", "RedirectionPipe",
         "Pipe", "PipePipe", "Semicolon", "Eol", "Comment"}

ASSUME TokenListsAssumption == TokenLists \subseteq Seq(Kind)

(* The lists the lexer makes: in a block (BLOCK) a comment runs to the end   *)
(* of its line, in a subexpression (SUBEXPRESSION) there are no line ends.   *)
InBlockForm(list) ==
  \A i \in 1..(Len(list) - 1) : list[i] = "Comment" => list[i + 1] = "Eol"

InSubexpressionForm(list) == \A i \in 1..Len(list) : list[i] # "Eol"

ASSUME LexedAssumption ==
  \A list \in TokenLists : InBlockForm(list) \/ InSubexpressionForm(list)

VARIABLES
  tokens,           \* the block's tokens (never changes)
  position,
  pc,
  (* parse_block *)
  pipelines, pending, last, dangling_pipe, start,
  (* parse_pipeline *)
  leading, lite_commands, trailing, pipe, dangling, element,
  (* parse_lite_command *)
  lite_command, absorbing,
  (* the working set *)
  comments, errors

block    == <<pipelines, pending, last, dangling_pipe, start>>
pipeline == <<leading, lite_commands, trailing, pipe, dangling, element>>
command  == <<lite_command, absorbing>>
vars     == <<tokens, position, pc, pipelines, pending, last, dangling_pipe, start,
              leading, lite_commands, trailing, pipe, dangling, element,
              lite_command, absorbing, comments, errors>>

----------------------------------------------------------------------------
None  == 0            \* no token
End   == Len(tokens) + 1
Peek  == IF position < End THEN tokens[position] ELSE "End"
Items == {"Item", "At"}

Indices(lo, hi)    == lo..(hi - 1)
CommentsIn(lo, hi) == {i \in Indices(lo, hi) : tokens[i] = "Comment"}

(* e is where the line of position p ends: its Eol or `;`, or the end. *)
StatementEnd(p, e) ==
  /\ \A i \in Indices(p, e) : tokens[i] \notin {"Eol", "Semicolon"}
  /\ e < End => tokens[e] \in {"Eol", "Semicolon"}

(* (Comment Eol)* from p to e, as far as it goes. *)
CommentLines(p, e) ==
  /\ (e - p) % 2 = 0
  /\ \A i \in Indices(p, e) : tokens[i] = (IF (i - p) % 2 = 0 THEN "Comment" ELSE "Eol")
  /\ ~ (e + 1 < End /\ tokens[e] = "Comment" /\ tokens[e + 1] = "Eol")

(* Mutant: blank lines before the Pipe do not matter. *)
PipeAfterLines(p, q) ==
  /\ p < q /\ q < End
  /\ tokens[p] = "Eol" /\ tokens[q] = "Pipe"
  /\ \A i \in Indices(p, q) : tokens[i] \in {"Eol", "Comment"}

(* pipe_on_later_line: Eol (Comment Eol)* from p, and a Pipe at q. *)
PipeOnLaterLine(p, q) ==
  /\ p < q /\ q < End
  /\ tokens[p] = "Eol" /\ tokens[q] = "Pipe"
  /\ CommentLines(p + 1, q)

(* after_pipe: Comment* [Eol (Comment Eol)*] from p to e. *)
Continuation(p, e) ==
  \E c \in p..e :
    /\ \A i \in Indices(p, c) : tokens[i] = "Comment"
    /\ c < End => tokens[c] # "Comment"
    /\ IF c < End /\ tokens[c] = "Eol" THEN c < e /\ CommentLines(c + 1, e) ELSE e = c

(* last_non_comment_token of the tokens is the Pipe at p: what follows it    *)
(* is comments, each line end among them right before a comment.            *)
OpenPipe(toks, p) ==
  /\ toks[p] = "Pipe"
  /\ \A i \in (p + 1)..Len(toks) :
       \/ toks[i] = "Comment"
       \/ toks[i] = "Eol" /\ i < Len(toks) /\ toks[i + 1] = "Comment"

EmptyCommand == [pipe |-> None, parts |-> <<>>, attributes |-> <<>>, redirections |-> <<>>]

KindOf(i) == tokens[i]

ErrorKind == {"no_end", "extra_tokens", "command_after_pipe", "attributes_without_definition",
              "nothing_to_redirect", "redirection_target", "shell_syntax", "expected_command", "element"}

Error(what, where) == [what |-> what, at |-> where]

(* `Err` out of parse_pipeline: parse_block records it, and goes on to Recover. *)
Fail(what, where) ==
  /\ errors' = Append(errors, Error(what, where))
  /\ pc' = "failed"

----------------------------------------------------------------------------
Init ==
  /\ tokens \in TokenLists
  /\ position = 1 /\ pc = "start"
  /\ pipelines = <<>> /\ pending = {} /\ last = "Eol" /\ dangling_pipe = None /\ start = 1
  /\ leading = {} /\ lite_commands = <<>> /\ trailing = {}
  /\ pipe = None /\ dangling = None /\ element = 1
  /\ lite_command = EmptyCommand /\ absorbing = FALSE
  /\ comments = {} /\ errors = <<>>

(***************************************************************************)
(* parse_block.                                                            *)
(***************************************************************************)
NoEnd(toks) == {Error("no_end", p) : p \in {q \in 1..Len(toks) : OpenPipe(toks, q)}}

CheckEnd ==
  /\ pc = "start"
  /\ pc' = "block"
  /\ errors' = IF NoEnd(tokens) = {} THEN errors ELSE Append(errors, CHOOSE e \in NoEnd(tokens) : TRUE)
  /\ UNCHANGED <<tokens, position, block, pipeline, command, comments>>

InBlock(kind) == pc = "block" /\ Peek = kind

(* Mutant: a blank line does not part comments from what follows. *)
BlockEolKeepsComments ==
  /\ InBlock("Eol")
  /\ last' = "Eol"
  /\ position' = position + 1
  /\ UNCHANGED <<tokens, pc, pipelines, pending, dangling_pipe, start, pipeline, command, comments, errors>>

BlockEol ==
  /\ InBlock("Eol")
  /\ pending' = IF last = "Eol" THEN {} ELSE pending
  /\ last' = "Eol"
  /\ position' = position + 1
  /\ UNCHANGED <<tokens, pc, pipelines, dangling_pipe, start, pipeline, command, comments, errors>>

(* Mutant: a `;` on a later line terminates the pipeline too. *)
TakesAnyTerminator == pipelines # <<>> /\ pipelines[Len(pipelines)].terminator = None

TakesTerminator ==
  /\ last \notin {"Eol", "Semicolon"}
  /\ pipelines # <<>> /\ pipelines[Len(pipelines)].terminator = None

BlockSemicolon ==
  /\ InBlock("Semicolon")
  /\ errors' = IF dangling_pipe # None
               THEN Append(errors, Error("extra_tokens", position)) ELSE errors
  /\ pipelines' = IF TakesTerminator
                  THEN [pipelines EXCEPT ![Len(pipelines)].terminator = position]
                  ELSE pipelines
  /\ last' = "Semicolon"
  /\ position' = position + 1
  /\ UNCHANGED <<tokens, pc, pending, dangling_pipe, start, pipeline, command, comments>>

BlockComment ==
  /\ InBlock("Comment")
  /\ comments' = comments \union {position}
  /\ IF pipelines # <<>> /\ last # "Eol"
     THEN /\ pipelines' = [pipelines EXCEPT ![Len(pipelines)].trailing = @ \union {position}]
          /\ UNCHANGED pending
     ELSE /\ pending' = pending \union {position}
          /\ UNCHANGED pipelines
  /\ last' = "Comment"
  /\ position' = position + 1
  /\ UNCHANGED <<tokens, pc, dangling_pipe, start, pipeline, command, errors>>

(* parse_pipeline is called, its locals initialised. *)
CallPipeline ==
  /\ pc = "block" /\ Peek \notin {"Eol", "Semicolon", "Comment", "End"}
  /\ pc' = "commands"
  /\ leading' = pending /\ pending' = {}
  /\ lite_commands' = <<>> /\ trailing' = {}
  /\ pipe' = None /\ dangling' = None
  /\ UNCHANGED <<tokens, position, pipelines, last, element, command, comments, errors>>

(* Mutant: a pipe left open before a statement that fails is still open after it. *)
BeginPipelineStillOpen == CallPipeline /\ start' = position /\ UNCHANGED dangling_pipe

(* Mutant: recovery goes back to the first statement. *)
BeginPipelineOldStart == CallPipeline /\ dangling_pipe' = None /\ UNCHANGED start

BeginPipeline == CallPipeline /\ dangling_pipe' = None /\ start' = position

(* The statement fails: reset_to(start), skip_to_statement_end. *)
Recover(e) ==
  /\ pc = "failed"
  /\ StatementEnd(start, e)
  /\ pipelines' = Append(pipelines,
        [start |-> start, garbage |-> Indices(start, e), commands |-> <<>>,
         leading |-> {}, trailing |-> {}, terminator |-> None])
  /\ position' = e
  /\ last' = "Item"
  /\ pc' = "block"
  /\ UNCHANGED <<tokens, pending, dangling_pipe, start, pipeline, command, comments, errors>>

EndBlock ==
  /\ InBlock("End")
  /\ pc' = "done"
  /\ UNCHANGED <<tokens, position, block, pipeline, command, comments, errors>>

----------------------------------------------------------------------------
(***************************************************************************)
(* parse_pipeline: the 'commands loop.                                     *)
(***************************************************************************)
(* Mutant: the comments of the pipeline are not given to the working set. *)
RecordInPipeline(found) ==
  /\ trailing' = trailing \union found
  /\ UNCHANGED comments

Record(found) ==
  /\ comments' = comments \union found
  /\ trailing' = trailing \union found

LeadingPipe ==
  /\ pc = "commands" /\ Peek = "Pipe"
  /\ pipe' = position
  /\ position' = position + 1
  /\ pc' = "after_pipe"
  /\ UNCHANGED <<tokens, block, leading, lite_commands, trailing, dangling, element,
                 command, comments, errors>>

CommandEnded == pc = "commands" /\ Peek # "Pipe" /\ pipe = None /\ lite_commands # <<>>

(* take_pipe_on_later_line stops at the pipe, which the loop then takes. *)
LaterPipe(q) ==
  /\ CommandEnded
  /\ PipeOnLaterLine(position, q)
  /\ Record(CommentsIn(position, q))
  /\ position' = q
  /\ UNCHANGED <<tokens, pc, block, leading, lite_commands, pipe, dangling, element, command, errors>>

NoMoreCommands ==
  /\ CommandEnded
  /\ \A q \in 1..Len(tokens) : ~ PipeOnLaterLine(position, q)
  /\ pc' = "elements" /\ element' = 1
  /\ UNCHANGED <<tokens, position, block, leading, lite_commands, trailing, pipe, dangling,
                 command, comments, errors>>

(* Only the first command of a pipeline may have attributes. *)
BeginCommand ==
  /\ pc = "commands" /\ Peek # "Pipe" /\ ~ CommandEnded
  /\ pc' = IF pipe = None THEN "attributes" ELSE "command"
  /\ lite_command' = [EmptyCommand EXCEPT !.pipe = pipe]
  /\ absorbing' = FALSE
  /\ UNCHANGED <<tokens, position, block, pipeline, comments, errors>>

(* after_pipe: e is where the comments and the line end after the pipe stop. *)
AfterPipe(e) ==
  /\ pc = "after_pipe"
  /\ Continuation(position, e)
  /\ Record(CommentsIn(position, e))
  /\ position' = e
  /\ IF e < End /\ KindOf(e) = "Semicolon"
     THEN Fail("command_after_pipe", pipe) /\ UNCHANGED <<pipe, dangling, element>>
     ELSE /\ IF e = End \/ KindOf(e) = "Eol"
             THEN pc' = "elements" /\ element' = 1 /\ dangling' = pipe /\ pipe' = None
             ELSE pc' = "commands" /\ UNCHANGED <<pipe, dangling, element>>
          /\ UNCHANGED errors
  /\ UNCHANGED <<tokens, block, leading, lite_commands, command>>

----------------------------------------------------------------------------
(***************************************************************************)
(* parse_lite_command.                                                     *)
(***************************************************************************)

(* Mutant: the end of the tokens is consumed like a line end. *)
LineAfterAny(e) == e + 1

(* The line end at e is consumed. *)
LineAfter(e) == IF e < End THEN e + 1 ELSE e

(* One turn of lite_attribute_lines' loop: the line ends at e. *)
AttributeLine(e) ==
  /\ pc = "attributes" /\ Peek = "At"
  /\ StatementEnd(position, e)
  /\ position' = LineAfter(e)
  /\ IF LineAfter(e) < End /\ KindOf(LineAfter(e)) \in {"Eol", "Comment"}
     THEN Fail("attributes_without_definition", LineAfter(e))
     ELSE UNCHANGED <<pc, errors>>
  /\ Record(CommentsIn(position, e))
  /\ lite_command' = [lite_command EXCEPT !.attributes =
                        Append(@, Indices(position, e) \ CommentsIn(position, e))]
  /\ UNCHANGED <<tokens, block, leading, lite_commands, pipe, dangling, element, absorbing>>

AttributesDone ==
  /\ pc = "attributes" /\ Peek # "At"
  /\ pc' = "command"
  /\ UNCHANGED <<tokens, position, block, pipeline, command, comments, errors>>

InCommand(kinds) == pc = "command" /\ Peek \in kinds

(* After an assignment operator the pipes and redirections are parts too. *)
PartKinds == Items \union {"AssignmentOperator"} \union
  (IF absorbing THEN {"Pipe", "PipePipe", "Redirection", "RedirectionPipe"} ELSE {})

(* Mutant: the operator does not start absorbing. *)
TakePartOnly ==
  /\ InCommand(PartKinds)
  /\ lite_command' = [lite_command EXCEPT !.parts = Append(@, position)]
  /\ position' = position + 1
  /\ UNCHANGED <<tokens, pc, block, pipeline, absorbing, comments, errors>>

TakePart ==
  /\ InCommand(PartKinds)
  /\ lite_command' = [lite_command EXCEPT !.parts = Append(@, position)]
  /\ absorbing' = (absorbing \/ Peek = "AssignmentOperator")
  /\ position' = position + 1
  /\ UNCHANGED <<tokens, pc, block, pipeline, comments, errors>>

(* Mutant: the comment is recorded and never passed. *)
CommandCommentStays ==
  /\ InCommand({"Comment"})
  /\ Record({position})
  /\ UNCHANGED <<tokens, position, pc, block, leading, lite_commands, pipe, dangling, element,
                 command, errors>>

CommandComment ==
  /\ InCommand({"Comment"})
  /\ Record({position})
  /\ position' = position + 1
  /\ UNCHANGED <<tokens, pc, block, leading, lite_commands, pipe, dangling, element, command, errors>>

PartsEndWithPipe ==
  lite_command.parts # <<>> /\ KindOf(lite_command.parts[Len(lite_command.parts)]) = "Pipe"

SkipAssignedEol ==
  /\ InCommand({"Eol"}) /\ absorbing /\ PartsEndWithPipe
  /\ position' = position + 1
  /\ UNCHANGED <<tokens, pc, block, pipeline, command, comments, errors>>

ContinueAssigned(q) ==
  /\ InCommand({"Eol"}) /\ absorbing /\ ~ PartsEndWithPipe
  /\ PipeOnLaterLine(position, q)
  /\ Record(CommentsIn(position, q))
  /\ position' = q
  /\ UNCHANGED <<tokens, pc, block, leading, lite_commands, pipe, dangling, element, command, errors>>

NothingToRedirect == lite_command.parts = <<>>

TakeRedirection ==
  /\ InCommand({"Redirection"}) /\ ~ absorbing
  /\ IF NothingToRedirect
     THEN Fail("nothing_to_redirect", position) /\ UNCHANGED <<position, lite_command>>
     ELSE IF position + 1 = End \/ KindOf(position + 1) \notin Items
     THEN Fail("redirection_target", position + 1) /\ UNCHANGED <<position, lite_command>>
     ELSE /\ lite_command' = [lite_command EXCEPT !.redirections = Append(@, {position, position + 1})]
          /\ position' = position + 2
          /\ UNCHANGED <<pc, errors>>
  /\ UNCHANGED <<tokens, block, pipeline, absorbing, comments>>

(* e>| ends the command and is the pipe before the next one. *)
TakeRedirectionPipe ==
  /\ InCommand({"RedirectionPipe"}) /\ ~ absorbing
  /\ IF NothingToRedirect
     THEN Fail("nothing_to_redirect", position) /\ UNCHANGED <<position, lite_commands, pipe>>
     ELSE /\ lite_commands' = Append(lite_commands,
                [lite_command EXCEPT !.redirections = Append(@, {position})])
          /\ pipe' = position
          /\ position' = position + 1
          /\ pc' = "after_pipe"
          /\ UNCHANGED errors
  /\ UNCHANGED <<tokens, block, leading, trailing, dangling, element, command, comments>>

ShellOr ==
  /\ InCommand({"PipePipe"}) /\ ~ absorbing
  /\ Fail("shell_syntax", position)
  /\ UNCHANGED <<tokens, position, block, pipeline, command, comments>>

EndsCommand ==
  \/ InCommand({"Semicolon", "End"})
  \/ InCommand({"Pipe", "Eol"}) /\ ~ absorbing
  \/ /\ InCommand({"Eol"}) /\ absorbing /\ ~ PartsEndWithPipe
     /\ \A q \in 1..Len(tokens) : ~ PipeOnLaterLine(position, q)

EndCommand ==
  /\ EndsCommand
  /\ IF lite_command.parts = <<>> /\ lite_command.attributes = <<>>
     THEN Fail("expected_command", position) /\ UNCHANGED <<lite_commands, pipe>>
     ELSE /\ lite_commands' = Append(lite_commands, lite_command)
          /\ pipe' = None
          /\ pc' = "commands"
          /\ UNCHANGED errors
  /\ UNCHANGED <<tokens, position, block, leading, trailing, dangling, element, command, comments>>

----------------------------------------------------------------------------
(***************************************************************************)
(* parse_pipeline_element, seen from outside: a command parses or fails.   *)
(* Its value, when it has one, is parsed as a block of its own first - or  *)
(* is not (alias).                                                         *)
(***************************************************************************)
Operator(parts) == {k \in 1..Len(parts) : KindOf(parts[k]) = "AssignmentOperator"}

FirstOperator(parts) == CHOOSE k \in Operator(parts) : \A m \in Operator(parts) : k <= m

Value(parts) == IF Operator(parts) = {} THEN <<>>
                ELSE SubSeq(parts, FirstOperator(parts) + 1, Len(parts))

(* parse_block's check of the value's tokens. *)
ValueErrors(parts) ==
  LET value == Value(parts)
  IN  {Error("no_end", value[e.at]) : e \in NoEnd([k \in 1..Len(value) |-> KindOf(value[k])])}

InElement == pc = "elements" /\ element <= Len(lite_commands)

Current == lite_commands[element]

(* Attributes need a definition, an operator needs both its sides. *)
CanParse(parts) ==
  /\ parts # <<>>
  /\ Operator(parts) # {} => FirstOperator(parts) > 1 /\ Value(parts) # <<>>

(* The value is parsed (and so checked first), or never looked at. *)
AfterValue(c) ==
  {errors} \union
  (IF CanParse(c.parts) /\ c.attributes = <<>>
   THEN {Append(errors, e) : e \in ValueErrors(c.parts)} ELSE {})

ElementParses ==
  /\ InElement
  /\ CanParse(Current.parts)
  /\ errors' \in AfterValue(Current)
  /\ element' = element + 1
  /\ UNCHANGED <<tokens, position, pc, block, leading, lite_commands, trailing, pipe, dangling,
                 command, comments>>

ElementFails ==
  /\ InElement
  /\ \E e \in AfterValue(Current) : errors' = Append(e, Error("element", start))
  /\ pc' = "failed"
  /\ UNCHANGED <<tokens, position, block, pipeline, command, comments>>

(* With no command at all (a lone | before a blank line) there is no pipeline. *)
EndPipeline ==
  /\ pc = "elements" /\ element > Len(lite_commands)
  /\ IF lite_commands = <<>> THEN UNCHANGED <<pipelines, position>>
     ELSE LET terminated == Peek = "Semicolon" IN
          /\ pipelines' = Append(pipelines,
               [start |-> start, garbage |-> {}, commands |-> lite_commands,
                leading |-> leading, trailing |-> trailing,
                terminator |-> IF terminated THEN position ELSE None])
          /\ position' = IF terminated THEN position + 1 ELSE position
  /\ dangling_pipe' = dangling
  /\ last' = "Item"
  /\ pc' = "block"
  /\ UNCHANGED <<tokens, pending, start, pipeline, command, comments, errors>>

Next ==
  \/ CheckEnd \/ BlockEol \/ BlockSemicolon \/ BlockComment \/ BeginPipeline \/ EndBlock
  \/ LeadingPipe \/ NoMoreCommands \/ BeginCommand
  \/ AttributesDone \/ TakePart \/ CommandComment \/ SkipAssignedEol
  \/ TakeRedirection \/ TakeRedirectionPipe \/ ShellOr \/ EndCommand
  \/ (\E e \in position..End : AfterPipe(e) \/ AttributeLine(e))
  \/ (\E e \in start..End : Recover(e))
  \/ (\E q \in position..Len(tokens) : LaterPipe(q) \/ ContinueAssigned(q))
  \/ ElementParses \/ ElementFails \/ EndPipeline

Fairness == WF_vars(Next)

Spec == Init /\ [][Next]_vars /\ Fairness

----------------------------------------------------------------------------
(***************************************************************************)
(* Properties.                                                             *)
(***************************************************************************)
Indexes == 1..Len(tokens)

Command == [pipe : Nat, parts : Seq(Nat), attributes : Seq(SUBSET Nat), redirections : Seq(SUBSET Nat)]

Statement == [start : Nat, garbage : SUBSET Nat, commands : Seq(Command),
              leading : SUBSET Nat, trailing : SUBSET Nat, terminator : Nat]

(* The shape of every variable: the one type invariant of the module. *)
TypeOK ==
  /\ tokens \in Seq(Kind)
  /\ position \in 1..End
  /\ pc \in {"start", "block", "commands", "after_pipe", "attributes", "command",
             "elements", "failed", "done"}
  /\ pipelines \in Seq(Statement)
  /\ last \in Kind /\ start \in 1..End
  /\ {pending, leading, trailing, comments} \subseteq SUBSET Indexes
  /\ {pipe, dangling, dangling_pipe} \subseteq Indexes \union {None}
  /\ lite_commands \in Seq(Command) /\ lite_command \in Command
  /\ element \in 1..(Len(lite_commands) + 1) \/ pc # "elements"
  /\ absorbing \in BOOLEAN
  /\ errors \in Seq([what : ErrorKind, at : Nat])

Ran(s) == {s[i] : i \in 1..Len(s)}

PartsOf(c)     == Ran(c.parts)
TokensOf(c)    == PartsOf(c) \union (UNION Ran(c.attributes)) \union (UNION Ran(c.redirections))
StatementOf(s) == s.garbage \union UNION {TokensOf(c) : c \in Ran(s.commands)}

Words == {i \in Indexes : tokens[i] \notin {"Pipe", "Semicolon", "Eol", "Comment"}}

Done == pc = "done"

(* However statements fail, recover and continue on later lines, parse_block *)
(* reads the block once: every token with meaning is in exactly one pipeline *)
(* of the result, and in exactly one of its commands; the pipelines and      *)
(* their commands are in source order.                                       *)
EveryWordInOneStatement ==
  Done =>
    /\ \A w \in Words : \E k \in 1..Len(pipelines) : w \in StatementOf(pipelines[k])
    /\ \A k, m \in 1..Len(pipelines) : k < m =>
         \A i \in StatementOf(pipelines[k]), j \in StatementOf(pipelines[m]) : i < j
    /\ \A s \in Ran(pipelines) : \A k, m \in 1..Len(s.commands) : k < m =>
         \A i \in TokensOf(s.commands[k]), j \in TokensOf(s.commands[m]) : i < j

(* A comment is missing from Ast::comments only when recovery skipped it (it *)
(* is in a garbage pipeline); and no comment hangs on two pipelines, or on   *)
(* one of them twice, although a failed statement's comments are read again. *)
Attached(s) == s.leading \union s.trailing

CommentsKept ==
  /\ Done => \A c \in Indexes : tokens[c] = "Comment" =>
       c \in comments \union UNION {s.garbage : s \in Ran(pipelines)}
  /\ \A k \in 1..Len(pipelines) :
       /\ pipelines[k].leading \intersect pipelines[k].trailing = {}
       /\ Attached(pipelines[k]) \subseteq comments
       /\ \A m \in 1..(k - 1) : Attached(pipelines[m]) \intersect Attached(pipelines[k]) = {}

(* The leading comments of a pipeline (the doc comments of a def) are all    *)
(* the comment lines right above its first token, up to the nearest blank    *)
(* line, and never a comment on the line of an earlier statement, nor one    *)
(* below an assignment that ends with a pipe, which goes on over the lines.  *)
OnOwnLine(c) == c > 1 /\ tokens[c - 1] = "Eol"

BehindAssignedPipe(c) ==
  \E s \in Ran(pipelines) : \E p \in UNION {PartsOf(d) : d \in Ran(s.commands)} :
    p < c /\ tokens[p] = "Pipe" /\ \A i \in Indices(p + 1, c) : tokens[i] \in {"Eol", "Comment"}

DocComments(k) ==
  LET s == pipelines[k].start IN
  {c \in CommentsIn(1, s) :
    /\ \A i \in Indices(c, s) : tokens[i] \in {"Comment", "Eol", "Semicolon"}
    /\ \A i \in Indices(c, s - 1) : ~ (tokens[i] = "Eol" /\ tokens[i + 1] = "Eol")
    /\ k = 1 \/ OnOwnLine(c)
    /\ ~ BehindAssignedPipe(c)}

LeadingCommentsAreDocComments ==
  \A k \in 1..Len(pipelines) :
    pipelines[k].leading = (IF pipelines[k].garbage = {} THEN DocComments(k) ELSE {})

(* Where no statement fails, words and line ends alone decide what belongs   *)
(* together, as the header of lite_parser.rs tells: two neighbouring words   *)
(* are in one pipeline unless a `;`, a blank line, or a line end without a   *)
(* | next to it comes between them, and in one command unless a | does too.  *)
(* (Assignments and attributes take whole lines, and are left out.)          *)
Neighbours(i, j) == i < j /\ \A k \in Indices(i + 1, j) : k \notin Words

Between(i, j) == {tokens[k] : k \in Indices(i + 1, j)}

BlankLineBetween(i, j) ==
  \E k \in Indices(i + 1, j - 1) : tokens[k] = "Eol" /\ tokens[k + 1] = "Eol"

PipeBetween(i, j) == "Pipe" \in Between(i, j) \/ tokens[i] = "RedirectionPipe"

SamePipeline(i, j) ==
  /\ "Semicolon" \notin Between(i, j)
  /\ ~ BlankLineBetween(i, j)
  /\ "Eol" \in Between(i, j) => PipeBetween(i, j)

PipelineBoundaries ==
  Done /\ errors = <<>> /\ (\A i \in Indexes : tokens[i] \notin {"At", "AssignmentOperator"}) =>
    \A i, j \in Words : Neighbours(i, j) =>
      /\ SamePipeline(i, j) <=> \E s \in Ran(pipelines) : {i, j} \subseteq StatementOf(s)
      /\ (SamePipeline(i, j) /\ ~ PipeBetween(i, j))
           <=> \E s \in Ran(pipelines) : \E c \in Ran(s.commands) : {i, j} \subseteq TokensOf(c)

(* An assignment takes the rest of its pipeline: the pipes on its line and   *)
(* on later lines are its value's, so no command follows it and nothing of   *)
(* it is redirected after the operator.                                      *)
AssignmentIsLast ==
  \A s \in Ran(pipelines) : \A k \in 1..Len(s.commands) :
    LET parts == s.commands[k].parts IN
    Operator(parts) # {} =>
      /\ k = Len(s.commands)
      /\ \A r \in UNION Ran(s.commands[k].redirections) : r < parts[FirstOperator(parts)]

(* A terminator is the first `;` after its pipeline and on its last line     *)
(* (an assignment that ends with a pipe has swallowed the line ends).        *)
TerminatorEndsItsLine ==
  \A s \in Ran(pipelines) : s.terminator # None =>
    /\ tokens[s.terminator] = "Semicolon"
    /\ \E w \in StatementOf(s) :
         /\ w < s.terminator
         /\ \A k \in Indices(w + 1, s.terminator) :
              tokens[k] = "Comment" \/ (tokens[k] = "Eol" /\ tokens[w] = "Pipe")

(* A `;` after an open pipe is an error wherever the pipe was dropped: right *)
(* after it (command after pipe) or past blank lines (extra tokens).         *)
OpenPipeBefore(t) ==
  \E p \in 1..(t - 1) :
    /\ tokens[p] \in {"Pipe", "RedirectionPipe"}
    /\ \A i \in Indices(p + 1, t) : tokens[i] \in {"Eol", "Comment", "Semicolon"}
    /\ \A s \in Ran(pipelines) :
         p \notin s.garbage \union UNION {PartsOf(c) \union (UNION Ran(c.attributes)) : c \in Ran(s.commands)}

OpenPipeBeforeSemicolon ==
  Done => \A t \in Indexes : tokens[t] = "Semicolon" =>
    (OpenPipeBefore(t) <=> \E e \in Ran(errors) : e = Error("extra_tokens", t))

(* parse_block ends: a failed statement is never entered again.              *)
Terminates == <>Done

(* Ast::comments (src/ast/mod.rs): "Every comment in the file, in source     *)
(* order". It lacks those of a garbage pipeline.                             *)
EveryCommentRecorded ==
  Done => \A c \in Indexes : tokens[c] = "Comment" => c \in comments

(* after_pipe's comment: a | at the end of the block is "reported once, by   *)
(* parse_block, whichever command absorbed it".                              *)
OpenPipeReportedOnce ==
  \A p \in Indexes : \A i, j \in 1..Len(errors) :
    errors[i] = Error("no_end", p) /\ errors[j] = Error("no_end", p) => i = j
============================================================================
